--------------------- MODULE FederationPromises_proofs ---------------------
(***************************************************************************)
(* What federation promises the owner of an instance, beyond Placement: an *)
(* acknowledged retraction was carried out, and a RemoteUnleash that stays *)
(* keeps its credential.                                                   *)
(***************************************************************************)
EXTENDS Federation_proofs

-----------------------------------------------------------------------------
(* Retractions, where secrets are not migrated                             *)

\* The migration of legacy secrets is never on.  With it on the promise is broken: the
\* run removal_race shows how.
NoMigration ==
    \/ ~AllowLegacyNameBoundSecrets
    \/ TRUE \notin InitBound /\ "redeploy" \notin Disturbances

\* No worker is past the call to the server, where the migration starts.
Resting ==
    /\ NoMigration
    /\ ~MigrationEnabled
    /\ \A n \in Tenants : rpc[n] \in {"idle", "call"}

\* While a retraction is carried out, the reference the handler read is the one the
\* object has, and whatever is still owed is yet to be examined, being examined or
\* found safe to delete; after the deletion nothing is owed.
Clearing ==
    hpc \in {"examining", "deleteSecrets"} /\ Retracts(Incoming) =>
        /\ cur # NoCur /\ Present(cur.ns) => ru[cur.ns].ref = cur.ref
        /\ \A n \in TenantNamespaces(Incoming) :
              Owed(n) => hpc = "examining" /\ (n \in todo \/ n \in safe \/ n = cur.ns)

\* Behind the handler's back no secret changes, and no reference.
Steady ==
    /\ secrets' = secrets
    /\ \A n \in Tenants : ru'[n] = NoRU \/ ru'[n].ref = ru[n].ref

\* Without the migration a worker leaves the secrets and the references alone.
LEMMA WorkerSteady ==
    ASSUME TypeOK, Resting, NEW ns \in Tenants, Reconcile(ns)
    PROVE  Steady /\ Resting'
  <1> USE DEF Steady
  <1>1. ru \in [Tenants -> RemoteUnleashes] /\ rpc[ns] \in {"idle", "call"} /\ ~MigrationEnabled
    BY DEF TypeOK, Resting
  <1>2. UNCHANGED otherVars => bound' = bound
    BY DEF otherVars
  <1>3. ASSUME NEW due, Done(ns, due), bound' = bound PROVE Resting'
    BY <1>3 DEF Done, Goto, Resting, MigrationEnabled, TypeOK
  <1>4. ASSUME Goto(ns, "call"), bound' = bound PROVE Resting'
    BY <1>4 DEF Goto, Resting, MigrationEnabled, TypeOK
  <1>5. ASSUME NEW r \in RemoteUnleashes, SetRU(ns, r), r = NoRU \/ r.ref = ru[ns].ref,
               secrets' = secrets
        PROVE  Steady
    BY <1>1, <1>5 DEF SetRU
  <1>6. CASE Finalize(ns)
    BY <1>2, <1>3, <1>5, <1>6, NoRUType DEF Finalize
  <1>7. CASE Validate(ns)
    <2> DEFINE finalized == [ru[ns] EXCEPT !.finalizer = TRUE]
               failed == [finalized EXCEPT !.status = "failed"]
    <2>1. /\ finalized \in RemoteUnleashes /\ finalized.ref = ru[ns].ref
          /\ failed \in RemoteUnleashes /\ failed.ref = ru[ns].ref
      BY <1>1 DEF RemoteUnleashes
    <2>2. SetRU(ns, finalized) \/ SetRU(ns, failed)
      BY <1>7 DEF Validate
    <2>3. secrets' = secrets /\ bound' = bound
      BY <1>2, <1>7 DEF Validate
    <2>4. Goto(ns, "call") \/ Done(ns, TRUE) \/ Done(ns, FALSE)
      BY <1>7 DEF Validate
    <2> QED BY <1>3, <1>4, <1>5, <2>1, <2>2, <2>3, <2>4
  <1>8. CASE Connect(ns) \/ ConnectFails(ns)
    <2>1. \E status \in {"connected", "disconnected"} : SetStatus(ns, status)
      BY <1>8 DEF Connect, ConnectFails
    <2>2. \A status \in {"connected", "disconnected"} :
             /\ [ru[ns] EXCEPT !.status = status] \in RemoteUnleashes
             /\ [ru[ns] EXCEPT !.status = status].ref = ru[ns].ref
      BY <1>1 DEF RemoteUnleashes
    <2>3. secrets' = secrets /\ bound' = bound /\ Done(ns, TRUE)
      BY <1>1, <1>2, <1>8 DEF Connect, ConnectFails
    <2> QED BY <1>3, <1>5, <2>1, <2>2, <2>3 DEF SetStatus
  <1>9. CASE Vanished(ns) \/ ReconcileFails(ns)
    BY <1>2, <1>3, <1>9 DEF Vanished, ReconcileFails, clusterVars
  <1>10. ~(Migrate(ns) \/ StampUrl(ns) \/ CreateBound(ns) \/ Repoint(ns) \/ DeleteLegacy(ns))
    BY <1>1 DEF Migrate, StampUrl, CreateBound, Repoint, DeleteLegacy
  <1> QED BY <1>6, <1>7, <1>8, <1>9, <1>10 DEF Reconcile

\* Steps behind the handler's back create no debt.
LEMMA StillClearing ==
    ASSUME TypeOK, Clearing, Steady, Longer, UNCHANGED <<next, handlerVars>>,
           \A n \in Tenants : Harmless(n)
    PROVE  Clearing'
  <1> SUFFICES ASSUME hpc' \in {"examining", "deleteSecrets"}, Retracts(Incoming')
               PROVE  Clearing'
    BY DEF Clearing
  <1>1. UNCHANGED <<next, hpc, todo, cur, safe>> /\ hpc \in {"examining", "deleteSecrets"}
    BY DEF handlerVars
  <1>2. Incoming' = Incoming
    BY <1>1 DEF Incoming, Longer, TypeOK
  <1>3. ASSUME NEW n \in Tenants, Present(n)' PROVE Present(n) /\ ru'[n].ref = ru[n].ref
    BY <1>3 DEF Harmless, Steady, Present
  <1>4. ASSUME NEW n \in Tenants, Owed(n)' PROVE Owed(n)
    <2>1. Live(n) /\ ru'[n].url = ru[n].url /\ ru'[n].stamp = ru[n].stamp
      BY <1>4 DEF Owed, Live, Present, Harmless
    <2>2. TokenAt(ru[n].ref)' = TokenAt(ru[n].ref)
      BY <1>3, <1>4 DEF Owed, Live, TokenAt, Found, Steady
    <2> QED BY <1>1, <1>2, <1>4, <2>1, <2>2 DEF Owed
  <1>5. (cur # NoCur /\ Present(cur.ns) => ru[cur.ns].ref = cur.ref)'
    <2>1. cur # NoCur => cur.ns \in Tenants
      BY DEF TypeOK
    <2> QED BY <1>1, <1>2, <1>3, <2>1 DEF Clearing
  <1>6. \A n \in TenantNamespaces(Incoming') :
            Owed(n)' => hpc' = "examining" /\ (n \in todo' \/ n \in safe' \/ n = cur'.ns)
    BY <1>1, <1>2, <1>4 DEF Clearing, TenantNamespaces
  <1> QED BY <1>5, <1>6 DEF Clearing

\* Reading a RemoteUnleash: what is refused is not owed, what is not is being examined.
LEMMA ReadClears ==
    ASSUME TypeOK, FindingsHold, Clearing, NEW ns \in Tenants, ReadRemoteUnleash(ns)
    PROVE  Clearing'
  <1> SUFFICES ASSUME Retracts(Incoming')
               PROVE  Clearing'
    BY DEF Clearing
  <1>1. /\ UNCHANGED <<log, next, ru, secrets, hpc>>
        /\ hpc = "examining" /\ cur = NoCur /\ todo' = todo \ {ns} /\ ns \in todo
    BY DEF ReadRemoteUnleash, publisherVars, clusterVars
  <1>2. Incoming' = Incoming /\ Retracts(Incoming)
    BY <1>1 DEF Incoming
  <1>3. ASSUME NEW n \in Tenants PROVE Owed(n)' <=> Owed(n)
    BY <1>1, <1>2 DEF Owed, Live, Present, TokenAt, Found
  <1>4. cur.ns \notin Tenants
    BY <1>1, ConstantsAssumption DEF NoCur
  <1>5. \A n \in TenantNamespaces(Incoming) : Owed(n) => n \in todo \/ n \in safe
    BY <1>1, <1>2, <1>4 DEF Clearing, TenantNamespaces
  <1>6. CASE Refused(Incoming, ns) /\ UNCHANGED <<cur, safe, stamps, doomed>>
    <2>1. ~Owed(ns)
      <3>1. ru[ns].stamp \in Nat /\ next \in Nat
        BY DEF TypeOK, RemoteUnleashes
      <3> QED BY <1>2, <1>6, <3>1 DEF Refused, Owed, Live
    <2>2. \A n \in TenantNamespaces(Incoming) : Owed(n) => n \in todo' \/ n \in safe'
      BY <1>1, <1>5, <1>6, <2>1
    <2> QED BY <1>1, <1>2, <1>3, <1>6, <2>2 DEF Clearing, TenantNamespaces
  <1>7. CASE ~Refused(Incoming, ns) /\ Present(ns) /\ cur' = [ns |-> ns, ref |-> ru[ns].ref, ask |-> "secret"]
             /\ UNCHANGED safe
    <2>1. cur'.ns = ns /\ cur'.ref = ru'[ns].ref
      BY <1>1, <1>7
    <2>2. \A n \in TenantNamespaces(Incoming) : Owed(n) => n \in todo' \/ n \in safe' \/ n = cur'.ns
      BY <1>1, <1>5, <1>7, <2>1
    <2> QED BY <1>1, <1>2, <1>3, <2>1, <2>2 DEF Clearing, TenantNamespaces
  <1>8. ~Refused(Incoming, ns) => Present(ns)
    BY <1>2 DEF Refused
  <1> QED BY <1>6, <1>7, <1>8 DEF ReadRemoteUnleash

\* Reading the secret: the object still names it, so another token there, or none, means
\* that nothing is owed.
LEMMA ReadSecretClears ==
    ASSUME TypeOK, FindingsHold, Clearing, ReadSecret
    PROVE  Clearing'
  <1> SUFFICES ASSUME Retracts(Incoming')
               PROVE  Clearing'
    BY DEF Clearing
  <1>1. /\ UNCHANGED <<log, next, ru, secrets, hpc, todo>>
        /\ hpc = "examining" /\ cur # NoCur /\ cur.ns \in Tenants
    BY Answers DEF publisherVars, clusterVars
  <1>2. Incoming' = Incoming /\ Retracts(Incoming) /\ Incoming \in Messages
    BY <1>1, IncomingType DEF Incoming, TypeOK
  <1>3. ASSUME NEW n \in Tenants PROVE Owed(n)' <=> Owed(n)
    BY <1>1, <1>2 DEF Owed, Live, Present, TokenAt, Found
  <1>4. cur' = NoCur /\ IF TokensEqual THEN safe' = safe \cup {cur.ns} ELSE safe' = safe
    BY <1>2, Exclusive DEF ReadSecret, ReadSecretToRetract, ReadSecretToProvision, Accept
  <1>5. Owed(cur.ns) => TokensEqual
    <2>1. Present(cur.ns) => ru[cur.ns].ref = cur.ref
      BY <1>1, <1>2 DEF Clearing
    <2> QED BY <2>1 DEF Owed, Live, TokensEqual, TokenAt
  <1>6. \A n \in TenantNamespaces(Incoming) : Owed(n) => n \in todo' \/ n \in safe'
    BY <1>1, <1>2, <1>4, <1>5 DEF Clearing
  <1> QED BY <1>1, <1>2, <1>3, <1>4, <1>6 DEF Clearing, TenantNamespaces

\* Deleting the objects found safe leaves nothing owed.
LEMMA DeletionClears ==
    ASSUME TypeOK, FindingsHold, Clearing, DeleteRUs, hpc' # "idle"
    PROVE  Clearing'
  <1>1. /\ RemoveRUs(safe) /\ UNCHANGED <<log, next, secrets, cur, safe, todo>>
        /\ hpc = "examining" /\ todo = {} /\ cur = NoCur /\ hpc' = "deleteSecrets"
        /\ Retracts(Incoming)
    BY RestType DEF DeleteRUs, PartlyDone, Nack, Proceed, Examined, publisherVars
  <1>2. Incoming' = Incoming
    BY <1>1 DEF Incoming
  <1>3. ASSUME NEW n \in TenantNamespaces(Incoming), Owed(n)' PROVE FALSE
    <2>1. n \in Tenants /\ ru[n] \in RemoteUnleashes
      BY DEF TenantNamespaces, TypeOK
    <2>2. n \notin safe
      BY <1>1, <1>3, <2>1, DeletedType DEF RemoveRUs, Owed, Live, Present
    <2>3. ru'[n] = ru[n]
      BY <1>1, <2>1, <2>2 DEF RemoveRUs
    <2>4. Owed(n)
      BY <1>1, <1>2, <1>3, <2>3 DEF Owed, Live, Present, TokenAt, Found
    <2>5. n # cur.ns
      BY <1>1, <2>1, ConstantsAssumption DEF NoCur
    <2> QED BY <1>1, <2>2, <2>4, <2>5 DEF Clearing
  <1> QED BY <1>1, <1>2, <1>3 DEF Clearing

\* The invariant is kept by every step.
LEMMA KeepsClearing ==
    ASSUME TypeOK, FindingsHold, Resting, Clearing, [Next]_vars
    PROVE  Resting' /\ Clearing'
  <1> USE DEF publisherVars, clusterVars, handlerVars, workerVars
  <1>1. log \in Seq(Messages) /\ (UNCHANGED log => Longer)
    BY DEF TypeOK, Longer
  <1>2. ASSUME UNCHANGED <<bound, rpc>> PROVE Resting'
    BY <1>2 DEF Resting, MigrationEnabled
  <1>3. ASSUME hpc' \notin {"examining", "deleteSecrets"} PROVE Clearing'
    BY <1>3 DEF Clearing
  <1>4. CASE UNCHANGED vars
    BY <1>1, <1>2, <1>4, StillClearing DEF vars, Steady, Harmless
  <1>5. CASE Owner \/ ReconcileUnleash \/ \E m \in ForeignMessages : OtherPublisher(m)
    <2>1. UNCHANGED <<secrets, bound, rpc>>
      BY <1>5 DEF Owner, ReconcileUnleash, CreateInstance, EditInstance, DeleteInstance, ReconcileSecrets,
                  Publish, SayGoodbye, FinishDeletion, DeletionFails, OtherPublisher, subscribingVars
    <2> QED BY <1>2, <1>5, <2>1, PublisherSays, StillClearing DEF Steady, Harmless
  <1>6. ASSUME NEW ns \in Tenants, Reconcile(ns) PROVE Resting' /\ Clearing'
    BY <1>1, <1>6, WorkerHarmless, WorkerSteady, StillClearing
  <1>7. CASE Crash \/ Redeploy
    <2>1. Rest /\ rpc' = [n \in Tenants |-> "idle"]
      BY <1>7 DEF Crash, Redeploy, Restart, Nack
    <2>2. ~MigrationEnabled'
      BY <1>7 DEF Crash, Redeploy, Disturb, Resting, NoMigration, MigrationEnabled
    <2> QED BY <1>3, <2>1, <2>2, RestType DEF Resting
  <1>8. CASE Redeliver
    BY <1>2, <1>3, <1>8 DEF Redeliver
  <1>9. ASSUME Handle PROVE UNCHANGED <<bound, rpc>>
    BY <1>9 DEF Handle, Ignore, Take, ReadRemoteUnleash, ReadSecret, ReadReferences, ReadSuperseded,
                SecretMissing, NothingSafe, DeleteRUs, DeleteSecrets, WriteSecrets, NoHomeForSecret, WriteRUs, DeleteSuperseded, ReadFails
  <1>10. ASSUME Ignore \/ SecretMissing \/ NothingSafe \/ NoHomeForSecret \/ ReadFails \/ DeleteSecrets
                \/ DeleteSuperseded
         PROVE  Clearing'
    BY <1>3, <1>10, RestType
       DEF Ignore, SecretMissing, NothingSafe, NoHomeForSecret, ReadFails, DeleteSecrets,
           DeleteSuperseded, PartlyDone, Ack, Nack
  <1>11. ASSUME WriteSecrets \/ WriteRUs PROVE Clearing'
    BY <1>3, <1>11, RestType DEF WriteSecrets, WriteRUs, Proceed, PartlyDone, Nack
  <1>12. ASSUME Take PROVE Clearing'
    <2>1. UNCHANGED <<log, next, cur>> /\ hpc = "idle" /\ hpc' = "examining"
      BY <1>12 DEF Take
    <2>2. Incoming' = Incoming /\ cur' = NoCur /\ todo' = TenantNamespaces(Incoming)
      BY <1>12, <2>1 DEF Incoming, FindingsHold, Take
    <2> QED BY <2>1, <2>2 DEF Clearing
  <1>13. ASSUME DeleteRUs PROVE Clearing'
    BY <1>3, <1>13, DeletionClears
  <1>14. ASSUME ReadReferences \/ ReadSuperseded PROVE Clearing'
    <2>1. UNCHANGED <<log, next>> /\ hpc = "examining" /\ Provisions(Incoming)
      BY <1>14 DEF ReadReferences, ReadSuperseded, FindingsHold
    <2>2. Incoming' = Incoming /\ ~Retracts(Incoming)
      BY <2>1, IncomingType, Exclusive DEF Incoming, TypeOK
    <2> QED BY <2>2 DEF Clearing
  <1>15. Handle => Resting' /\ Clearing'
    <2>1. \A ns \in Tenants : ReadRemoteUnleash(ns) => Clearing'
      BY ReadClears
    <2> QED BY <1>2, <1>9, <1>10, <1>11, <1>12, <1>13, <1>14, <2>1, ReadSecretClears DEF Handle
  <1> QED BY <1>4, <1>5, <1>6, <1>7, <1>8, <1>15 DEF Next

\* A retraction that is acknowledged was carried out, whatever is redelivered, half
\* done, lost or restarted meanwhile: nowhere does the credential it retracts stay
\* placed by an older message.  It needs the migration of legacy secrets to be off.
THEOREM RemovalsApply ==
    ASSUME NoMigration
    PROVE  Spec => RemovalApplies
  <1> DEFINE Removed == next' = next + 1 /\ Retracts(Incoming) =>
                            \A ns \in TenantNamespaces(Incoming) : ~Owed(ns)
  <1>1. Init => Resting /\ Clearing
    <2> SUFFICES ASSUME Init PROVE Resting /\ Clearing
      OBVIOUS
    <2>1. bound \in InitBound /\ bound \in BOOLEAN
      BY ConstantsAssumption DEF Init
    <2> QED BY <2>1 DEF Init, Quiet, Resting, NoMigration, MigrationEnabled, Clearing
  <1>2. TypeOK /\ FindingsHold /\ Resting /\ Clearing /\ [Next]_vars => Resting' /\ Clearing'
    BY KeepsClearing
  <1>3. TypeOK /\ FindingsHold /\ Clearing /\ [Next]_vars => [Removed]_vars
    <2> SUFFICES ASSUME TypeOK, FindingsHold, Clearing, Next, next' = next + 1, Retracts(Incoming),
                        NEW n \in TenantNamespaces(Incoming), Owed(n)
                 PROVE  FALSE
      OBVIOUS
    <2>1. next \in Nat /\ n \in Tenants
      BY DEF TypeOK, TenantNamespaces
    <2>2. next' # next
      BY <2>1
    <2>3. CASE NothingSafe
      <3>1. hpc = "examining" /\ todo = {} /\ cur = NoCur /\ safe = {}
        BY <2>3 DEF NothingSafe, Examined
      <3>2. n # cur.ns
        BY <2>1, <3>1, ConstantsAssumption DEF NoCur
      <3> QED BY <3>1, <3>2 DEF Clearing
    <2>4. CASE DeleteSecrets
      BY <2>4 DEF DeleteSecrets, Clearing
    <2>5. ~Ignore
      BY DEF Ignore
    <2>6. ~DeleteSuperseded
      <3>1. hpc = "cleanup" => Incoming \in Messages /\ Provisions(Incoming)
        BY IncomingType DEF TypeOK, FindingsHold
      <3> QED BY <3>1, Exclusive DEF DeleteSuperseded
    <2>7. ~Redeliver
      BY <2>1 DEF Redeliver
    <2>8. ~(Owner \/ ReconcileUnleash \/ \E m \in ForeignMessages : OtherPublisher(m))
      BY <2>2, PublisherSays
    <2>9. \A ns \in Tenants : ~Reconcile(ns)
      BY <2>2, WorkerHarmless
    <2>10. ~(Crash \/ Redeploy)
      BY <2>2 DEF Crash, Redeploy, Restart, Nack
    <2>11. ~(Take \/ ReadSecret \/ ReadReferences \/ ReadSuperseded \/ SecretMissing \/ DeleteRUs \/ WriteSecrets \/ NoHomeForSecret
             \/ WriteRUs \/ ReadFails \/ \E ns \in Tenants : ReadRemoteUnleash(ns))
      BY <2>2 DEF Take, ReadSecret, ReadReferences, ReadSuperseded, SecretMissing, DeleteRUs, WriteSecrets, NoHomeForSecret, WriteRUs,
                  ReadFails, ReadRemoteUnleash, Proceed, PartlyDone, Nack
    <2> QED BY <2>3, <2>4, <2>5, <2>6, <2>7, <2>8, <2>9, <2>10, <2>11 DEF Next, Handle
  <1>4. Spec => [](TypeOK /\ FindingsHold)
    BY TypeCorrect, FindingsAlwaysHold, PTL
  <1>5. Spec => [](Resting /\ Clearing)
    BY <1>1, <1>2, <1>4, PTL DEF Spec
  <1>6. Spec => [][Removed]_vars
    BY <1>3, <1>4, <1>5, PTL DEF Spec
  <1> QED BY <1>6 DEF RemovalApplies

-----------------------------------------------------------------------------
(* Credentials, where every RemoteUnleash has an admin secret of its own   *)

\* An admin secret in the operator's namespace is annotated with the namespace in its
\* name, if it has one; any other is in the namespace it is named after.
TidyKey(k, secret) ==
    \/ k.home = OperatorNamespace /\ secret.auth = k.scope
    \/ k.home \in Tenants /\ k.home = k.scope

\* What older operators left: tidy secrets, and no two RemoteUnleashes on one secret.
\* (Where two share one, retracting one of them deletes the secret of both.)
OwnSecrets ==
    \A c \in InitClusters :
        /\ \A k \in DOMAIN c.secrets : TidyKey(k, c.secrets[k])
        /\ \A n \in Tenants : c.ru[n] # NoRU =>
              n \in Existing /\ c.ru[n].ref \in DOMAIN c.secrets /\ c.ru[n].ref.scope = n

Tidy == \A k \in DOMAIN secrets : TidyKey(k, secrets[k])

\* A RemoteUnleash refers to a secret named after its namespace, which is there.
OwnRef(n) ==
    Present(n) => n \in Existing /\ ru[n].ref.scope = n /\ (Live(n) => Found(ru[n].ref))

\* The migration moves a tenant's secret.  While the object still refers to it, the
\* copy in memory has its token, and so has the new secret once it is written; when
\* the old one is about to be deleted, the object refers to another.
MigrationSound(n) ==
    /\ rpc[n] \notin {"idle", "call"} => bound /\ mem[n].key.scope = n
    /\ rpc[n] \in {"stamp", "create", "repoint", "delete"} => mem[n].key.home = n
    /\ rpc[n] \in {"create", "repoint"} /\ Live(n) /\ ru[n].ref = mem[n].key =>
          TokenAt(mem[n].key) = mem[n].secret.token
    /\ rpc[n] = "repoint" /\ Live(n) /\ ru[n].ref = mem[n].key =>
          Found(MigratedKey(n)) /\ TokenAt(MigratedKey(n)) = mem[n].secret.token
    /\ rpc[n] = "delete" /\ Live(n) => ru[n].ref # mem[n].key

\* The secret the handler is about to read is the object's, or the migration has moved
\* it meanwhile: then it has the same token, or is gone.  The one it is about to look up
\* references to is the namespace's, and not the one the message brings.
ReadSound(n) ==
    hpc = "examining" /\ cur # NoCur /\ cur.ns = n =>
        /\ cur.ask # "superseded" => cur.ref.scope = n
        /\ cur.ask = "references" => cur.ref # AdminSecretKey(Incoming, n)
        /\ cur.ask = "secret" /\ Live(n) =>
              \/ ru[n].ref = cur.ref
              \/ /\ cur.ref.home # OperatorNamespace
                 /\ Found(cur.ref) => TokenAt(cur.ref) = TokenAt(ru[n].ref)

\* The namespaces the handler has found safe, and the one it is finding so: it has
\* compared the tokens and looks for secrets to delete.
Cleared == safe \cup {n \in Tenants : n = cur.ns /\ cur.ask \in {"references", "superseded"}}

\* Where the handler found it safe to write, the object's token is the message's and
\* remains so: the new secret is written before the object refers to it, and what is
\* deleted belongs to no object any more.
SafeSound(n) ==
    n \in Cleared =>
        /\ Provisions(Incoming) /\ Live(n) => TokenAt(ru[n].ref) = Incoming.token
        /\ hpc = "writeRUs" =>
              /\ Found(AdminSecretKey(Incoming, n))
              /\ TokenAt(AdminSecretKey(Incoming, n)) = Incoming.token
        /\ hpc = "cleanup" /\ Live(n) => ru[n].ref = AdminSecretKey(Incoming, n)
        /\ hpc = "deleteSecrets" => ~Live(n)

\* Only secrets of namespaces found safe are to be deleted, or nobody's, and never the
\* one the message brings.
DoomedSound ==
    \A k \in doomed :
        /\ k.scope \in Cleared \/ k.scope = NoNamespace
        /\ Provisions(Incoming) /\ k.scope \in Tenants => k # AdminSecretKey(Incoming, k.scope)

CredentialSound(n) == OwnRef(n) /\ MigrationSound(n) /\ ReadSound(n) /\ SafeSound(n)
CredentialsSound == Tidy /\ DoomedSound /\ \A n \in Tenants : CredentialSound(n)

TokenKept(n) == Live(n) /\ Live(n)' => (TokenAt(ru[n].ref))' = TokenAt(ru[n].ref)

\* A handler that examines no namespace is clear about those it found safe only.
LEMMA ClearedIsSafe ==
    ASSUME TRUE
    PROVE  (cur = NoCur => Cleared = safe) /\ (cur' = NoCur => Cleared' = safe')
  BY DEF Cleared, NoCur

\* While the handler is idle it is clear about none.
LEMMA ClearedIsBusy ==
    ASSUME TypeOK, FindingsHold, NEW n \in Cleared
    PROVE  hpc # "idle" /\ Incoming \in Messages /\ n \in Tenants
  <1>1. hpc # "idle"
    BY ClearedIsSafe DEF FindingsHold
  <1> QED BY <1>1, IncomingType DEF TypeOK, Cleared

\* Where the key of a message's secret lies.
LEMMA AdminSecretKeyHome ==
    ASSUME NEW m \in Messages, NEW n \in Tenants, bound \in BOOLEAN
    PROVE  /\ AdminSecretKey(m, n) \in Keys /\ AdminSecretKey(m, n).scope = n
           /\ AdminSecretKey(m, n).home \in {n, OperatorNamespace}
           /\ bound => AdminSecretKey(m, n).home = OperatorNamespace
  BY AdminSecretKeyType DEF AdminSecretKey, BoundKey, SecretKey

\* The migration's new secret is the operator's, named after the namespace.
LEMMA MigratedKeyHome ==
    ASSUME TypeOK, NEW n \in Tenants
    PROVE  /\ MigratedKey(n) \in Keys /\ MigratedKey(n).scope = n
           /\ MigratedKey(n).home = OperatorNamespace
  <1>1. mem[n].url \in AnyUrl /\ mem[n].secret.token \in Nat
    BY DEF TypeOK, AdminSecrets
  <1>2. <<mem[n].url, mem[n].secret.token>> \in AnyNonce
    BY <1>1 DEF AnyNonce
  <1> QED BY <1>2 DEF MigratedKey, BoundKey, SecretKey, Keys

\* What writing managed secrets does to the store.
LEMMA PutTokens ==
    ASSUME NEW keys, NEW url, NEW token, secrets' = PutSecrets(keys, url, token), NEW k
    PROVE  /\ Found(k)' <=> Found(k) \/ k \in keys
           /\ k \in keys => TokenAt(k)' = token
           /\ k \notin keys => TokenAt(k)' = TokenAt(k)
  BY DEF PutSecrets, Found, TokenAt, AdminSecret

\* Written secrets are annotated with the namespace in their name.
LEMMA PutTidy ==
    ASSUME Tidy, NEW keys, NEW url, NEW token, secrets' = PutSecrets(keys, url, token),
           \A k \in keys : k.home = OperatorNamespace \/ (k.home \in Tenants /\ k.home = k.scope)
    PROVE  Tidy'
  BY DEF PutSecrets, AdminSecret, Tidy, TidyKey

\* What deleting secrets does to the store.
LEMMA DropTokens ==
    ASSUME NEW keys, secrets' = DropSecrets(keys), NEW k
    PROVE  /\ Found(k)' <=> Found(k) /\ k \notin keys
           /\ k \notin keys => TokenAt(k)' = TokenAt(k)
           /\ Tidy => Tidy'
  BY DEF DropSecrets, Found, TokenAt, Tidy, TidyKey

\* The secrets named after a namespace keep their tokens; new ones are the operator's.
StoreKept(n) ==
    \A k \in Keys : k.scope = n =>
        /\ Found(k) => Found(k)' /\ TokenAt(k)' = TokenAt(k)
        /\ Found(k)' /\ ~Found(k) => k.home = OperatorNamespace

\* The object keeps its reference, or goes.
ObjectKept(n) ==
    /\ Present(n)' => Present(n) /\ ru'[n].ref = ru[n].ref
    /\ Live(n)' => Live(n)

\* Steps behind the handler's back that keep objects and tokens keep what it found.
LEMMA FindingsKept ==
    ASSUME TypeOK, FindingsHold, NEW n \in Tenants, OwnRef(n), ReadSound(n), SafeSound(n),
           StoreKept(n), ObjectKept(n), Longer, UNCHANGED <<next, handlerVars, bound>>
    PROVE  OwnRef(n)' /\ ReadSound(n)' /\ SafeSound(n)' /\ TokenKept(n)
  <1>1. UNCHANGED <<hpc, todo, cur, safe, next, bound>> /\ ru[n].ref \in Keys
        /\ (cur # NoCur => cur.ref \in Keys) /\ bound \in BOOLEAN
    BY DEF handlerVars, TypeOK, RemoteUnleashes
  <1>2. Live(n)' => /\ Live(n) /\ ru'[n].ref = ru[n].ref /\ ru[n].ref.scope = n
                    /\ Found(ru[n].ref) /\ Found(ru[n].ref)'
                    /\ (TokenAt(ru[n].ref))' = TokenAt(ru[n].ref)
    <2> SUFFICES ASSUME Live(n)'
                 PROVE  /\ Live(n) /\ ru'[n].ref = ru[n].ref /\ ru[n].ref.scope = n
                        /\ Found(ru[n].ref) /\ Found(ru[n].ref)'
                        /\ (TokenAt(ru[n].ref))' = TokenAt(ru[n].ref)
      OBVIOUS
    <2>1. Live(n) /\ ru'[n].ref = ru[n].ref
      BY DEF ObjectKept, Live
    <2>2. ru[n].ref.scope = n /\ Found(ru[n].ref)
      BY <2>1 DEF OwnRef, Live
    <2>3. PICK k \in Keys : k = ru[n].ref
      BY <1>1
    <2>4. k.scope = n /\ Found(k) /\ Found(k)' /\ TokenAt(k)' = TokenAt(k)
      BY <2>2, <2>3 DEF StoreKept
    <2>5. (TokenAt(ru[n].ref))' = TokenAt(k)'
      BY <2>1, <2>3 DEF TokenAt, Found
    <2>6. Found(ru[n].ref)'
      BY <2>1, <2>3, <2>4 DEF Found
    <2> QED BY <2>1, <2>2, <2>3, <2>4, <2>5, <2>6
  <1>3. OwnRef(n)'
    BY <1>2 DEF OwnRef, ObjectKept
  <1>4. ReadSound(n)'
    <2> SUFFICES ASSUME hpc = "examining", cur # NoCur, cur.ns = n
                 PROVE  ReadSound(n)'
      BY <1>1 DEF ReadSound
    <2>1. cur.ref \in Keys /\ (cur.ask = "secret" => cur.ref.scope = n)
      BY <1>1 DEF ReadSound
    <2>2. PICK k \in Keys : k = cur.ref
      BY <2>1
    <2>3. ASSUME cur.ask = "secret", Live(n)', ru'[n].ref # cur.ref, Found(k)'
          PROVE  k.home # OperatorNamespace /\ TokenAt(k)' = (TokenAt(ru[n].ref))'
      <3>1. k.home # OperatorNamespace /\ (Found(k) => TokenAt(k) = TokenAt(ru[n].ref))
        BY <1>2, <2>2, <2>3 DEF ReadSound
      <3>2. Found(k) /\ TokenAt(k)' = TokenAt(k)
        BY <2>1, <2>2, <2>3, <3>1 DEF StoreKept
      <3> QED BY <1>2, <2>3, <3>1, <3>2
    <2>4. ASSUME cur.ask = "secret", Live(n)', ru'[n].ref # cur.ref PROVE k.home # OperatorNamespace
      BY <1>2, <2>2, <2>4 DEF ReadSound
    <2>5. cur' = cur /\ (TokenAt(cur.ref))' = TokenAt(k)' /\ (Found(cur.ref)' <=> Found(k)')
      BY <1>1, <2>2 DEF TokenAt, Found
    <2>6. (AdminSecretKey(Incoming, n))' = AdminSecretKey(Incoming, n)
      BY <1>1 DEF AdminSecretKey, Incoming, Longer, TypeOK
    <2> QED BY <1>1, <2>1, <2>2, <2>3, <2>4, <2>5, <2>6 DEF ReadSound
  <1>5. SafeSound(n)'
    <2> SUFFICES ASSUME n \in Cleared PROVE SafeSound(n)'
      BY <1>1 DEF SafeSound, Cleared
    <2>1. hpc # "idle" /\ Incoming \in Messages /\ Incoming' = Incoming
      BY <1>1, ClearedIsBusy DEF TypeOK, Longer, Incoming
    <2>2. PICK k \in Keys : k = AdminSecretKey(Incoming, n)
      BY <1>1, <2>1, AdminSecretKeyHome
    <2>3. k.scope = n /\ (AdminSecretKey(Incoming, n))' = k
      BY <1>1, <2>1, <2>2, AdminSecretKeyHome DEF AdminSecretKey
    <2>4. Found(k) => Found(k)' /\ TokenAt(k)' = TokenAt(k)
      BY <2>3 DEF StoreKept
    <2>5. /\ (TokenAt(AdminSecretKey(Incoming, n)))' = TokenAt(k)'
          /\ Found(AdminSecretKey(Incoming, n))' <=> Found(k)'
      BY <2>3 DEF TokenAt, Found
    <2> QED BY <1>1, <1>2, <2>1, <2>2, <2>3, <2>4, <2>5 DEF SafeSound
  <1> QED BY <1>2, <1>3, <1>4, <1>5 DEF TokenKept

\* And they keep what a worker found that takes no part in them.
LEMMA MigrationKept ==
    ASSUME TypeOK, NEW n \in Tenants, OwnRef(n), MigrationSound(n), StoreKept(n), ObjectKept(n),
           bound' = bound, rpc'[n] = rpc[n], mem'[n] = mem[n]
    PROVE  MigrationSound(n)'
  <1>1. mem[n].key \in Keys /\ mem[n].url \in AnyUrl /\ mem[n].secret.token \in Nat
    BY DEF TypeOK, AdminSecrets
  <1>2. Live(n)' => Live(n) /\ ru'[n].ref = ru[n].ref
    BY DEF ObjectKept, Live
  <1>3. PICK k \in Keys : k = mem[n].key
    BY <1>1
  <1>4. PICK l \in Keys : l = MigratedKey(n) /\ l.scope = n
    BY MigratedKeyHome
  <1>5. MigratedKey(n)' = l
    BY <1>4 DEF MigratedKey
  <1>6. /\ Found(mem[n].key)' <=> Found(k)'
        /\ (TokenAt(mem[n].key))' = TokenAt(k)'
        /\ Found(MigratedKey(n))' <=> Found(l)'
        /\ (TokenAt(MigratedKey(n)))' = TokenAt(l)'
    BY <1>3, <1>5 DEF Found, TokenAt
  <1>7. ASSUME rpc[n] \in {"create", "repoint"}, Live(n)', ru'[n].ref = mem[n].key
        PROVE  TokenAt(k)' = mem[n].secret.token
    <2>1. Found(k) /\ k.scope = n /\ TokenAt(k) = mem[n].secret.token
      BY <1>2, <1>3, <1>7 DEF MigrationSound, OwnRef, Live
    <2> QED BY <2>1 DEF StoreKept
  <1>8. ASSUME rpc[n] = "repoint", Live(n)', ru'[n].ref = mem[n].key
        PROVE  Found(l)' /\ TokenAt(l)' = mem[n].secret.token
    BY <1>2, <1>4, <1>8 DEF MigrationSound, StoreKept
  <1> QED BY <1>2, <1>3, <1>6, <1>7, <1>8 DEF MigrationSound

\* A worker's migration keeps the credential of its own object and leaves the handler
\* right about it.
LEMMA MigrationKeeps ==
    ASSUME TypeOK, FindingsHold, Tidy, NEW n \in Tenants, CredentialSound(n), UNCHANGED otherVars,
           Migrate(n) \/ StampUrl(n) \/ CreateBound(n) \/ Repoint(n) \/ DeleteLegacy(n)
    PROVE  CredentialSound(n)' /\ TokenKept(n)
  <1>1. /\ Longer /\ UNCHANGED <<next, handlerVars, bound>>
        /\ hpc' = hpc /\ cur' = cur /\ safe' = safe /\ Incoming' = Incoming
    BY DEF otherVars, publisherVars, handlerVars, Longer, TypeOK, Incoming
  <1>2. /\ OwnRef(n) /\ MigrationSound(n) /\ ReadSound(n) /\ SafeSound(n)
        /\ ru \in [Tenants -> RemoteUnleashes] /\ n \in DOMAIN rpc
        /\ mem \in [Tenants -> [key : Keys, url : AnyUrl, secret : AdminSecrets]]
    BY DEF CredentialSound, TypeOK
  <1>3. rpc[n] \notin {"idle", "call"} /\ bound /\ mem[n].key.scope = n
    BY <1>2 DEF Migrate, StampUrl, CreateBound, Repoint, DeleteLegacy, MigrationSound
  <1>4. MigratedKey(n) \in Keys /\ MigratedKey(n).scope = n /\ MigratedKey(n).home = OperatorNamespace
    BY MigratedKeyHome
  <1>5. ASSUME UNCHANGED ru PROVE ObjectKept(n)
    BY <1>5 DEF ObjectKept, Present, Live
  <1>6. ASSUME UNCHANGED ru, StoreKept(n) PROVE OwnRef(n)' /\ ReadSound(n)' /\ SafeSound(n)' /\ TokenKept(n)
    BY <1>1, <1>2, <1>5, <1>6, FindingsKept
  <1>7. ASSUME UNCHANGED secrets PROVE StoreKept(n)
    BY <1>7 DEF StoreKept, Found, TokenAt
  <1>8. ASSUME Done(n, TRUE) PROVE MigrationSound(n)'
    <2>1. rpc'[n] = "idle"
      BY <1>2, <1>8 DEF Done, Goto
    <2> QED BY <2>1 DEF MigrationSound
  <1>9. hpc # "idle" => Incoming \in Messages /\ AdminSecretKey(Incoming, n).home = OperatorNamespace
    BY <1>3, IncomingType, AdminSecretKeyHome DEF TypeOK
  <1>10. (n \in Cleared => hpc # "idle") /\ Cleared' = Cleared
    BY <1>1, ClearedIsBusy DEF Cleared
  <1>11. CASE Migrate(n)
    <2>1. UNCHANGED ru /\ UNCHANGED secrets
      BY <1>11 DEF Migrate, clusterVars
    <2>2. MigrationSound(n)'
      <3>1. CASE Done(n, TRUE)
        BY <1>8, <3>1
      <3>2. CASE /\ Migratable(mem[n].key, n)
                 /\ Goto(n, "stamp") \/ Goto(n, "create")
                 /\ Remember(n, [mem[n] EXCEPT !.secret = secrets[mem[n].key]])
        <4>1. /\ rpc'[n] \in {"stamp", "create"} /\ mem'[n].key = mem[n].key
              /\ mem'[n].secret = secrets[mem[n].key]
          BY <1>2, <3>2 DEF Goto, Remember
        <4>2. Found(mem[n].key) /\ ~AlreadyBound(mem[n].key, n)
          BY <3>2 DEF Migratable
        <4>3. mem[n].key.home = n
          BY <1>3, <4>2 DEF AlreadyBound, Tidy, TidyKey, Found
        <4>4. (TokenAt(mem[n].key))' = mem'[n].secret.token
          BY <2>1, <4>1, <4>2 DEF TokenAt, Found
        <4> QED BY <1>1, <1>3, <4>1, <4>3, <4>4 DEF MigrationSound
      <3> QED BY <1>11, <3>1, <3>2 DEF Migrate
    <2> QED BY <1>6, <1>7, <2>1, <2>2 DEF CredentialSound
  <1>12. CASE StampUrl(n)
    <2>1. UNCHANGED ru /\ rpc[n] = "stamp" /\ mem[n].key.home = n
      BY <1>2, <1>12 DEF StampUrl, MigrationSound
    <2>2. CASE ~Unchanged(n)
      <3>1. UNCHANGED secrets /\ Done(n, TRUE)
        BY <1>12, <2>2 DEF StampUrl
      <3> QED BY <1>6, <1>7, <1>8, <2>1, <3>1 DEF CredentialSound
    <2>3. CASE Unchanged(n)
      <3> DEFINE stamped == [mem[n].secret EXCEPT !.url = mem[n].url]
      <3>1. /\ secrets' = [secrets EXCEPT ![mem[n].key] = stamped]
            /\ Goto(n, "create") /\ Remember(n, [mem[n] EXCEPT !.secret = stamped])
        BY <1>12, <2>3 DEF StampUrl
      <3>2. stamped.token = mem[n].secret.token /\ mem[n].secret = secrets[mem[n].key] /\ Found(mem[n].key)
        BY <1>2, <2>3 DEF Unchanged, AdminSecrets
      <3>3. /\ DOMAIN secrets' = DOMAIN secrets
            /\ \A k \in DOMAIN secrets : secrets'[k].token = secrets[k].token
        BY <3>1, <3>2 DEF Found
      <3>4. StoreKept(n)
        BY <3>3 DEF StoreKept, Found, TokenAt
      <3>5. rpc'[n] = "create" /\ mem'[n].key = mem[n].key /\ mem'[n].secret.token = mem[n].secret.token
        BY <1>2, <3>1, <3>2 DEF Goto, Remember
      <3>6. (TokenAt(mem[n].key))' = mem'[n].secret.token
        BY <3>2, <3>3, <3>5 DEF TokenAt, Found
      <3>7. MigrationSound(n)'
        BY <1>1, <1>3, <2>1, <3>5, <3>6 DEF MigrationSound
      <3> QED BY <1>6, <2>1, <3>4, <3>7 DEF CredentialSound
    <2> QED BY <2>2, <2>3
  <1>13. CASE CreateBound(n)
    <2>1. UNCHANGED ru /\ rpc[n] = "create" /\ mem[n].key.home = n
      BY <1>2, <1>13 DEF CreateBound, MigrationSound
    <2>2. CASE Done(n, TRUE) /\ UNCHANGED secrets
      BY <1>6, <1>7, <1>8, <2>1, <2>2 DEF CredentialSound
    <2>3. CASE /\ Found(MigratedKey(n)) => secrets[MigratedKey(n)] = MigratedSecret(n)
               /\ secrets' = PutSecrets({MigratedKey(n)}, mem[n].url, mem[n].secret.token)
               /\ Goto(n, "repoint") /\ UNCHANGED mem
      <3>1. \A k : /\ Found(k)' <=> Found(k) \/ k = MigratedKey(n)
                   /\ k = MigratedKey(n) => TokenAt(k)' = mem[n].secret.token
                   /\ k # MigratedKey(n) => TokenAt(k)' = TokenAt(k)
        BY <2>3, PutTokens
      <3>2. Found(MigratedKey(n)) => TokenAt(MigratedKey(n)) = mem[n].secret.token
        BY <2>3 DEF TokenAt, MigratedSecret, AdminSecret
      <3>3. StoreKept(n)
        BY <1>4, <3>1, <3>2 DEF StoreKept
      <3>4. rpc'[n] = "repoint" /\ mem'[n] = mem[n] /\ MigratedKey(n)' = MigratedKey(n)
        BY <1>2, <2>3 DEF Goto, MigratedKey
      <3>5. Found(MigratedKey(n))' /\ (TokenAt(MigratedKey(n)))' = mem[n].secret.token
        BY <3>1, <3>4 DEF Found, TokenAt
      <3>6. mem[n].key # MigratedKey(n)
        BY <1>4, <2>1, ConstantsAssumption
      <3>7. (TokenAt(mem[n].key))' = TokenAt(mem[n].key)
        BY <3>1, <3>4, <3>6 DEF Found, TokenAt
      <3>8. Live(n)' /\ ru'[n].ref = mem[n].key => TokenAt(mem[n].key) = mem[n].secret.token
        BY <1>2, <2>1 DEF MigrationSound, Live, Present
      <3>9. MigrationSound(n)'
        BY <1>1, <1>3, <2>1, <3>4, <3>5, <3>7, <3>8 DEF MigrationSound
      <3> QED BY <1>6, <2>1, <3>3, <3>9 DEF CredentialSound
    <2> QED BY <1>13, <2>2, <2>3 DEF CreateBound
  <1>14. CASE Repoint(n)
    <2>1. UNCHANGED secrets /\ rpc[n] = "repoint" /\ mem[n].key.home = n
      BY <1>2, <1>14 DEF Repoint, MigrationSound
    <2>2. CASE Done(n, TRUE) /\ UNCHANGED ru
      BY <1>6, <1>7, <1>8, <2>1, <2>2 DEF CredentialSound
    <2>3. CASE /\ Present(n) /\ ru[n].ref = mem[n].key
               /\ SetRU(n, [ru[n] EXCEPT !.ref = MigratedKey(n)])
               /\ Goto(n, "delete") /\ UNCHANGED mem
      <3>1. ru'[n].ref = MigratedKey(n) /\ (ru'[n].deleting <=> ru[n].deleting)
        BY <1>2, <2>3 DEF SetRU, RemoteUnleashes
      <3>2. rpc'[n] = "delete" /\ mem'[n] = mem[n]
        BY <1>2, <2>3 DEF Goto
      <3>3. Live(n)' => /\ Live(n) /\ Found(MigratedKey(n))
                        /\ TokenAt(mem[n].key) = mem[n].secret.token
                        /\ TokenAt(MigratedKey(n)) = mem[n].secret.token
        BY <1>2, <2>1, <2>3, <3>1 DEF MigrationSound, Live, Present
      <3>4. \A k : (Found(k)' <=> Found(k)) /\ TokenAt(k)' = TokenAt(k)
        BY <2>1 DEF Found, TokenAt
      <3>5. (TokenAt(ru[n].ref))' = TokenAt(MigratedKey(n)) /\ (Found(ru[n].ref)' <=> Found(MigratedKey(n)))
        BY <2>1, <3>1 DEF Found, TokenAt
      <3>6. TokenKept(n)
        BY <2>3, <3>3, <3>5 DEF TokenKept
      <3>7. OwnRef(n)'
        BY <1>2, <1>4, <2>3, <3>1, <3>3, <3>5 DEF OwnRef
      <3>8. MigrationSound(n)'
        BY <1>1, <1>3, <1>4, <2>1, <3>1, <3>2, ConstantsAssumption DEF MigrationSound
      <3>9. ReadSound(n)'
        <4> SUFFICES ASSUME hpc = "examining", cur # NoCur, cur.ns = n PROVE ReadSound(n)'
          BY <1>1 DEF ReadSound
        <4>1. (TokenAt(cur.ref))' = TokenAt(cur.ref) /\ (Found(cur.ref)' <=> Found(cur.ref))
          BY <1>1, <2>1 DEF Found, TokenAt
        <4>2. ASSUME Live(n)', cur.ask = "secret"
              PROVE  /\ cur.ref.home # OperatorNamespace
                     /\ Found(cur.ref) => TokenAt(cur.ref) = mem[n].secret.token
          BY <1>2, <2>1, <2>3, <3>3, <4>2, ConstantsAssumption DEF ReadSound
        <4>3. /\ cur.ask # "superseded" => cur.ref.scope = n
              /\ cur.ask = "references" => cur.ref # AdminSecretKey(Incoming, n)
          BY <1>2 DEF ReadSound
        <4>4. (AdminSecretKey(Incoming, n))' = AdminSecretKey(Incoming, n)
          BY <1>1 DEF AdminSecretKey
        <4> QED BY <1>1, <3>3, <3>5, <4>1, <4>2, <4>3, <4>4 DEF ReadSound
      <3>10. SafeSound(n)'
        <4> SUFFICES ASSUME n \in Cleared PROVE SafeSound(n)'
          BY <1>10 DEF SafeSound
        <4>1. AdminSecretKey(Incoming, n).home = OperatorNamespace
              /\ (AdminSecretKey(Incoming, n))' = AdminSecretKey(Incoming, n)
          BY <1>1, <1>9, <1>10 DEF AdminSecretKey
        <4>2. Live(n)' => hpc # "cleanup" /\ hpc # "deleteSecrets"
          BY <1>2, <2>1, <2>3, <3>3, <4>1, ConstantsAssumption DEF SafeSound
        <4>3. /\ Found(AdminSecretKey(Incoming, n))' <=> Found(AdminSecretKey(Incoming, n))
              /\ (TokenAt(AdminSecretKey(Incoming, n)))' = TokenAt(AdminSecretKey(Incoming, n))
          BY <2>1, <4>1 DEF Found, TokenAt
        <4>4. Live(n)' /\ Provisions(Incoming) => (TokenAt(ru[n].ref))' = Incoming.token
          BY <1>2, <2>3, <3>3, <3>5 DEF SafeSound
        <4> QED BY <1>1, <1>2, <4>2, <4>3, <4>4 DEF SafeSound
      <3> QED BY <3>6, <3>7, <3>8, <3>9, <3>10 DEF CredentialSound
    <2> QED BY <1>14, <2>2, <2>3 DEF Repoint
  <1>15. CASE DeleteLegacy(n)
    <2>1. UNCHANGED ru /\ rpc[n] = "delete" /\ mem[n].key.home = n /\ Done(n, TRUE)
          /\ (secrets' = secrets \/ secrets' = DropSecrets({mem[n].key}))
      BY <1>2, <1>15 DEF DeleteLegacy, MigrationSound
    <2>2. CASE secrets' = secrets
      BY <1>6, <1>7, <1>8, <2>1, <2>2 DEF CredentialSound
    <2>3. CASE secrets' = DropSecrets({mem[n].key})
      <3>1. \A k : /\ Found(k)' <=> Found(k) /\ k # mem[n].key
                   /\ k # mem[n].key => TokenAt(k)' = TokenAt(k)
        BY <2>3, DropTokens
      <3>2. (Live(n)' <=> Live(n)) /\ (Present(n)' <=> Present(n)) /\ (Live(n) => ru[n].ref # mem[n].key)
        BY <1>2, <2>1 DEF Live, Present, MigrationSound
      <3>3. ru[n].ref # mem[n].key => /\ Found(ru[n].ref)' <=> Found(ru[n].ref)
                                      /\ (TokenAt(ru[n].ref))' = TokenAt(ru[n].ref)
        BY <2>1, <3>1 DEF Found, TokenAt
      <3>4. TokenKept(n) /\ OwnRef(n)'
        BY <1>2, <2>1, <3>2, <3>3 DEF TokenKept, OwnRef
      <3>5. ReadSound(n)'
        <4> SUFFICES ASSUME hpc = "examining", cur # NoCur, cur.ns = n PROVE ReadSound(n)'
          BY <1>1 DEF ReadSound
        <4>1. Found(cur.ref)' => cur.ref # mem[n].key /\ Found(cur.ref) /\ (TokenAt(cur.ref))' = TokenAt(cur.ref)
          BY <1>1, <3>1 DEF Found, TokenAt
        <4>2. (AdminSecretKey(Incoming, n))' = AdminSecretKey(Incoming, n)
          BY <1>1 DEF AdminSecretKey
        <4> QED BY <1>1, <1>2, <2>1, <3>2, <3>3, <4>1, <4>2 DEF ReadSound
      <3>6. SafeSound(n)'
        <4> SUFFICES ASSUME n \in Cleared PROVE SafeSound(n)'
          BY <1>10 DEF SafeSound
        <4>1. AdminSecretKey(Incoming, n).home = OperatorNamespace
              /\ (AdminSecretKey(Incoming, n))' = AdminSecretKey(Incoming, n)
          BY <1>1, <1>9, <1>10 DEF AdminSecretKey
        <4>2. AdminSecretKey(Incoming, n) # mem[n].key
          BY <2>1, <4>1, ConstantsAssumption
        <4>3. /\ Found(AdminSecretKey(Incoming, n))' <=> Found(AdminSecretKey(Incoming, n))
              /\ (TokenAt(AdminSecretKey(Incoming, n)))' = TokenAt(AdminSecretKey(Incoming, n))
          BY <3>1, <4>1, <4>2 DEF Found, TokenAt
        <4> QED BY <1>1, <1>2, <2>1, <3>2, <3>3, <4>1, <4>3 DEF SafeSound
      <3> QED BY <1>8, <2>1, <3>4, <3>5, <3>6 DEF CredentialSound
    <2> QED BY <2>1, <2>2, <2>3
  <1> QED BY <1>11, <1>12, <1>13, <1>14, <1>15

\* Steps that leave the handler alone keep its list of secrets to delete right.
LEMMA DoomedKept ==
    ASSUME TypeOK, FindingsHold, DoomedSound, Longer, UNCHANGED <<next, handlerVars, bound>>
    PROVE  DoomedSound'
  <1>1. UNCHANGED <<doomed, Cleared>>
    BY DEF handlerVars, Cleared
  <1>2. ASSUME NEW k \in doomed, k.scope \in Tenants
        PROVE  Incoming' = Incoming /\ (AdminSecretKey(Incoming, k.scope))' = AdminSecretKey(Incoming, k.scope)
    <2>1. hpc # "idle"
      BY <1>2, ClearedIsBusy, ConstantsAssumption DEF DoomedSound
    <2>2. Incoming' = Incoming
      BY <2>1 DEF TypeOK, Longer, Incoming
    <2> QED BY <2>2 DEF AdminSecretKey
  <1> QED BY <1>1, <1>2 DEF DoomedSound

\* A step of one worker is none of the business of the other objects.
LEMMA ElsewhereKept ==
    ASSUME TypeOK, FindingsHold, CredentialsSound, NEW ns \in Tenants, Reconcile(ns),
           NEW n \in Tenants, n # ns, UNCHANGED otherVars
    PROVE  CredentialSound(n)' /\ TokenKept(n)
  <1>1. Longer /\ UNCHANGED <<next, handlerVars, bound>>
    BY DEF otherVars, publisherVars, handlerVars, Longer, TypeOK
  <1>2. /\ ru \in [Tenants -> RemoteUnleashes] /\ n \in DOMAIN rpc /\ n \in DOMAIN mem
        /\ mem[ns].key \in Keys
    BY DEF TypeOK
  <1>3. ru'[n] = ru[n]
    BY <1>2 DEF Reconcile, Finalize, Validate, Connect, ConnectFails, Vanished, Migrate, StampUrl,
                CreateBound, Repoint, DeleteLegacy, ReconcileFails, SetStatus, SetRU, clusterVars
  <1>4. rpc'[n] = rpc[n] /\ mem'[n] = mem[n]
    BY <1>2 DEF Reconcile, Finalize, Validate, Connect, ConnectFails, Vanished, Migrate, StampUrl,
                CreateBound, Repoint, DeleteLegacy, ReconcileFails, Done, Goto, Remember
  <1>5. ObjectKept(n)
    BY <1>3 DEF ObjectKept, Live, Present
  <1>6. StoreKept(n)
    <2>1. rpc[ns] \notin {"idle", "call"} => mem[ns].key.scope = ns
      BY DEF CredentialsSound, CredentialSound, MigrationSound
    <2>2. CASE UNCHANGED secrets
      BY <2>2 DEF StoreKept, Found, TokenAt
    <2>3. CASE StampUrl(ns) /\ Unchanged(ns)
      <3>1. secrets' = [secrets EXCEPT ![mem[ns].key] = [mem[ns].secret EXCEPT !.url = mem[ns].url]]
        BY <2>3 DEF StampUrl
      <3>2. mem[ns].key.scope = ns
        BY <2>1, <2>3 DEF StampUrl
      <3> QED BY <3>1, <3>2 DEF StoreKept, Found, TokenAt
    <2>4. CASE secrets' = PutSecrets({MigratedKey(ns)}, mem[ns].url, mem[ns].secret.token)
      <3>1. MigratedKey(ns).scope = ns
        BY MigratedKeyHome
      <3> QED BY <2>4, <3>1, PutTokens DEF StoreKept
    <2>5. CASE DeleteLegacy(ns) /\ secrets' = DropSecrets({mem[ns].key})
      <3>1. mem[ns].key.scope = ns
        BY <2>1, <2>5 DEF DeleteLegacy
      <3> QED BY <2>5, <3>1, DropTokens DEF StoreKept
    <2> QED BY <2>2, <2>3, <2>4, <2>5
            DEF Reconcile, Finalize, Validate, Connect, ConnectFails, Vanished, Migrate, StampUrl,
                CreateBound, Repoint, DeleteLegacy, ReconcileFails, clusterVars
  <1>7. OwnRef(n) /\ MigrationSound(n) /\ ReadSound(n) /\ SafeSound(n)
    BY DEF CredentialsSound, CredentialSound
  <1> QED BY <1>1, <1>4, <1>5, <1>6, <1>7, FindingsKept, MigrationKept DEF CredentialSound, otherVars

\* A worker keeps its own object's credential.
LEMMA WorkerKeeps ==
    ASSUME TypeOK, FindingsHold, CredentialsSound, NEW ns \in Tenants, Reconcile(ns)
    PROVE  CredentialsSound' /\ \A n \in Tenants : TokenKept(n)
  <1>1. UNCHANGED otherVars
    BY DEF Reconcile, Finalize, Validate, Connect, ConnectFails, Vanished, Migrate, StampUrl,
           CreateBound, Repoint, DeleteLegacy, ReconcileFails
  <1>2. Longer /\ UNCHANGED <<next, handlerVars, bound>>
    BY <1>1 DEF otherVars, publisherVars, handlerVars, Longer, TypeOK
  <1>3. /\ Tidy /\ DoomedSound /\ CredentialSound(ns)
        /\ OwnRef(ns) /\ MigrationSound(ns) /\ ReadSound(ns) /\ SafeSound(ns)
    BY DEF CredentialsSound, CredentialSound
  <1>4. /\ ru \in [Tenants -> RemoteUnleashes] /\ ns \in DOMAIN rpc /\ ns \in DOMAIN mem
        /\ rpc' \in [Tenants -> {"idle", "call", "migrate", "stamp", "create", "repoint", "delete"}]
    BY WorkerTypes DEF TypeOK
  <1>5. Tidy'
    <2>1. CASE UNCHANGED secrets
      BY <1>3, <2>1 DEF Tidy
    <2>2. CASE StampUrl(ns) /\ Unchanged(ns)
      <3> DEFINE stamped == [mem[ns].secret EXCEPT !.url = mem[ns].url]
      <3>1. secrets' = [secrets EXCEPT ![mem[ns].key] = stamped]
        BY <2>2 DEF StampUrl
      <3>2. Found(mem[ns].key) /\ stamped.auth = secrets[mem[ns].key].auth
        BY <2>2 DEF Unchanged, TypeOK, AdminSecrets
      <3> QED BY <1>3, <3>1, <3>2 DEF Tidy, TidyKey, Found
    <2>3. CASE secrets' = PutSecrets({MigratedKey(ns)}, mem[ns].url, mem[ns].secret.token)
      BY <1>3, <2>3, PutTidy, MigratedKeyHome
    <2>4. CASE secrets' = DropSecrets({mem[ns].key})
      BY <1>3, <2>4, DropTokens
    <2> QED BY <2>1, <2>2, <2>3, <2>4
            DEF Reconcile, Finalize, Validate, Connect, ConnectFails, Vanished, Migrate, StampUrl,
                CreateBound, Repoint, DeleteLegacy, ReconcileFails, clusterVars
  <1>6. CredentialSound(ns)' /\ TokenKept(ns)
    <2>1. CASE Migrate(ns) \/ StampUrl(ns) \/ CreateBound(ns) \/ Repoint(ns) \/ DeleteLegacy(ns)
      BY <1>1, <1>3, <2>1, MigrationKeeps
    <2>2. CASE Finalize(ns) \/ Validate(ns) \/ Connect(ns) \/ ConnectFails(ns) \/ Vanished(ns)
               \/ ReconcileFails(ns)
      <3>1. UNCHANGED secrets
        BY <2>2 DEF Finalize, Validate, Connect, ConnectFails, Vanished, ReconcileFails, clusterVars
      <3>2. StoreKept(ns)
        BY <3>1 DEF StoreKept, Found, TokenAt
      <3>3. Harmless(ns)
        BY WorkerHarmless
      <3>4. ru'[ns] = NoRU \/ ru'[ns].ref = ru[ns].ref
        BY <1>4, <2>2 DEF Finalize, Validate, Connect, ConnectFails, Vanished, ReconcileFails, SetStatus,
                          SetRU, clusterVars, RemoteUnleashes
      <3>5. ObjectKept(ns)
        BY <3>3, <3>4 DEF ObjectKept, Harmless, Live, Present
      <3>6. \/ rpc'[ns] \in {"idle", "call"}
            \/ rpc'[ns] = "migrate" /\ Present(ns) /\ MigrationEnabled /\ mem'[ns].key = ru[ns].ref
        <4>1. CASE Connect(ns)
          <5>1. CASE MigrationEnabled
            BY <1>4, <4>1, <5>1 DEF Connect, Goto, Remember
          <5>2. CASE ~MigrationEnabled
            BY <1>4, <4>1, <5>2 DEF Connect, Done, Goto
          <5> QED BY <5>1, <5>2
        <4>2. CASE ~Connect(ns)
          BY <1>4, <2>2, <4>2 DEF Finalize, Validate, ConnectFails, Vanished, ReconcileFails, Done, Goto
        <4> QED BY <4>1, <4>2
      <3>7. MigrationSound(ns)'
        BY <1>2, <1>3, <3>6 DEF MigrationSound, OwnRef, MigrationEnabled
      <3> QED BY <1>2, <1>3, <3>2, <3>5, <3>7, FindingsKept DEF CredentialSound
    <2> QED BY <2>1, <2>2 DEF Reconcile
  <1>7. DoomedSound'
    BY <1>2, <1>3, DoomedKept
  <1>8. \A n \in Tenants : CredentialSound(n)' /\ TokenKept(n)
    BY <1>1, <1>6, ElsewhereKept
  <1> QED BY <1>5, <1>7, <1>8 DEF CredentialsSound

\* So does the publisher, who touches none.
LEMMA PublisherKeeps ==
    ASSUME TypeOK, FindingsHold, CredentialsSound, UNCHANGED <<next, ru, secrets, bound, handlerVars, rpc, mem>>,
           Longer
    PROVE  CredentialsSound' /\ \A n \in Tenants : TokenKept(n)
  <1>1. ASSUME NEW n \in Tenants PROVE CredentialSound(n)' /\ TokenKept(n)
    <2>1. ObjectKept(n) /\ StoreKept(n)
      BY DEF ObjectKept, Live, Present, StoreKept, Found, TokenAt
    <2>2. OwnRef(n) /\ MigrationSound(n) /\ ReadSound(n) /\ SafeSound(n)
      BY DEF CredentialsSound, CredentialSound
    <2> QED BY <2>1, <2>2, FindingsKept, MigrationKept DEF CredentialSound
  <1>2. Tidy' /\ DoomedSound'
    BY DoomedKept DEF CredentialsSound, Tidy
  <1> QED BY <1>1, <1>2 DEF CredentialsSound

\* Objects that keep their reference and secrets that keep their tokens keep credentials.
LEMMA CredentialStays ==
    ASSUME TypeOK, NEW n \in Tenants, OwnRef(n), StoreKept(n), ObjectKept(n)
    PROVE  OwnRef(n)' /\ TokenKept(n)
  <1>1. ru[n].ref \in Keys
    BY DEF TypeOK, RemoteUnleashes
  <1>2. ASSUME Live(n)'
        PROVE  Found(ru[n].ref)' /\ (TokenAt(ru[n].ref))' = TokenAt(ru[n].ref)
    <2>1. Live(n) /\ ru'[n].ref = ru[n].ref
      BY <1>2 DEF ObjectKept, Live
    <2>2. ru[n].ref.scope = n /\ Found(ru[n].ref)
      BY <2>1 DEF OwnRef, Live
    <2>3. PICK k \in Keys : k = ru[n].ref
      BY <1>1
    <2>4. Found(k)' /\ TokenAt(k)' = TokenAt(k)
      BY <2>2, <2>3 DEF StoreKept
    <2> QED BY <2>1, <2>3, <2>4 DEF TokenAt, Found
  <1> QED BY <1>2 DEF OwnRef, ObjectKept, TokenKept

\* A handler at rest relies on nothing.
LEMMA RestSound ==
    ASSUME Rest
    PROVE  DoomedSound' /\ \A n \in Tenants : ReadSound(n)' /\ SafeSound(n)'
  BY RestType, ClearedIsSafe DEF DoomedSound, ReadSound, SafeSound

\* A step of the handler that only reads, or fails to, moves no credential.
LEMMA ReadingKeeps ==
    ASSUME TypeOK, CredentialsSound, UNCHANGED <<ru, secrets, bound, rpc, mem>>
    PROVE  /\ Tidy'
           /\ \A n \in Tenants : OwnRef(n)' /\ MigrationSound(n)' /\ TokenKept(n)
  <1>1. ASSUME NEW n \in Tenants PROVE OwnRef(n)' /\ MigrationSound(n)' /\ TokenKept(n)
    <2>1. ObjectKept(n) /\ StoreKept(n)
      BY DEF ObjectKept, Live, Present, StoreKept, Found, TokenAt
    <2>2. OwnRef(n) /\ MigrationSound(n)
      BY DEF CredentialsSound, CredentialSound
    <2> QED BY <2>1, <2>2, CredentialStays, MigrationKept
  <1> QED BY <1>1 DEF CredentialsSound, Tidy

\* What a namespace's message supersedes is named after that namespace, or after none.
LEMMA SupersededIsOwn ==
    ASSUME Tidy, NEW m, NEW n \in Tenants, NEW k \in SupersededAdminSecrets(m, n)
    PROVE  /\ k.scope = n \/ k.scope = NoNamespace
           /\ k # AdminSecretKey(m, n)
  <1>1. /\ Found(k) /\ k.home \in {n, OperatorNamespace} /\ k # AdminSecretKey(m, n)
        /\ k.home = OperatorNamespace => secrets[k].auth \in {n, NoNamespace}
    BY DEF SupersededAdminSecrets, Found
  <1>2. k.scope = n \/ k.scope = NoNamespace
    BY <1>1, ConstantsAssumption DEF Tidy, TidyKey, Found
  <1> QED BY <1>1, <1>2

\* A read of the handler keeps its findings right if what it adds to them is.
LEMMA Learned ==
    ASSUME TypeOK, FindingsHold, CredentialsSound, UNCHANGED <<log, next, ru, secrets, bound, hpc>>,
           hpc = "examining", Cleared \subseteq Cleared',
           \A n \in Cleared' \ Cleared : Provisions(Incoming) /\ Live(n) => TokenAt(ru[n].ref) = Incoming.token,
           \A k \in doomed' \ doomed :
              /\ k.scope \in Cleared' \/ k.scope = NoNamespace
              /\ Provisions(Incoming) /\ k.scope \in Tenants => k # AdminSecretKey(Incoming, k.scope)
    PROVE  DoomedSound' /\ \A n \in Tenants : SafeSound(n)'
  <1>1. Incoming' = Incoming /\ DoomedSound /\ \A n \in Tenants : SafeSound(n)
    BY DEF Incoming, CredentialsSound, CredentialSound
  <1>2. ASSUME NEW n, TRUE
        PROVE  /\ Live(n)' <=> Live(n)
               /\ (AdminSecretKey(Incoming, n))' = AdminSecretKey(Incoming, n)
               /\ (TokenAt(ru[n].ref))' = TokenAt(ru[n].ref)
    BY <1>1 DEF Live, Present, AdminSecretKey, TokenAt, Found
  <1>3. ASSUME NEW n \in Tenants, n \in Cleared' PROVE SafeSound(n)'
    <2>1. Provisions(Incoming) /\ Live(n) => TokenAt(ru[n].ref) = Incoming.token
      BY <1>1, <1>3 DEF SafeSound
    <2> QED BY <1>1, <1>2, <2>1 DEF SafeSound
  <1>4. ASSUME NEW k \in doomed'
        PROVE  /\ k.scope \in Cleared' \/ k.scope = NoNamespace
               /\ Provisions(Incoming) /\ k.scope \in Tenants => k # AdminSecretKey(Incoming, k.scope)
    BY <1>1, <1>4 DEF DoomedSound
  <1>5. DoomedSound'
    <2> SUFFICES ASSUME NEW k \in doomed'
                 PROVE  /\ k.scope \in Cleared' \/ k.scope = NoNamespace
                        /\ Provisions(Incoming') /\ k.scope \in Tenants =>
                              k # (AdminSecretKey(Incoming, k.scope))'
      BY DEF DoomedSound
    <2> QED BY <1>1, <1>2, <1>4
  <1> QED BY <1>3, <1>5 DEF SafeSound

\* Examining a RemoteUnleash.
LEMMA ReadRemoteUnleashKeeps ==
    ASSUME TypeOK, FindingsHold, CredentialsSound, NEW ns \in Tenants, ReadRemoteUnleash(ns)
    PROVE  DoomedSound' /\ \A n \in Tenants : ReadSound(n)' /\ SafeSound(n)'
  <1>1. /\ UNCHANGED <<log, next, ru, secrets, bound, hpc, safe, doomed>> /\ hpc = "examining"
        /\ Cleared = safe /\ OwnRef(ns)
    BY ClearedIsSafe DEF ReadRemoteUnleash, publisherVars, clusterVars, CredentialsSound, CredentialSound
  <1>2. CASE cur' = NoCur
    <2>1. Cleared' = Cleared
      BY <1>1, <1>2, ClearedIsSafe
    <2> QED BY <1>1, <1>2, <2>1, Learned DEF ReadSound
  <1>3. CASE Present(ns) /\ cur' = [ns |-> ns, ref |-> ru[ns].ref, ask |-> "secret"]
    <2>1. cur'.ns = ns /\ cur'.ref = ru[ns].ref /\ cur'.ask = "secret" /\ ru[ns].ref.scope = ns
      BY <1>1, <1>3 DEF OwnRef
    <2>2. Cleared' = Cleared
      BY <1>1, <2>1 DEF Cleared
    <2>3. \A n \in Tenants : ReadSound(n)'
      BY <1>1, <2>1 DEF ReadSound
    <2> QED BY <1>1, <2>2, <2>3, Learned
  <1>4. CASE ~Present(ns) /\ cur' = [ns |-> ns, ref |-> NoKey, ask |-> "superseded"]
    <2>1. cur'.ns = ns /\ cur'.ask = "superseded"
      BY <1>4
    <2>2. Cleared' = safe \cup {ns}
      BY <1>1, <2>1 DEF Cleared
    <2>3. \A n \in Tenants : ReadSound(n)'
      BY <2>1 DEF ReadSound
    <2>4. ~Live(ns)
      BY <1>4 DEF Live
    <2> QED BY <1>1, <2>2, <2>3, <2>4, Learned
  <1> QED BY <1>2, <1>3, <1>4 DEF ReadRemoteUnleash

\* Examining the secret it names: what has the message's token is cleared.
LEMMA ReadSecretKeeps ==
    ASSUME TypeOK, FindingsHold, CredentialsSound, ReadSecret
    PROVE  DoomedSound' /\ \A n \in Tenants : ReadSound(n)' /\ SafeSound(n)'
  <1>1. /\ UNCHANGED <<log, next, ru, secrets, bound, hpc>> /\ hpc = "examining"
        /\ cur # NoCur /\ cur.ns \in Tenants
    BY Answers DEF publisherVars, clusterVars
  <1>2. /\ cur.ask = "secret" /\ Incoming' = Incoming /\ Incoming \in Messages /\ ReadSound(cur.ns)
        /\ cur \in [ns : Tenants, ref : Keys, ask : {"secret", "references", "superseded"}]
    BY <1>1, IncomingType DEF ReadSecret, Incoming, CredentialsSound, CredentialSound, TypeOK
  <1>3. Cleared = safe /\ cur.ref.scope = cur.ns
    BY <1>1, <1>2 DEF Cleared, ReadSound
  <1>4. TokensEqual => (Live(cur.ns) => TokenAt(ru[cur.ns].ref) = Incoming.token)
    BY <1>1, <1>2 DEF TokensEqual, ReadSound
  <1>5. CASE cur' = NoCur /\ UNCHANGED <<safe, doomed>>
    <2>1. Cleared' = Cleared
      BY <1>3, <1>5, ClearedIsSafe
    <2> QED BY <1>1, <1>5, <2>1, Learned DEF ReadSound
  <1>6. CASE ReadSecretToRetract /\ TokensEqual
    <2>1. /\ cur' = NoCur /\ safe' = safe \cup {cur.ns} /\ doomed' = doomed \cup {cur.ref}
          /\ ~Provisions(Incoming)
      BY <1>2, <1>6, Exclusive DEF ReadSecretToRetract, Accept
    <2>2. Cleared' = safe \cup {cur.ns}
      BY <2>1, ClearedIsSafe
    <2>3. \A k \in doomed' \ doomed : k.scope \in Cleared'
      BY <1>3, <2>1, <2>2
    <2> QED BY <1>1, <1>3, <2>1, <2>2, <2>3, Learned DEF ReadSound
  <1>7. ASSUME ReadSecretToProvision, TokensEqual
        PROVE  DoomedSound' /\ \A n \in Tenants : ReadSound(n)' /\ SafeSound(n)'
    <2>1. PICK q \in {"references", "superseded"} :
             /\ cur' = [cur EXCEPT !.ask = q]
             /\ q = "references" => cur.ref # AdminSecretKey(Incoming, cur.ns)
      BY <1>7 DEF ReadSecretToProvision, Ask
    <2>2. cur'.ns = cur.ns /\ cur'.ref = cur.ref /\ cur'.ask = q
      BY <1>2, <2>1
    <2>3. UNCHANGED <<safe, doomed>>
      BY <1>7 DEF ReadSecretToProvision
    <2>4. Cleared' = safe \cup {cur.ns}
      BY <1>1, <2>2, <2>3 DEF Cleared
    <2>5. \A n \in Tenants : ReadSound(n)'
      <3> SUFFICES ASSUME NEW n \in Tenants, cur'.ns = n PROVE ReadSound(n)'
        BY DEF ReadSound
      <3>1. (AdminSecretKey(Incoming, n))' = AdminSecretKey(Incoming, n)
        BY <1>1, <1>2 DEF AdminSecretKey
      <3> QED BY <1>3, <2>1, <2>2, <3>1 DEF ReadSound
    <2> QED BY <1>1, <1>3, <1>4, <1>7, <2>3, <2>4, <2>5, Learned
  <1> QED BY <1>5, <1>6, <1>7 DEF ReadSecret, ReadSecretToRetract, ReadSecretToProvision

\* Looking up who refers to the old secret, and which secrets the message supersedes.
LEMMA LookupsKeep ==
    ASSUME TypeOK, FindingsHold, CredentialsSound, ReadReferences \/ ReadSuperseded
    PROVE  DoomedSound' /\ \A n \in Tenants : ReadSound(n)' /\ SafeSound(n)'
  <1>1. /\ UNCHANGED <<log, next, ru, secrets, bound, hpc>> /\ hpc = "examining"
        /\ cur # NoCur /\ cur.ns \in Tenants
    BY Answers DEF publisherVars, clusterVars
  <1>2. /\ ReadSound(cur.ns) /\ Tidy
        /\ cur \in [ns : Tenants, ref : Keys, ask : {"secret", "references", "superseded"}]
    BY <1>1 DEF CredentialsSound, CredentialSound, TypeOK
  <1>3. Cleared = safe \cup {cur.ns}
    BY <1>1 DEF Cleared, ReadReferences, ReadSuperseded
  <1>4. CASE ReadReferences
    <2>1. cur.ask = "references" /\ cur' = [cur EXCEPT !.ask = "superseded"] /\ UNCHANGED safe
      BY <1>4 DEF ReadReferences, Ask
    <2>2. cur'.ns = cur.ns /\ cur'.ask = "superseded"
      BY <1>2, <2>1
    <2>3. Cleared' = Cleared
      BY <2>1, <2>2 DEF Cleared
    <2>4. \A k \in doomed' \ doomed : k = cur.ref
      BY <1>4 DEF ReadReferences
    <2>5. cur.ref.scope = cur.ns /\ cur.ref # AdminSecretKey(Incoming, cur.ns)
      BY <1>1, <1>2, <2>1 DEF ReadSound
    <2>6. \A n \in Tenants : ReadSound(n)'
      BY <2>2 DEF ReadSound
    <2> QED BY <1>1, <1>3, <2>3, <2>4, <2>5, <2>6, Learned
  <1>5. CASE ReadSuperseded
    <2>1. /\ cur' = NoCur /\ safe' = safe \cup {cur.ns}
          /\ doomed' = doomed \cup SupersededAdminSecrets(Incoming, cur.ns)
      BY <1>5 DEF ReadSuperseded, Accept
    <2>2. Cleared' = Cleared
      BY <1>3, <2>1, ClearedIsSafe
    <2>3. \A k \in doomed' \ doomed :
             k.scope \in {cur.ns, NoNamespace} /\ k # AdminSecretKey(Incoming, cur.ns)
      BY <1>1, <1>2, <2>1, SupersededIsOwn
    <2>4. \A k \in doomed' \ doomed :
             /\ k.scope \in Cleared' \/ k.scope = NoNamespace
             /\ Provisions(Incoming) /\ k.scope \in Tenants => k # AdminSecretKey(Incoming, k.scope)
      BY <1>3, <2>2, <2>3, ConstantsAssumption
    <2>5. \A n \in Tenants : ReadSound(n)'
      BY <2>1 DEF ReadSound
    <2> QED BY <1>1, <2>2, <2>4, <2>5, Learned
  <1> QED BY <1>4, <1>5

\* Deleting the objects of a retraction.
LEMMA DeleteRUsKeeps ==
    ASSUME TypeOK, FindingsHold, CredentialsSound, DeleteRUs
    PROVE  CredentialsSound' /\ \A n \in Tenants : TokenKept(n)
  <1>1. PICK done \in SUBSET safe :
           /\ RemoveRUs(done)
           /\ (done = safe /\ Proceed("deleteSecrets")) \/ Rest
    BY DEF DeleteRUs, PartlyDone, Nack
  <1>2. /\ UNCHANGED <<log, secrets, bound, rpc, mem>> /\ cur = NoCur /\ ru \in [Tenants -> RemoteUnleashes]
        /\ safe \subseteq Tenants /\ Incoming \in Messages /\ ~Provisions(Incoming)
        /\ DoomedSound /\ Tidy /\ Cleared = safe
    BY IncomingType, Exclusive, ClearedIsSafe DEF DeleteRUs, Examined, TypeOK, publisherVars, CredentialsSound
  <1>3. ASSUME NEW n \in Tenants
        PROVE  ObjectKept(n) /\ StoreKept(n) /\ (n \in done => ~Live(n)')
    <2>1. StoreKept(n)
      BY <1>2 DEF StoreKept, Found, TokenAt
    <2>2. CASE n \in done
      <3>1. ru'[n] = Deleted(ru[n])
        BY <1>1, <2>2 DEF RemoveRUs
      <3>2. ~Live(n)' /\ (Present(n)' => Present(n))
        BY <1>2, <3>1, DeletedType DEF Live, Present
      <3>3. Present(n)' => ru'[n].ref = ru[n].ref
        BY <1>2, <3>1 DEF Deleted, Present, RemoteUnleashes
      <3> QED BY <2>1, <3>2, <3>3 DEF ObjectKept
    <2>3. CASE n \notin done
      BY <1>1, <2>1, <2>3 DEF RemoveRUs, ObjectKept, Live, Present
    <2> QED BY <2>2, <2>3
  <1>4. ASSUME NEW n \in Tenants PROVE OwnRef(n)' /\ MigrationSound(n)' /\ TokenKept(n)
    <2>1. OwnRef(n) /\ MigrationSound(n)
      BY DEF CredentialsSound, CredentialSound
    <2> QED BY <1>2, <1>3, <2>1, CredentialStays, MigrationKept
  <1>5. Tidy'
    BY <1>2 DEF Tidy
  <1>6. DoomedSound' /\ \A n \in Tenants : ReadSound(n)' /\ SafeSound(n)'
    <2>1. CASE Rest
      BY <2>1, RestSound
    <2>2. CASE done = safe /\ Proceed("deleteSecrets")
      <3>1. UNCHANGED <<next, cur, safe, doomed, Cleared>> /\ hpc' = "deleteSecrets" /\ Incoming' = Incoming
        BY <1>2, <2>2, ClearedIsSafe DEF Proceed, Incoming
      <3> QED BY <1>2, <1>3, <2>2, <3>1 DEF DoomedSound, ReadSound, SafeSound
    <2> QED BY <1>1, <2>1, <2>2
  <1> QED BY <1>4, <1>5, <1>6 DEF CredentialsSound, CredentialSound

\* Deleting secrets, of a retraction or superseded ones: none is in use.
LEMMA DeletingSecretsKeeps ==
    ASSUME TypeOK, FindingsHold, CredentialsSound, DeleteSecrets \/ DeleteSuperseded
    PROVE  CredentialsSound' /\ \A n \in Tenants : TokenKept(n)
  <1>1. PICK done \in SUBSET doomed : secrets' = DropSecrets(done) /\ Rest
    BY DEF DeleteSecrets, DeleteSuperseded, PartlyDone, Ack, Nack
  <1>2. UNCHANGED <<ru, bound, rpc, mem>> /\ hpc \in {"deleteSecrets", "cleanup"}
    BY DEF DeleteSecrets, DeleteSuperseded, workerVars
  <1>3. /\ Incoming \in Messages /\ (hpc = "cleanup" => Provisions(Incoming)) /\ DoomedSound /\ Tidy
        /\ Cleared = safe
    BY <1>2, IncomingType, ClearedIsSafe DEF TypeOK, FindingsHold, CredentialsSound
  <1>4. \A k : /\ Found(k)' <=> Found(k) /\ k \notin done
               /\ k \notin done => TokenAt(k)' = TokenAt(k)
    BY <1>1, DropTokens
  <1>5. ASSUME NEW n \in Tenants PROVE OwnRef(n)' /\ MigrationSound(n)' /\ TokenKept(n)
    <2>1. OwnRef(n) /\ MigrationSound(n) /\ SafeSound(n)
      BY DEF CredentialsSound, CredentialSound
    <2>2. (Live(n)' <=> Live(n)) /\ (Present(n)' <=> Present(n))
      BY <1>2 DEF Live, Present
    <2>3. ASSUME NEW k \in done, k.scope = n, Live(n)
          PROVE  /\ ru[n].ref # k
                 /\ ru[n].ref = AdminSecretKey(Incoming, n)
      <3>1. n \in safe
        BY <2>3, <1>3, ConstantsAssumption DEF DoomedSound
      <3>2. hpc = "cleanup" /\ ru[n].ref = AdminSecretKey(Incoming, n)
        BY <1>2, <1>3, <2>1, <2>3, <3>1 DEF SafeSound
      <3>3. k # AdminSecretKey(Incoming, n)
        BY <1>3, <2>3, <3>2 DEF DoomedSound
      <3> QED BY <3>2, <3>3
    <2>4. Live(n) => ru[n].ref \notin done /\ ru[n].ref.scope = n /\ Found(ru[n].ref)
      BY <2>1, <2>3 DEF OwnRef, Live
    <2>5. Live(n) => Found(ru[n].ref)' /\ (TokenAt(ru[n].ref))' = TokenAt(ru[n].ref)
      BY <1>2, <1>4, <2>4 DEF Found, TokenAt
    <2>6. OwnRef(n)' /\ TokenKept(n)
      BY <1>2, <2>1, <2>2, <2>5 DEF OwnRef, TokenKept
    <2>7. ASSUME Live(n), rpc[n] \in {"create", "repoint"}, ru[n].ref = mem[n].key
          PROVE  \A k : k.scope = n => k \notin done
      <3>1. bound /\ mem[n].key.home = n
        BY <2>1, <2>7 DEF MigrationSound
      <3>2. AdminSecretKey(Incoming, n).home = OperatorNamespace
        BY <1>3, <3>1, AdminSecretKeyHome DEF TypeOK
      <3> QED BY <2>3, <2>7, <3>1, <3>2, ConstantsAssumption
    <2>8. MigratedKey(n).scope = n /\ MigratedKey(n)' = MigratedKey(n)
      BY <1>2, MigratedKeyHome DEF MigratedKey
    <2>9. ASSUME Live(n), rpc[n] \in {"create", "repoint"}, ru[n].ref = mem[n].key
          PROVE  /\ (TokenAt(mem[n].key))' = TokenAt(mem[n].key)
                 /\ Found(MigratedKey(n))' <=> Found(MigratedKey(n))
                 /\ (TokenAt(MigratedKey(n)))' = TokenAt(MigratedKey(n))
      <3>1. mem[n].key \notin done /\ MigratedKey(n) \notin done
        BY <2>4, <2>7, <2>8, <2>9
      <3> QED BY <1>2, <1>4, <2>8, <3>1 DEF Found, TokenAt
    <2>10. MigrationSound(n)'
      BY <1>2, <2>1, <2>2, <2>9 DEF MigrationSound
    <2> QED BY <2>6, <2>10
  <1>6. Tidy'
    BY <1>1, <1>3, DropTokens
  <1> QED BY <1>1, <1>5, <1>6, RestSound DEF CredentialsSound, CredentialSound

\* Writing the secrets a message brings: where one is in use, it has that token already.
LEMMA WritingSecretsKeeps ==
    ASSUME TypeOK, FindingsHold, CredentialsSound, WriteSecrets \/ NoHomeForSecret
    PROVE  CredentialsSound' /\ \A n \in Tenants : TokenKept(n)
  <1>1. PICK done \in SUBSET safe :
           /\ WriteSecretsOf(done)
           /\ (done = safe /\ Proceed("writeRUs")) \/ Rest
    BY DEF WriteSecrets, NoHomeForSecret, Writable, PartlyDone, Nack
  <1>2. /\ UNCHANGED <<log, ru, bound, rpc, mem>> /\ Provisions(Incoming) /\ cur = NoCur
        /\ safe \subseteq Tenants /\ hpc = "examining" /\ bound \in BOOLEAN
    BY DEF WriteSecrets, NoHomeForSecret, Examined, publisherVars, workerVars, TypeOK
  <1>3. Incoming \in Messages /\ Tidy /\ DoomedSound /\ Cleared = safe
    BY <1>2, IncomingType, ClearedIsSafe DEF TypeOK, CredentialsSound
  <1> DEFINE keys == {AdminSecretKey(Incoming, ns) : ns \in done}
  <1>4. secrets' = PutSecrets(keys, Incoming.url, Incoming.token)
    BY <1>1 DEF WriteSecretsOf
  <1>5. \A k : /\ Found(k)' <=> Found(k) \/ k \in keys
               /\ k \in keys => TokenAt(k)' = Incoming.token
               /\ k \notin keys => TokenAt(k)' = TokenAt(k)
    BY <1>4, PutTokens
  <1>6. \A ns \in Tenants : /\ AdminSecretKey(Incoming, ns).scope = ns
                            /\ AdminSecretKey(Incoming, ns).home \in {ns, OperatorNamespace}
                            /\ bound => AdminSecretKey(Incoming, ns).home = OperatorNamespace
    BY <1>2, <1>3, AdminSecretKeyHome
  <1>7. ASSUME NEW n \in Tenants, NEW k \in keys, k.scope = n
        PROVE  n \in safe /\ k = AdminSecretKey(Incoming, n)
    BY <1>2, <1>6, <1>7
  <1>8. ASSUME NEW n \in Tenants
        PROVE  /\ OwnRef(n)' /\ MigrationSound(n)' /\ TokenKept(n)
               /\ n \in safe /\ Live(n)' => (TokenAt(ru[n].ref))' = Incoming.token
    <2>1. OwnRef(n) /\ MigrationSound(n) /\ SafeSound(n)
      BY DEF CredentialsSound, CredentialSound
    <2>2. (Live(n)' <=> Live(n)) /\ (Present(n)' <=> Present(n))
      BY <1>2 DEF Live, Present
    <2>3. n \in safe /\ Live(n) => TokenAt(ru[n].ref) = Incoming.token
      BY <1>2, <1>3, <2>1 DEF SafeSound
    <2>4. Live(n) => ru[n].ref.scope = n /\ Found(ru[n].ref)
      BY <2>1 DEF OwnRef, Live
    <2>5. Live(n) => Found(ru[n].ref)' /\ (TokenAt(ru[n].ref))' = TokenAt(ru[n].ref)
      <3> SUFFICES ASSUME Live(n)
                   PROVE  Found(ru[n].ref)' /\ (TokenAt(ru[n].ref))' = TokenAt(ru[n].ref)
        OBVIOUS
      <3>1. PICK k : k = ru[n].ref
        OBVIOUS
      <3>2. Found(k)' /\ TokenAt(k)' = TokenAt(k)
        BY <1>5, <1>7, <2>3, <2>4, <3>1
      <3> QED BY <1>2, <3>1, <3>2 DEF Found, TokenAt
    <2>6. OwnRef(n)' /\ TokenKept(n)
      BY <1>2, <2>1, <2>2, <2>5 DEF OwnRef, TokenKept
    <2>7. PICK l : l = MigratedKey(n) /\ l.scope = n /\ MigratedKey(n)' = l
      BY <1>2, MigratedKeyHome DEF MigratedKey
    <2>8. ASSUME Live(n), rpc[n] \in {"create", "repoint"}, ru[n].ref = mem[n].key
          PROVE  (TokenAt(mem[n].key))' = mem[n].secret.token
      BY <1>2, <2>1, <2>5, <2>8 DEF MigrationSound, TokenAt, Found
    <2>9. ASSUME Live(n), rpc[n] = "repoint", ru[n].ref = mem[n].key
          PROVE  Found(l)' /\ TokenAt(l)' = mem[n].secret.token
      <3>1. Found(l) /\ TokenAt(l) = mem[n].secret.token /\ TokenAt(ru[n].ref) = mem[n].secret.token
        BY <2>1, <2>7, <2>9 DEF MigrationSound
      <3>2. l \in keys => mem[n].secret.token = Incoming.token
        BY <1>7, <2>3, <2>7, <2>9, <3>1
      <3> QED BY <1>5, <3>1, <3>2
    <2>10. MigrationSound(n)'
      <3>1. Found(MigratedKey(n))' <=> Found(l)'
        BY <2>7 DEF Found
      <3>2. (TokenAt(MigratedKey(n)))' = TokenAt(l)'
        BY <2>7 DEF Found, TokenAt
      <3> QED BY <1>2, <2>1, <2>2, <2>8, <2>9, <3>1, <3>2 DEF MigrationSound
    <2> QED BY <2>2, <2>3, <2>5, <2>6, <2>10
  <1>9. Tidy'
    <2>1. \A k \in keys : k.home = OperatorNamespace \/ (k.home \in Tenants /\ k.home = k.scope)
      BY <1>2, <1>6
    <2> QED BY <1>3, <1>4, <2>1, PutTidy
  <1>10. DoomedSound' /\ \A n \in Tenants : ReadSound(n)' /\ SafeSound(n)'
    <2>1. CASE Rest
      BY <2>1, RestSound
    <2>2. CASE done = safe /\ Proceed("writeRUs")
      <3>1. /\ UNCHANGED <<next, cur, safe, doomed, Cleared>> /\ hpc' = "writeRUs" /\ Incoming' = Incoming
            /\ Cleared' = safe
        BY <1>2, <1>3, <2>2, ClearedIsSafe DEF Proceed, Incoming
      <3>2. \A n : (AdminSecretKey(Incoming, n))' = AdminSecretKey(Incoming, n)
        BY <1>2, <3>1 DEF AdminSecretKey
      <3>3. DoomedSound' /\ \A n \in Tenants : ReadSound(n)'
        BY <1>2, <1>3, <3>1, <3>2 DEF DoomedSound, ReadSound
      <3>4. ASSUME NEW n \in Tenants, n \in safe PROVE SafeSound(n)'
        <4>1. PICK k : k = AdminSecretKey(Incoming, n) /\ (AdminSecretKey(Incoming, n))' = k
          BY <3>2
        <4>2. Found(k)' /\ TokenAt(k)' = Incoming.token
          BY <1>5, <2>2, <3>4, <4>1
        <4>3. /\ Found(AdminSecretKey(Incoming, n))'
              /\ (TokenAt(AdminSecretKey(Incoming, n)))' = Incoming.token
          BY <4>1, <4>2 DEF Found, TokenAt
        <4> QED BY <1>8, <3>1, <3>4, <4>3 DEF SafeSound
      <3> QED BY <3>1, <3>3, <3>4 DEF SafeSound
    <2> QED BY <1>1, <2>1, <2>2
  <1> QED BY <1>8, <1>9, <1>10 DEF CredentialsSound, CredentialSound

\* Pointing the objects at the secrets the message brought: the token is the same.
LEMMA WriteRUsKeeps ==
    ASSUME TypeOK, FindingsHold, CredentialsSound, WriteRUs
    PROVE  CredentialsSound' /\ \A n \in Tenants : TokenKept(n)
  <1>1. PICK done \in SUBSET (safe \cap Existing) :
           /\ WriteRUsOf(done)
           /\ (done = safe \cap Existing /\ Proceed("cleanup")) \/ Rest
    BY DEF WriteRUs, PartlyDone, Nack
  <1>2. /\ UNCHANGED <<log, secrets, bound, rpc, mem>> /\ hpc = "writeRUs" /\ bound \in BOOLEAN
        /\ safe \subseteq Tenants
    BY DEF WriteRUs, publisherVars, TypeOK
  <1>3. /\ Incoming \in Messages /\ Provisions(Incoming) /\ Tidy /\ DoomedSound
        /\ cur = NoCur /\ Cleared = safe
    BY <1>2, IncomingType, ClearedIsSafe DEF TypeOK, FindingsHold, CredentialsSound
  <1>4. ASSUME NEW n \in Tenants
        PROVE  /\ OwnRef(n)' /\ MigrationSound(n)' /\ TokenKept(n)
               /\ n \in done /\ Live(n)' => /\ ru'[n].ref = AdminSecretKey(Incoming, n)
                                            /\ (TokenAt(ru[n].ref))' = Incoming.token
    <2>1. OwnRef(n) /\ MigrationSound(n) /\ SafeSound(n)
      BY DEF CredentialsSound, CredentialSound
    <2>2. StoreKept(n)
      BY <1>2 DEF StoreKept, Found, TokenAt
    <2>3. CASE n \notin done \/ ru'[n] = NoRU
      <3>1. ObjectKept(n)
        BY <1>1, <2>3 DEF WriteRUsOf, ObjectKept, Live, Present
      <3> QED BY <1>2, <2>1, <2>2, <2>3, <3>1, CredentialStays, MigrationKept DEF Live, Present
    <2>4. CASE n \in done /\ ru'[n] # NoRU
      <3>1. ru'[n] = Upserted(ru[n], AdminSecretKey(Incoming, n), Incoming.url, stamps[n])
        BY <1>1, <2>4 DEF WriteRUsOf
      <3>2. PICK k : k = AdminSecretKey(Incoming, n) /\ ru'[n].ref = k
        BY <2>4, <3>1 DEF Upserted
      <3>3. k.scope = n /\ (bound => k.home = OperatorNamespace)
        BY <1>2, <1>3, <3>2, AdminSecretKeyHome
      <3>4. Found(k) /\ TokenAt(k) = Incoming.token
        BY <1>2, <1>3, <2>1, <2>4, <3>2 DEF SafeSound
      <3>5. Found(ru[n].ref)' /\ (TokenAt(ru[n].ref))' = Incoming.token
        BY <1>2, <3>2, <3>4 DEF Found, TokenAt
      <3>6. Live(n) => TokenAt(ru[n].ref) = Incoming.token
        BY <1>3, <2>1, <2>4 DEF SafeSound
      <3>7. MigrationSound(n)'
        BY <1>2, <2>1, <3>2, <3>3, ConstantsAssumption DEF MigrationSound
      <3> QED BY <1>1, <2>4, <3>2, <3>3, <3>5, <3>6, <3>7 DEF OwnRef, TokenKept
    <2> QED BY <2>3, <2>4
  <1>5. Tidy'
    BY <1>2, <1>3 DEF Tidy
  <1>6. DoomedSound' /\ \A n \in Tenants : ReadSound(n)' /\ SafeSound(n)'
    <2>1. CASE Rest
      BY <2>1, RestSound
    <2>2. CASE done = safe \cap Existing /\ Proceed("cleanup")
      <3>1. /\ UNCHANGED <<next, cur, safe, doomed, Cleared>> /\ hpc' = "cleanup" /\ Incoming' = Incoming
            /\ Cleared' = safe
        BY <1>2, <1>3, <2>2, ClearedIsSafe DEF Proceed, Incoming
      <3>2. \A n : (AdminSecretKey(Incoming, n))' = AdminSecretKey(Incoming, n)
        BY <1>2, <3>1 DEF AdminSecretKey
      <3>3. ASSUME NEW n \in Tenants, n \in safe PROVE SafeSound(n)'
        <4>1. Live(n)' => n \in done
          BY <1>4, <2>2, <3>3 DEF OwnRef, Live
        <4> QED BY <1>4, <3>1, <3>2, <4>1 DEF SafeSound
      <3> QED BY <1>3, <3>1, <3>2, <3>3 DEF DoomedSound, ReadSound, SafeSound
    <2> QED BY <1>1, <2>1, <2>2
  <1> QED BY <1>4, <1>5, <1>6 DEF CredentialsSound, CredentialSound

\* Every step keeps the invariant and every credential.
LEMMA KeepsCredentials ==
    ASSUME TypeOK, FindingsHold, CredentialsSound, [Next]_vars
    PROVE  CredentialsSound' /\ \A n \in Tenants : TokenKept(n)
  <1> USE DEF publisherVars, clusterVars, workerVars
  <1>1. UNCHANGED log => Longer
    BY DEF TypeOK, Longer
  <1>2. CASE UNCHANGED vars
    BY <1>1, <1>2, PublisherKeeps DEF vars, handlerVars
  <1>3. CASE Owner \/ ReconcileUnleash \/ \E m \in ForeignMessages : OtherPublisher(m)
    <2>1. UNCHANGED <<secrets, bound, rpc, mem>>
      BY <1>3 DEF Owner, ReconcileUnleash, CreateInstance, EditInstance, DeleteInstance, ReconcileSecrets,
                  Publish, SayGoodbye, FinishDeletion, DeletionFails, OtherPublisher, subscribingVars
    <2> QED BY <1>3, <2>1, PublisherSays, PublisherKeeps DEF handlerVars
  <1>4. ASSUME UNCHANGED <<ru, secrets, bound, rpc, mem>>,
               DoomedSound' /\ \A n \in Tenants : ReadSound(n)' /\ SafeSound(n)'
        PROVE  CredentialsSound' /\ \A n \in Tenants : TokenKept(n)
    BY <1>4, ReadingKeeps DEF CredentialsSound, CredentialSound
  <1>5. CASE Ignore \/ SecretMissing \/ NothingSafe \/ ReadFails
    <2>1. Rest /\ UNCHANGED <<ru, secrets, bound, rpc, mem>>
      BY <1>5 DEF Ignore, SecretMissing, NothingSafe, ReadFails, Ack, Nack
    <2> QED BY <1>4, <2>1, RestSound
  <1>6. hpc = "idle" => /\ safe = {} /\ cur = NoCur /\ Cleared = {}
                        /\ \A k \in doomed : k.scope = NoNamespace
    BY ClearedIsSafe DEF FindingsHold, CredentialsSound, DoomedSound
  <1>7. CASE Take \/ Redeliver
    <2>1. /\ UNCHANGED <<ru, secrets, bound, rpc, mem, cur, safe, doomed>>
          /\ hpc = "idle"
      BY <1>7 DEF Take, Redeliver, handlerVars
    <2>2. DoomedSound' /\ \A n \in Tenants : ReadSound(n)' /\ SafeSound(n)'
      BY <1>6, <2>1, ClearedIsSafe, ConstantsAssumption DEF DoomedSound, ReadSound, SafeSound
    <2> QED BY <1>4, <2>1, <2>2
  <1>8. ASSUME NEW ns \in Tenants, ReadRemoteUnleash(ns)
        PROVE  CredentialsSound' /\ \A n \in Tenants : TokenKept(n)
    <2>1. UNCHANGED <<ru, secrets, bound, rpc, mem>>
      BY <1>8 DEF ReadRemoteUnleash
    <2> QED BY <1>4, <1>8, <2>1, ReadRemoteUnleashKeeps
  <1>9. CASE ReadSecret \/ ReadReferences \/ ReadSuperseded
    <2>1. UNCHANGED <<ru, secrets, bound, rpc, mem>>
      BY <1>9, Answers
    <2> QED BY <1>4, <1>9, <2>1, ReadSecretKeeps, LookupsKeep
  <1>10. CASE Crash \/ Redeploy
    <2>1. Rest /\ UNCHANGED <<ru, secrets>> /\ rpc' = [n \in Tenants |-> "idle"]
      BY <1>10 DEF Crash, Redeploy, Restart, Nack
    <2>2. ASSUME NEW n \in Tenants PROVE OwnRef(n)' /\ MigrationSound(n)' /\ TokenKept(n)
      <3>1. ObjectKept(n) /\ StoreKept(n) /\ OwnRef(n)
        BY <2>1 DEF ObjectKept, Live, Present, StoreKept, Found, TokenAt, CredentialsSound, CredentialSound
      <3>2. rpc'[n] = "idle"
        BY <2>1
      <3> QED BY <3>1, <3>2, CredentialStays DEF MigrationSound
    <2>3. Tidy'
      BY <2>1 DEF CredentialsSound, Tidy
    <2> QED BY <2>1, <2>2, <2>3, RestSound DEF CredentialsSound, CredentialSound
  <1> QED
    BY <1>2, <1>3, <1>5, <1>7, <1>8, <1>9, <1>10, WorkerKeeps, DeleteRUsKeeps, DeletingSecretsKeeps,
       WritingSecretsKeeps, WriteRUsKeeps DEF Next, Handle

\* A RemoteUnleash that stays keeps the token its secret holds, whatever the messages,
\* the migration, deletions of secrets, failures, restarts and changes of the secret
\* layout do, in any order: for clusters in which every RemoteUnleash starts with a
\* secret of its own.
THEOREM CredentialsAreKept ==
    ASSUME OwnSecrets
    PROVE  Spec => CredentialKept
  <1> DEFINE Kept == \A ns \in Tenants :
                        Live(ns) /\ Live(ns)' => TokenAt(ru[ns].ref)' = TokenAt(ru[ns].ref)
  <1>1. Init => CredentialsSound
    <2> SUFFICES ASSUME Init PROVE CredentialsSound
      OBVIOUS
    <2>1. PICK c \in InitClusters : ru = c.ru /\ secrets = c.secrets
      BY DEF Init
    <2>2. Tidy /\ \A n \in Tenants : OwnRef(n)
      BY <2>1 DEF OwnSecrets, Tidy, OwnRef, Present, Found
    <2>3. Cleared = {} /\ cur = NoCur /\ doomed = {} /\ \A n \in Tenants : rpc[n] = "idle"
      BY ClearedIsSafe DEF Init, Quiet
    <2> QED BY <2>2, <2>3 DEF CredentialsSound, CredentialSound, DoomedSound, ReadSound, SafeSound,
                              MigrationSound
  <1>2. TypeOK /\ FindingsHold /\ CredentialsSound /\ [Next]_vars => CredentialsSound'
    BY KeepsCredentials
  <1>3. TypeOK /\ FindingsHold /\ CredentialsSound /\ [Next]_vars => [Kept]_vars
    BY KeepsCredentials DEF TokenKept
  <1>4. Spec => [](TypeOK /\ FindingsHold)
    BY TypeCorrect, FindingsAlwaysHold, PTL
  <1>5. Spec => []CredentialsSound
    BY <1>1, <1>2, <1>4, PTL DEF Spec
  <1>6. Spec => [][Kept]_vars
    BY <1>3, <1>4, <1>5, PTL DEF Spec
  <1> QED BY <1>6 DEF CredentialKept
=============================================================================

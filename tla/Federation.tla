----------------------------- MODULE Federation -----------------------------
(***************************************************************************)
(* Federation as a whole: the publisher in the management cluster, Pub/Sub,*)
(* and in the subscribing cluster the federation handler and one           *)
(* RemoteUnleash worker per tenant namespace, all sharing the API server.  *)
(***************************************************************************)
EXTENDS FederationPublisher, FederationSubscriber, RemoteUnleashController

Quiet ==
    /\ hpc = "idle"
    /\ todo = {}
    /\ cur = NoCur
    /\ safe = {}
    /\ stamps = [ns \in Tenants |-> 0]
    /\ doomed = {}
    /\ rpc = [ns \in Tenants |-> "idle"]
    /\ mem = [ns \in Tenants |-> NoMem]

Init ==
    /\ \E c \in InitClusters : unleash = c.unleash /\ ru = c.ru /\ secrets = c.secrets
    /\ log = <<>>
    /\ next = 1
    /\ bound \in InitBound
    /\ Quiet
    /\ woken = [ns \in Tenants |-> Present(ns)]
    /\ disturbed = 0

\* A restart: what was in progress is lost, the message comes again, and every
\* RemoteUnleash is reconciled afresh.
Restart ==
    /\ Nack
    /\ rpc' = [ns \in Tenants |-> "idle"]
    /\ mem' = [ns \in Tenants |-> NoMem]
    /\ woken' = [ns \in Tenants |-> Present(ns)]
    /\ UNCHANGED <<publisherVars, clusterVars>>

Crash ==
    /\ Disturb("crash")
    /\ Restart
    /\ UNCHANGED bound

\* The operator is redeployed with the other secret layout.
Redeploy ==
    /\ Disturb("redeploy")
    /\ Restart
    /\ bound' = ~bound

Next ==
    \/ Owner \/ ReconcileUnleash
    \/ \E m \in ForeignMessages : OtherPublisher(m)
    \/ Handle \/ Redeliver
    \/ \E ns \in Tenants : Reconcile(ns)
    \/ Crash \/ Redeploy

Spec == Init /\ [][Next]_vars

\* Pub/Sub redelivers until a message is acknowledged, controller-runtime requeues
\* until a reconcile succeeds.
Fairness ==
    /\ WF_vars(ReconcileUnleash)
    /\ WF_vars(Handle)
    /\ \A ns \in Tenants : WF_vars(Reconcile(ns))

FairSpec == Spec /\ Fairness

-----------------------------------------------------------------------------
(* Properties                                                              *)

TypeOK ==
    /\ unleash \in Unleashes
    /\ log \in Seq(Messages)
    /\ next \in 1 .. (Len(log) + 1)
    /\ ru \in [Tenants -> RemoteUnleashes]
    /\ SecretStore(secrets)
    /\ bound \in BOOLEAN
    /\ hpc \in {"idle", "examining", "deleteSecrets", "writeRUs", "cleanup"}
    /\ hpc # "idle" => next <= Len(log)
    /\ todo \subseteq Tenants
    /\ cur = NoCur \/ cur \in [ns : Tenants, ref : Keys, ask : {"secret", "references", "superseded"}]
    /\ safe \subseteq Tenants
    /\ stamps \in [Tenants -> Nat]
    /\ doomed \subseteq Keys
    /\ rpc \in [Tenants -> {"idle", "call", "migrate", "stamp", "create", "repoint", "delete"}]
    /\ woken \in [Tenants -> BOOLEAN]
    /\ mem \in [Tenants -> [key : Keys, url : AnyUrl, secret : AdminSecrets]]
    /\ disturbed \in 0 .. MaxDisturbances

Placed ==
    [ns \in Tenants |-> IF Live(ns) THEN [url |-> ru[ns].url, stamp |-> ru[ns].stamp] ELSE NoRU]
PutsIn(m, ns) == Provisions(m) /\ ns \in TenantNamespaces(m)
TakesFrom(m, ns) == Retracts(m) /\ ns \in TenantNamespaces(m)

P == INSTANCE Placement WITH
        Places <- Tenants, Nowhere <- NoRU, Puts <- PutsIn, Takes <- TakesFrom, placed <- Placed

\* Handler, workers, migration and restarts together do nothing but place what a
\* message places and retract what a newer message retracts: no replay of an older
\* message ends a placement, none rolls its stamp back (remoteunleash_controller.go,
\* the removal loop and federationLastAppliedPublishTime).
ImplementsPlacement == P!Spec

\* What the handler found when it examined a namespace: the URL is the message's, and
\* the message is newer, or the stamp it will write is.
Sound(ns) ==
    /\ ns \in TenantNamespaces(Incoming)
    /\ Retracts(Incoming) =>
          (Present(ns) => ru[ns].url = Incoming.url /\ ru[ns].stamp < next)
    /\ Provisions(Incoming) =>
          /\ stamps[ns] \in next .. Len(log)
          /\ Present(ns) => ru[ns].url = Incoming.url /\ ru[ns].stamp <= stamps[ns]

\* What the handler found still holds when it acts on it, however many steps of the
\* workers, the migration and the publisher come between (the checks of
\* FederationSubscribe and its bulk writes are separate calls to the API server).
FindingsHold ==
    /\ \A ns \in Tenants : ru[ns].stamp <= Len(log)
    /\ hpc = "idle" => safe = {}
    /\ hpc # "examining" => cur = NoCur
    /\ cur.ask \in {"references", "superseded"} => Provisions(Incoming)
    /\ hpc # "idle" =>
          /\ Provisions(Incoming) \/ Retracts(Incoming)
          /\ todo \subseteq TenantNamespaces(Incoming)
    /\ hpc = "deleteSecrets" => Retracts(Incoming)
    /\ hpc \in {"writeRUs", "cleanup"} => Provisions(Incoming)
    /\ \A ns \in safe : Sound(ns)
    /\ cur # NoCur => Sound(cur.ns)

\* A RemoteUnleash that stays keeps its credential: whatever moves its secret, the
\* token it leads to never changes and never goes missing.
CredentialKept ==
    [][\A ns \in Tenants :
          Live(ns) /\ Live(ns)' => TokenAt(ru[ns].ref)' = TokenAt(ru[ns].ref)]_vars

\* The message at hand has this namespace to clear: an older message placed its own
\* credential there.
Owed(ns) ==
    /\ Live(ns)
    /\ ru[ns].url = Incoming.url /\ ru[ns].stamp < next
    /\ TokenAt(ru[ns].ref) = Incoming.token /\ Incoming.token # NoToken

\* Acknowledging a retraction means it was carried out: where the message's own
\* credential was placed by an older message, nothing is placed any more
\* ("So removals apply everywhere").
RemovalApplies ==
    [][next' = next + 1 /\ Retracts(Incoming) =>
          \A ns \in TenantNamespaces(Incoming) : ~Owed(ns)]_vars

\* What the last message says of a namespace is so.
Mirrored(m, ns) ==
    /\ Provisions(m) =>
          Live(ns) /\ ru[ns].url = m.url /\ TokenAt(ru[ns].ref) = m.token
    /\ Retracts(m) => ~Present(ns)

\* Once nothing disturbs it, the cluster takes in every message and ends up as the
\* last one says.
FederationSettles ==
    <>[](/\ next > Len(log)
         /\ log # <<>> => \A ns \in TenantNamespaces(log[Len(log)]) \cap Existing :
                             Mirrored(log[Len(log)], ns))

\* A message is not redelivered for ever.
EveryMessageSettles == <>[](next > Len(log))

\* A placement the instance would accept is found connected and stays so.
Connects ==
    <>[](\A ns \in Tenants :
            Live(ns) /\ Accepted(ru[ns].url, TokenAt(ru[ns].ref)) => ru[ns].status = "connected")

\* With the migration switched on, no RemoteUnleash whose credential works stays on a
\* managed secret its tenant can read, unless that secret is for another URL.
MigrationSettles ==
    <>[](\A ns \in Tenants :
            /\ Live(ns) /\ MigrationEnabled
            /\ Accepted(ru[ns].url, TokenAt(ru[ns].ref))
            /\ secrets[ru[ns].ref].managed
            /\ secrets[ru[ns].ref].url \in {NoUrl, ru[ns].url}
            => ru[ns].ref.home = OperatorNamespace)
=============================================================================

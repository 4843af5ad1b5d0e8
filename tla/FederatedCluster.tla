-------------------------- MODULE FederatedCluster --------------------------
(***************************************************************************)
(* Federation of one Unleash instance, named once and for all, from the    *)
(* management cluster to one subscribing cluster: the state, the messages   *)
(* and the objects.                                                        *)
(*                                                                         *)
(* The management cluster's operator publishes where the instance should   *)
(* be served.  The subscribing cluster's operator turns that into one      *)
(* RemoteUnleash and one admin secret per tenant namespace.  All messages  *)
(* carry the instance's name as ordering key, so the topic is a sequence,  *)
(* and a position in it stands for the publish time.                       *)
(***************************************************************************)
EXTENDS Integers, Sequences, FiniteSets

CONSTANTS
    Tenants,                      \* tenant namespaces of the subscribing cluster
    Existing,                     \* those of them that exist
    OperatorNamespace,
    Urls,                         \* the URLs an instance may be reached at
    Nonces,                       \* what spec.federation.secretNonce may be set to
    InstanceSpecs,                \* what spec.federation and the API host may be edited to
    ForeignMessages,              \* messages under the same key from other or older publishers
    InitClusters,                 \* objects older operators left: records with ru and secrets
    InitBound,                    \* values FEATURE_FEDERATION_NAMESPACE_BOUND_SECRETS may start with
    AllowLegacyNameBoundSecrets,
    Disturbances,                 \* the kinds of disturbance that happen
    MaxDisturbances               \* how many happen in all

VARIABLES
    \* the management cluster
    unleash,      \* the Unleash object, its operator secret and status.lastPublishedHash
    \* Pub/Sub
    log,          \* the messages published, oldest first
    next,         \* the first message that is not acknowledged
    \* the subscribing cluster
    ru,           \* the RemoteUnleash of each tenant namespace
    secrets,      \* admin secrets by key
    bound,        \* the feature flag the operator runs with
    \* the federation handler
    hpc,          \* how far it is with message next
    todo,         \* namespaces it has yet to examine
    cur,          \* the namespace it examines, the secret named there, what it asks next
    safe,         \* namespaces it found safe to act on
    stamps,       \* the stamp it will write in each
    doomed,       \* keys of the secrets it will delete
    \* the RemoteUnleash controller, one worker per object
    rpc,          \* how far its reconcile is
    woken,        \* a reconcile is due
    mem,          \* what the reconcile in progress remembers
    disturbed     \* disturbances so far

publisherVars == <<unleash, log>>
clusterVars == <<ru, secrets>>
handlerVars == <<hpc, todo, cur, safe, stamps, doomed>>
workerVars == <<rpc, woken, mem>>
vars == <<unleash, log, next, ru, secrets, bound, handlerVars, workerVars, disturbed>>

-----------------------------------------------------------------------------
(* Values that stand for an empty string or a missing object *)
NoToken == 0
NoUrl == "no url"
NoNamespace == "no namespace"
NoNonce == <<>>

\* A secret's namespace, the namespace in its name, and the nonce in its name
SecretKey(home, scope, nonce) == [home |-> home, scope |-> scope, nonce |-> nonce]
NoKey == SecretKey(NoNamespace, NoNamespace, NoNonce)

NoRU ==
    [ref |-> NoKey, url |-> NoUrl, stamp |-> 0, deleting |-> FALSE,
     finalizer |-> FALSE, status |-> "unset"]

Present(ns) == ru[ns] # NoRU
Live(ns) == Present(ns) /\ ~ru[ns].deleting
Found(key) == key \in DOMAIN secrets
TokenAt(key) == IF Found(key) THEN secrets[key].token ELSE NoToken

-----------------------------------------------------------------------------
(* Types and assumptions                                                   *)

Clusters == SUBSET {"own", "case", "other"}
AnyUrl == Urls \cup {NoUrl}
AnyNonce == Nonces \cup {NoNonce} \cup (AnyUrl \X Nat)

Specs ==
    [enabled : BOOLEAN, url : AnyUrl, nonce : Nonces \cup {NoNonce},
     namespaces : SUBSET (Tenants \cup {OperatorNamespace}), clusters : Clusters]
Messages ==
    [status : {"provisioned", "removed", "unknown"}, token : Nat, url : AnyUrl,
     nonce : Nonces \cup {NoNonce},
     namespaces : SUBSET (Tenants \cup {OperatorNamespace}), clusters : Clusters]
Keys ==
    [home : Tenants \cup {OperatorNamespace, NoNamespace}, scope : Tenants \cup {NoNamespace},
     nonce : AnyNonce]
AdminSecrets ==
    [token : Nat, url : AnyUrl, auth : Tenants \cup {NoNamespace}, managed : BOOLEAN]
RemoteUnleashes ==
    [ref : Keys, url : AnyUrl, stamp : Nat, deleting : BOOLEAN, finalizer : BOOLEAN,
     status : {"unset", "failed", "connected", "disconnected"}]
Unleashes ==
    [phase : {"absent", "live", "deleting", "cleaning"}, token : Nat, spec : Specs,
     hash : Messages, life : Nat]

SecretStore(s) == DOMAIN s \subseteq Keys /\ \A k \in DOMAIN s : s[k] \in AdminSecrets

ASSUME ConstantsAssumption ==
    /\ OperatorNamespace \notin Tenants /\ NoNamespace \notin Tenants
    /\ InstanceSpecs \subseteq Specs
    /\ ForeignMessages \subseteq Messages
    /\ InitBound \subseteq BOOLEAN
    /\ AllowLegacyNameBoundSecrets \in BOOLEAN
    /\ MaxDisturbances \in Nat

\* Stamps from before the log count as none: every message of the log is newer.
ASSUME InitAssumption ==
    \A c \in InitClusters :
        /\ c.unleash \in Unleashes
        /\ c.ru \in [Tenants -> RemoteUnleashes]
        /\ \A ns \in Tenants : c.ru[ns].stamp = 0
        /\ SecretStore(c.secrets)

-----------------------------------------------------------------------------
(* Messages.  The entries of a cluster list are told apart only as far as  *)
(* the subscriber does: this cluster's name, the same in another case,     *)
(* another cluster, blank.                                                 *)

Message(status, spec, token) ==
    [status |-> status, token |-> token, url |-> spec.url, nonce |-> spec.nonce,
     namespaces |-> spec.namespaces, clusters |-> spec.clusters]

\* ComputeInstanceHash covers everything but the status
InstanceHash(spec, token) == Message("provisioned", spec, token)

\* mutant of TenantNamespaces: only blanks go
NamespacesUnfiltered(m) == m.namespaces
\* What is left of the list: blanks, the operator's and reserved namespaces go
TenantNamespaces(m) == m.namespaces \cap Tenants

Named(m) == "own" \in m.clusters
Excluded(m) == "other" \in m.clusters /\ m.clusters \cap {"own", "case"} = {}

Provisions(m) == m.status = "provisioned" /\ Named(m) /\ TenantNamespaces(m) # {}
Retracts(m) ==
    /\ TenantNamespaces(m) # {}
    /\ \/ m.status = "removed" /\ m.token # NoToken
       \/ m.status = "provisioned" /\ Excluded(m)

\* Without nonce and token the secret cannot be named: nacked for ever
Nameable(m) == m.nonce # NoNonce \/ m.token # NoToken

\* The name a message's secret gets: its own nonce or one derived from URL and token
SecretNonce(m) == IF m.nonce # NoNonce THEN m.nonce ELSE <<m.url, m.token>>
BoundKey(ns, nonce) == SecretKey(OperatorNamespace, ns, nonce)
AdminSecretKey(m, ns) ==
    IF bound THEN BoundKey(ns, SecretNonce(m)) ELSE SecretKey(ns, ns, SecretNonce(m))

\* OperatorSecretForUnleash with the authorized-namespace annotation
AdminSecret(url, token, ns) == [token |-> token, url |-> url, auth |-> ns, managed |-> TRUE]

-----------------------------------------------------------------------------
(* Writes.  A Delete of an object with a finalizer only marks it.  An      *)
(* Update replaces the finalizers with those of the object that is sent,   *)
(* and the handler's has none: one that was marked is gone.                *)

Deleted(r) == IF r.finalizer THEN [r EXCEPT !.deleting = TRUE] ELSE NoRU

\* mutant of Upserted: the update does not carry the annotation
UpsertedUnstamped(r, key, url, stamp) ==
    IF r # NoRU /\ r.deleting
    THEN NoRU
    ELSE [ref |-> key, url |-> url, stamp |-> r.stamp, deleting |-> FALSE,
          finalizer |-> FALSE, status |-> r.status]
Upserted(r, key, url, stamp) ==
    IF r # NoRU /\ r.deleting
    THEN NoRU
    ELSE [ref |-> key, url |-> url, stamp |-> stamp, deleting |-> FALSE,
          finalizer |-> FALSE, status |-> r.status]

PutSecrets(keys, url, token) ==
    [k \in (DOMAIN secrets) \cup keys |->
        IF k \in keys THEN AdminSecret(url, token, k.scope) ELSE secrets[k]]
DropSecrets(keys) == [k \in (DOMAIN secrets) \ keys |-> secrets[k]]

\* mutant of ReferencedByOther: the RemoteUnleash itself counts
ReferencedByAny(key, ns) == \E other \in Tenants : Present(other) /\ ru[other].ref = key
ReferencedByOther(key, ns) == \E other \in Tenants \ {ns} : Present(other) /\ ru[other].ref = key
Referenced(key) == \E ns \in Tenants : Present(ns) /\ ru[ns].ref = key

-----------------------------------------------------------------------------
Disturb(kind) ==
    /\ kind \in Disturbances
    /\ disturbed < MaxDisturbances
    /\ disturbed' = disturbed + 1
=============================================================================

----------------------------- MODULE ApiTokens -----------------------------
(***************************************************************************)
(* The ApiToken controller (internal/controller/apitoken_controller.go):   *)
(* one ApiToken object, the tokens that carry its name in the Unleash      *)
(* instances it may point at, and the Secret its application reads.        *)
(*                                                                         *)
(* Tokens in Unleash are immutable and their name is not unique: a change  *)
(* of the spec is a new token, a new Secret, and the deletion of the old   *)
(* token.  Every call to Unleash and to the API server is a step of its    *)
(* own; a call can fail, a failed call may still have had its effect, and  *)
(* the operator can crash between any two.                                 *)
(***************************************************************************)
EXTENDS Integers, FiniteSets, Sequences

CONSTANTS
    Unleashes,            \* the Unleash and RemoteUnleash objects
    Specs,                \* the specs users may write
    UpdateEnabled,        \* ApiTokenUpdateEnabled, of the operator's config
    Disturbances,         \* the kinds of disturbance that happen
    MaxDisturbances       \* and how many of them do

\* spec.type and spec.environment are compared alike: `env' is both.
SpecType == [unleash : Unleashes, env : STRING, projects : Seq(STRING)]

\* "error": a call fails.  "refused": Unleash answers 404 or 405.  "admin": someone
\* deletes a token in Unleash.  "outage": an Unleash object changes state.
Kinds == {"apply", "edit", "delete", "crash", "error", "refused", "admin", "outage"}

ASSUME SpecsAssumption == Specs \subseteq SpecType
ASSUME ConfigAssumption == UpdateEnabled \in BOOLEAN
ASSUME DisturbancesAssumption == Disturbances \subseteq Kinds /\ MaxDisturbances \in Nat

VARIABLES
    \* the ApiToken object
    spec,
    exists,
    finalizer,
    deleting,     \* is deletionTimestamp set?
    overdue,      \* and older than apiTokenFinalizerCleanupDeadline?
    created,      \* status.created
    failed,       \* status.failed
    \* the Secret: the token it holds, NoToken when there is no Secret
    secret,
    \* Unleash
    state,        \* of each Unleash object
    tokens,       \* the tokens with this ApiToken's name
    nextId,       \* the secret of the next one, in the order of created_at
    \* the controller's worker
    pc,
    seen,         \* the spec the pass works from
    current,      \* apiToken, of the pass
    obsolete,     \* the tokens the pass has yet to delete
    \* the bound
    disturbances

objectVars == <<spec, exists, finalizer, deleting, overdue>>
statusVars == <<created, failed>>
unleashVars == <<state, tokens, nextId>>
workerVars == <<pc, seen, current, obsolete>>
vars == <<objectVars, statusVars, secret, unleashVars, workerVars, disturbances>>

NoToken == 0
States == {"missing", "unready", "ready"}  \* "missing": it, or its admin credentials
Stages == {"ready", "lookup", "create", "store", "prune", "cleanup", "purge", "release"}

TokenType == [id : Nat \ {0}, at : Unleashes, env : STRING, projects : Seq(STRING)]

Init ==
    /\ spec \in Specs
    /\ exists = FALSE /\ finalizer = FALSE /\ deleting = FALSE /\ overdue = FALSE
    /\ created = FALSE /\ failed = FALSE
    /\ secret = NoToken
    /\ state = [u \in Unleashes |-> "ready"]
    /\ tokens = {}
    /\ nextId = 1
    /\ pc = "ready" /\ seen = spec /\ current = NoToken /\ obsolete = {}
    /\ disturbances = 0

Disturb(kind) ==
    /\ kind \in Disturbances
    /\ disturbances < MaxDisturbances
    /\ disturbances' = disturbances + 1

-----------------------------------------------------------------------------
(* The worker                                                              *)

\* utils.StringSliceEquals: as long, and everything in p is somewhere in q.
StringSliceEquals(p, q) ==
    /\ Len(p) = Len(q)
    /\ \A i \in DOMAIN p : \E j \in DOMAIN q : p[i] = q[j]

\* ApiToken.IsEqual
IsEqual(s, t) == s.env = t.env /\ StringSliceEquals(s.projects, t.projects)

EndPass == pc' = "ready" /\ seen' = spec /\ current' = NoToken /\ obsolete' = {}
GoTo(stage) == pc' = stage /\ UNCHANGED <<seen, current, obsolete>>

\* updateStatusFailed, whose own write may fail too, and the error after it
FailPass ==
    /\ failed' \in {failed, TRUE}
    /\ EndPass
    /\ UNCHANGED <<objectVars, created, secret, state>>

\* Only the first call of a pass comes after a look at the Unleash object (IsReady);
\* the later ones fail or not whatever has become of it since.
LooksAtUnleash == pc \in {"lookup", "cleanup"}
CallFails == (state[seen.unleash] # "ready" /\ UNCHANGED disturbances) \/ Disturb("error")
CallSucceeds ==
    /\ LooksAtUnleash => state[seen.unleash] = "ready"
    /\ UNCHANGED disturbances

AddFinalizer ==
    /\ pc = "ready"
    /\ exists /\ ~finalizer
    /\ finalizer' = TRUE
    /\ UNCHANGED <<spec, exists, deleting, overdue, statusVars, secret, unleashVars,
                   workerVars, disturbances>>

Observe ==
    /\ pc = "ready"
    /\ exists /\ finalizer
    /\ pc' = IF deleting THEN "cleanup" ELSE "lookup"
    /\ seen' = spec
    /\ UNCHANGED <<objectVars, statusVars, secret, unleashVars, current, obsolete,
                   disturbances>>

\* The tokens GetAPITokensByName returns
Found == {t \in tokens : t.at = seen.unleash}

\* The loop over them, newest first: the first that matches is the one; with
\* updates disabled the first that there is will do.  The others are outdated.
CandidatesInSecret ==  \* mutant of Candidates: only trusts the token it has stored
    {t \in Found : t.id = secret /\ (UpdateEnabled => IsEqual(seen, t))}
CandidatesMatching == {t \in Found : IsEqual(seen, t)}  \* and this one ignores the flag
Candidates == {t \in Found : UpdateEnabled => IsEqual(seen, t)}
Newest(t, S) == t \in S /\ \A v \in S : v.id <= t.id

\* Mutant of List: tokens an earlier pass failed to delete are not collected.
ListForgetsLeftovers ==
    /\ pc = "lookup"
    /\ CallSucceeds
    /\ \/ Candidates = {} /\ pc' = "create" /\ current' = NoToken /\ obsolete' = Found
       \/ \E t \in Found :
             /\ Newest(t, Candidates)
             /\ pc' = "store" /\ current' = t.id /\ obsolete' = {}
    /\ UNCHANGED <<objectVars, statusVars, secret, unleashVars, seen>>

List ==
    /\ pc = "lookup"
    /\ CallSucceeds
    /\ \/ Candidates = {} /\ pc' = "create" /\ current' = NoToken /\ obsolete' = Found
       \/ \E t \in Found :
             /\ Newest(t, Candidates)
             /\ pc' = "store"
             /\ current' = t.id
             /\ obsolete' = IF UpdateEnabled THEN Found \ {t} ELSE {}
    /\ UNCHANGED <<objectVars, statusVars, secret, unleashVars, seen>>

\* getUnleashInstance, IsReady, apiClient or GetAPITokensByName
ListFails ==
    /\ pc = "lookup"
    /\ CallFails
    /\ FailPass
    /\ UNCHANGED <<tokens, nextId>>

\* CreateAPIToken, on the side of Unleash
Created ==
    /\ tokens' = tokens \cup {[id |-> nextId, at |-> seen.unleash,
                               env |-> seen.env, projects |-> seen.projects]}
    /\ nextId' = nextId + 1

Create ==
    /\ pc = "create"
    /\ CallSucceeds
    /\ Created
    /\ current' = nextId
    /\ pc' = "store"
    /\ UNCHANGED <<objectVars, statusVars, secret, state, seen, obsolete>>

\* Mutant of CreateFails: the error is recorded but not returned, and the pass goes on.
CreateFailsUnnoticed ==
    /\ pc = "create"
    /\ CallFails
    /\ Created \/ UNCHANGED <<tokens, nextId>>
    /\ failed' \in {failed, TRUE}
    /\ GoTo("store")
    /\ UNCHANGED <<objectVars, created, secret, state>>

\* The answer may be lost on the way back.
CreateFails ==
    /\ pc = "create"
    /\ CallFails
    /\ Created \/ UNCHANGED <<tokens, nextId>>
    /\ FailPass

\* Mutant of StoreSecret: leaves a Secret that is there as it is.
StoreSecretOnce ==
    /\ pc = "store"
    /\ secret' = IF secret = NoToken THEN current ELSE secret
    /\ GoTo("prune")
    /\ UNCHANGED <<objectVars, statusVars, unleashVars, disturbances>>

\* ApiTokenSecret, Update, and Create when there is none
StoreSecret ==
    /\ pc = "store"
    /\ secret' = current
    /\ GoTo("prune")
    /\ UNCHANGED <<objectVars, statusVars, unleashVars, disturbances>>

StoreSecretFails ==
    /\ pc = "store"
    /\ Disturb("error")
    /\ FailPass
    /\ UNCHANGED <<tokens, nextId>>

\* DeleteApiToken, on the side of Unleash: a token that is gone is a 404, or fine.
Delete(t) == tokens' = tokens \ {t} /\ UNCHANGED <<state, nextId>>

Prune ==
    /\ pc = "prune"
    /\ CallSucceeds
    /\ \E t \in obsolete : Delete(t) /\ obsolete' = obsolete \ {t}
    /\ UNCHANGED <<objectVars, statusVars, secret, pc, seen, current>>

PruneFails ==
    /\ pc = "prune"
    /\ obsolete # {}
    /\ \/ CallFails /\ UNCHANGED tokens
       \/ CallFails /\ \E t \in obsolete : tokens' = tokens \ {t}
       \/ ~(obsolete \subseteq tokens) /\ UNCHANGED <<tokens, disturbances>>
    /\ FailPass
    /\ UNCHANGED nextId

\* updateStatusSuccess
Succeed ==
    /\ pc = "prune"
    /\ obsolete = {}
    /\ created' = TRUE
    /\ failed' = FALSE
    /\ EndPass
    /\ UNCHANGED <<objectVars, secret, unleashVars, disturbances>>

-----------------------------------------------------------------------------
(* Deletion: cleanupTokenInUnleash, doFinalizerOperationsForToken          *)

\* Mutant of CleanupFails: waits for Unleash for as long as it takes.
CleanupFailsForGood ==
    /\ pc \in {"cleanup", "purge"}
    /\ ~(pc = "cleanup" /\ state[seen.unleash] = "missing")
    /\ CallFails
    /\ EndPass
    /\ UNCHANGED <<objectVars, statusVars, secret, unleashVars>>

\* An error ends the pass, and is passed over once the deadline has elapsed.
CleanupFails ==
    /\ pc \in {"cleanup", "purge"}
    /\ ~(pc = "cleanup" /\ state[seen.unleash] = "missing")
    /\ CallFails
    /\ UNCHANGED tokens \/ (pc = "purge" /\ \E t \in obsolete : tokens' = tokens \ {t})
    /\ IF overdue THEN GoTo("release") ELSE EndPass
    /\ UNCHANGED <<objectVars, statusVars, secret, state, nextId>>

\* The instance or its credentials are gone.
CleanupSkipped ==
    /\ pc = "cleanup"
    /\ state[seen.unleash] = "missing"
    /\ GoTo("release")
    /\ UNCHANGED <<objectVars, statusVars, secret, unleashVars, disturbances>>

\* Mutant of CleanupList: only goes after the token the Secret holds.
CleanupListStored ==
    /\ pc = "cleanup"
    /\ CallSucceeds
    /\ obsolete' = {t \in Found : t.id = secret}
    /\ pc' = "purge"
    /\ UNCHANGED <<objectVars, statusVars, secret, unleashVars, seen, current>>

CleanupList ==
    /\ pc = "cleanup"
    /\ CallSucceeds
    /\ obsolete' = Found
    /\ pc' = "purge"
    /\ UNCHANGED <<objectVars, statusVars, secret, unleashVars, seen, current>>

Purge ==
    /\ pc = "purge"
    /\ CallSucceeds
    /\ \E t \in obsolete : Delete(t) /\ obsolete' = obsolete \ {t}
    /\ UNCHANGED <<objectVars, statusVars, secret, pc, seen, current>>

\* isTerminalTokenCleanupError: a 404 or 405 ends the cleanup, whatever is left.
CleanupRefused ==
    /\ \/ pc = "cleanup" /\ state[seen.unleash] = "ready" /\ Disturb("refused")
       \/ pc = "purge" /\ Disturb("refused")
       \/ pc = "purge" /\ ~(obsolete \subseteq tokens) /\ CallSucceeds
    /\ GoTo("release")
    /\ UNCHANGED <<objectVars, statusVars, secret, unleashVars>>

PurgeDone ==
    /\ pc = "purge"
    /\ obsolete = {}
    /\ GoTo("release")
    /\ UNCHANGED <<objectVars, statusVars, secret, unleashVars, disturbances>>

\* The finalizer goes, with it the object, and with its owner the Secret.
Release ==
    /\ pc = "release"
    /\ exists' = FALSE
    /\ finalizer' = FALSE
    /\ deleting' = FALSE
    /\ created' = FALSE
    /\ failed' = FALSE
    /\ secret' = NoToken
    /\ EndPass
    /\ UNCHANGED <<spec, overdue, unleashVars, disturbances>>

-----------------------------------------------------------------------------
(* Users, administrators of Unleash, time and faults                       *)

Apply ==
    /\ Disturb("apply")
    /\ ~exists
    /\ exists' = TRUE
    /\ overdue' = FALSE
    /\ \E s \in Specs : spec' = s
    /\ UNCHANGED <<finalizer, deleting, statusVars, secret, unleashVars, workerVars>>

Edit ==
    /\ Disturb("edit")
    /\ exists /\ ~deleting
    /\ \E s \in Specs : s # spec /\ spec' = s
    /\ UNCHANGED <<exists, finalizer, deleting, overdue, statusVars, secret,
                   unleashVars, workerVars>>

\* kubectl delete: at once without a finalizer, else a deletionTimestamp
Remove ==
    /\ Disturb("delete")
    /\ exists /\ ~deleting
    /\ exists' = finalizer
    /\ deleting' = finalizer
    /\ UNCHANGED <<spec, finalizer, overdue, statusVars, secret, unleashVars, workerVars>>

DeadlinePasses ==
    /\ deleting /\ ~overdue
    /\ overdue' = TRUE
    /\ UNCHANGED <<spec, exists, finalizer, deleting, statusVars, secret, unleashVars,
                   workerVars, disturbances>>

Outage ==
    /\ Disturb("outage")
    /\ \E u \in Unleashes, s \in States : s # state[u] /\ state' = [state EXCEPT ![u] = s]
    /\ UNCHANGED <<objectVars, statusVars, secret, tokens, nextId, workerVars>>

AdminDeletes ==
    /\ Disturb("admin")
    /\ \E t \in tokens : Delete(t)
    /\ UNCHANGED <<objectVars, statusVars, secret, workerVars>>

Crash ==
    /\ Disturb("crash")
    /\ pc # "ready"
    /\ EndPass
    /\ UNCHANGED <<objectVars, statusVars, secret, unleashVars>>

Reconcile ==
    \/ AddFinalizer \/ Observe
    \/ List \/ ListFails \/ Create \/ CreateFails \/ StoreSecret \/ StoreSecretFails
    \/ Prune \/ PruneFails \/ Succeed
    \/ CleanupFails \/ CleanupSkipped \/ CleanupList \/ Purge \/ CleanupRefused
    \/ PurgeDone \/ Release

Environment ==
    Apply \/ Edit \/ Remove \/ DeadlinePasses \/ Outage \/ AdminDeletes \/ Crash

Next == Reconcile \/ Environment

Spec == Init /\ [][Next]_vars

\* Every pass is requeued: by the error it returns, or after an hour.  Time passes.
FairSpec == Spec /\ WF_vars(Reconcile) /\ WF_vars(DeadlinePasses)

-----------------------------------------------------------------------------
(* Properties                                                              *)

FlagsOK ==
    /\ exists \in BOOLEAN /\ finalizer \in BOOLEAN /\ deleting \in BOOLEAN
    /\ overdue \in BOOLEAN /\ created \in BOOLEAN /\ failed \in BOOLEAN

\* Every variable holds what it should; a Secret only ever holds a token that
\* Unleash has handed out, and a pass that writes one has a token to write.
TypeOK ==
    /\ FlagsOK
    /\ spec \in Specs
    /\ nextId \in Nat \ {0}
    /\ secret \in 0 .. nextId - 1
    /\ state \in [Unleashes -> States]
    /\ tokens \subseteq TokenType
    /\ pc \in Stages
    /\ seen \in Specs
    /\ current \in 0 .. nextId - 1
    /\ pc \in {"store", "prune"} => current # NoToken
    /\ obsolete \subseteq TokenType
    /\ disturbances \in 0 .. MaxDisturbances

SecretWorks == \E t \in tokens : t.id = secret

\* Replacing a token never takes away the only one that works: while the object is
\* not being deleted, no step of the controller turns a Secret with a valid token
\* into one without, whatever call fails and wherever the operator crashes.
RotationKeepsSecretWorking ==
    [][SecretWorks /\ workerVars' # workerVars => SecretWorks' \/ deleting]_vars

\* Token names are not unique, so a retried creation could pile tokens up.  It does
\* not: however creations, deletions and Secret writes fail, an instance never
\* holds two tokens of this object that grant the same.
NoDuplicates ==
    \A t, v \in tokens :
        t.at = v.at /\ t.env = v.env /\ t.projects = v.projects => t = v

\* "prevent deletion of outdated tokens and subsequent creation of new tokens": with
\* updates disabled there is never a second token at one instance, however often the
\* spec changes and creations are retried.
FrozenMeansOne ==
    ~UpdateEnabled => \A t, v \in tokens : t.at = v.at => t = v

\* "cleanupTokenInUnleash deletes the token during finalization when Unleash is
\* reachable": an object that is released before its cleanup deadline leaves no token
\* behind, not even one of an earlier object of its name.
GoneMeansClean ==
    [][deleting /\ ~exists' /\ ~overdue => tokens' = {}]_vars

Provisioned ==
    /\ created /\ ~failed
    /\ \E t \in tokens :
          /\ t.id = secret
          /\ t.at = spec.unleash
          /\ IsEqual(spec, t)
          /\ \A v \in tokens : v.at = spec.unleash => v = t

\* Whatever happened before, an ApiToken whose Unleash is there ends up with one
\* token in it, the one its spec asks for, and a Secret that holds it.
Settles ==
    <>[](exists /\ ~deleting /\ state[spec.unleash] = "ready" => Provisioned)

\* Deletion always ends: an instance that is gone, unreachable or refuses holds it
\* up no longer than the deadline.
DeletionEnds == deleting ~> ~exists
=============================================================================

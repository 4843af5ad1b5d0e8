------------------------- MODULE FederationPublisher -------------------------
(***************************************************************************)
(* The management cluster's side: the part of UnleashReconciler.Reconcile  *)
(* that looks after the operator secret, publishes the instance when what  *)
(* it would publish differs from what it last recorded, and says goodbye   *)
(* when the instance is deleted.                                           *)
(***************************************************************************)
EXTENDS FederatedCluster

NoSpec ==
    [enabled |-> FALSE, url |-> NoUrl, nonce |-> NoNonce, namespaces |-> {}, clusters |-> {}]
NoHash == InstanceHash(NoSpec, NoToken)

subscribingVars == <<next, clusterVars, bound, handlerVars, workerVars>>

Federated == unleash.spec.enabled /\ unleash.token # NoToken
CurrentHash == InstanceHash(unleash.spec, unleash.token)
Send(m) == log' = Append(log, m)

-----------------------------------------------------------------------------
(* The life of an instance, in the hands of its owner                      *)

CreateInstance(spec) ==
    /\ unleash.phase = "absent"
    /\ Disturb("create")
    /\ unleash' = [phase |-> "live", token |-> NoToken, spec |-> spec, hash |-> NoHash,
                   life |-> unleash.life + 1]
    /\ UNCHANGED <<log, subscribingVars>>

EditInstance(spec) ==
    /\ unleash.phase = "live"
    /\ spec # unleash.spec
    /\ Disturb("edit")
    /\ unleash' = [unleash EXCEPT !.spec = spec]
    /\ UNCHANGED <<log, subscribingVars>>

DeleteInstance ==
    /\ unleash.phase = "live"
    /\ Disturb("delete")
    /\ unleash' = [unleash EXCEPT !.phase = "deleting"]
    /\ UNCHANGED <<log, subscribingVars>>

-----------------------------------------------------------------------------
(* Reconciling it                                                          *)

\* A missing operator secret gets a fresh admin key.
ReconcileSecrets ==
    /\ unleash.phase = "live"
    /\ unleash.token = NoToken
    /\ unleash' = [unleash EXCEPT !.token = unleash.life]
    /\ UNCHANGED <<log, disturbed, subscribingVars>>

\* The message goes out first and its hash is recorded second; the record may fail.
Publish ==
    /\ unleash.phase = "live"
    /\ Federated
    /\ unleash.hash # CurrentHash
    /\ Send(Message("provisioned", unleash.spec, unleash.token))
    /\ \/ unleash' = [unleash EXCEPT !.hash = CurrentHash] /\ UNCHANGED disturbed
       \/ Disturb("untracked") /\ UNCHANGED unleash
    /\ UNCHANGED subscribingVars

\* The goodbye is best effort: without federation or token, or when publishing fails,
\* the deletion goes on.
SayGoodbye ==
    /\ unleash.phase = "deleting"
    /\ unleash' = [unleash EXCEPT !.phase = "cleaning"]
    /\ \/ Federated /\ Send(Message("removed", unleash.spec, unleash.token)) /\ UNCHANGED disturbed
       \/ ~Federated /\ UNCHANGED <<log, disturbed>>
       \/ Federated /\ Disturb("unpublished") /\ UNCHANGED log
    /\ UNCHANGED subscribingVars

\* Both secrets go, then the finalizer and with it the object.
FinishDeletion ==
    /\ unleash.phase = "cleaning"
    /\ unleash' = [phase |-> "absent", token |-> NoToken, spec |-> NoSpec, hash |-> NoHash,
                   life |-> unleash.life]
    /\ UNCHANGED <<log, disturbed, subscribingVars>>

\* A secret could not be deleted, or the operator crashed: all over again, with or
\* without the token.
DeletionFails ==
    /\ unleash.phase = "cleaning"
    /\ Disturb("error")
    /\ \E token \in {unleash.token, NoToken} :
          unleash' = [unleash EXCEPT !.phase = "deleting", !.token = token]
    /\ UNCHANGED <<log, subscribingVars>>

-----------------------------------------------------------------------------
\* Somebody else publishes under the instance's ordering key.
OtherPublisher(m) ==
    /\ Disturb("foreign")
    /\ Send(m)
    /\ UNCHANGED <<unleash, subscribingVars>>

ReconcileUnleash == ReconcileSecrets \/ Publish \/ SayGoodbye \/ FinishDeletion \/ DeletionFails

Owner ==
    \/ \E spec \in InstanceSpecs : CreateInstance(spec) \/ EditInstance(spec)
    \/ DeleteInstance
=============================================================================

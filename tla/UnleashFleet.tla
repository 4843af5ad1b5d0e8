---------------------------- MODULE UnleashFleet ----------------------------
(***************************************************************************)
(* The Unleash instances of a channel, as the channel sees them: each one  *)
(* pulls its image from the channel's status and reports in its own status *)
(* which image it resolved and how its Deployment and its API fare         *)
(* (internal/controller/unleash_controller.go).  Instances reconcile       *)
(* independently of each other and of the channel.                         *)
(***************************************************************************)
EXTENDS Channel

channelVars == <<spec, statusVars, workerVars>>

SetCond(u, c) == cond' = [cond EXCEPT ![u] = c]

\* reconcileDeployment: the image is resolved and, when it is a new one, published
\* together with conditions that say nothing is known of it yet
\* (markReleaseChannelAssignmentPending).
Pull(u) ==
    /\ member[u]
    /\ ResolvedImage(u) \notin {NoImage, resolved[u]}
    /\ resolved' = [resolved EXCEPT ![u] = ResolvedImage(u)]
    /\ SetCond(u, "pending")
    /\ UNCHANGED <<channelVars, member, disturbances>>

\* The first reconcile of an instance that already runs what the channel has for it:
\* the image is resolved before anything is reported of it.
KeepImage(u) ==
    /\ member[u]
    /\ cond[u] = "new"
    /\ resolved[u] # NoImage
    /\ ResolvedImage(u) = resolved[u]
    /\ SetCond(u, "pending")
    /\ UNCHANGED <<channelVars, member, resolved, disturbances>>

\* The Deployment is ready (updateStatusReconcileSuccess).  One that was only
\* restarting is still marked Connected.
BecomeReady(u) ==
    /\ member[u]
    /\ resolved[u] \in Images \ Broken
    /\ cond[u] \in {"pending", "restarting", "failed"}
    /\ SetCond(u, IF cond[u] = "restarting" THEN "connected" ELSE "ready")
    /\ UNCHANGED <<channelVars, member, resolved, disturbances>>

\* testConnection succeeds (updateStatusConnectionSuccess).
Connect(u) ==
    /\ member[u]
    /\ cond[u] = "ready"
    /\ SetCond(u, "connected")
    /\ UNCHANGED <<channelVars, member, resolved, disturbances>>

\* The Deployment of a broken image gives up (updateStatusDeploymentFailed).
DeploymentFails(u) ==
    /\ member[u]
    /\ resolved[u] \in Broken
    /\ cond[u] = "pending"
    /\ SetCond(u, "failed")
    /\ UNCHANGED <<channelVars, member, resolved, disturbances>>

\* A working image fails for a while, for a reason of its own (a quota, a node).
Fault(u) ==
    /\ member[u]
    /\ resolved[u] \in Images \ Broken
    /\ cond[u] \notin {"new", "failed"}
    /\ SetCond(u, "failed")
    /\ UNCHANGED <<channelVars, member, resolved>>

\* Pods restart, which only takes Reconciled back (updateStatusReconcileProgressing);
\* the API stops answering, which only takes Connected back
\* (updateStatusConnectionFailed); or the Unleash spec is edited, which makes both
\* conditions those of an earlier generation.
Flap(u) ==
    /\ member[u]
    /\ \/ cond[u] = "connected" /\ \E c \in {"restarting", "ready", "pending"} : SetCond(u, c)
       \/ cond[u] \in {"ready", "restarting"} /\ SetCond(u, "pending")
    /\ UNCHANGED <<channelVars, member, resolved>>

\* An Unleash object is created, or starts to reference the channel with the
\* image another channel gave it.
Join(u) ==
    /\ ~member[u]
    /\ member' = [member EXCEPT ![u] = TRUE]
    /\ \E i \in MaybeImage : resolved' = [resolved EXCEPT ![u] = i]
    /\ SetCond(u, "new")
    /\ UNCHANGED channelVars

\* An Unleash object is deleted.
Leave(u) ==
    /\ member[u]
    /\ member' = [member EXCEPT ![u] = FALSE]
    /\ resolved' = [resolved EXCEPT ![u] = NoImage]
    /\ SetCond(u, "pending")
    /\ UNCHANGED channelVars

\* What an instance does by itself
ReconcileUnleash(u) ==
    Pull(u) \/ KeepImage(u) \/ BecomeReady(u) \/ Connect(u) \/ DeploymentFails(u)
=============================================================================

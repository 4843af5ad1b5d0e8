------------------------- MODULE ApiTokens_proofs -------------------------
(***************************************************************************)
(* Theorems about ApiTokens, for any set of Unleash instances and specs,   *)
(* any number of disturbances and either setting of the operator's flag.   *)
(***************************************************************************)
EXTENDS ApiTokens, TLAPS

\* Every token has a secret of its own, one that was handed out; this is what makes
\* TypeOK inductive.
IdsUnique ==
    /\ \A t \in tokens \cup obsolete : t.id < nextId
    /\ \A t, v \in tokens : t.id = v.id => t = v

\* The Boolean part of TypeOK, which steps of every actor preserve.
LEMMA Flags == FlagsOK /\ [Next]_vars => FlagsOK'
<1> SUFFICES ASSUME FlagsOK, [Next]_vars PROVE FlagsOK'
  OBVIOUS
<1> USE DEF FlagsOK, objectVars, statusVars
<1>1. CASE AddFinalizer
  BY <1>1, Zenon DEF AddFinalizer
<1>2. CASE Observe
  BY <1>2, Zenon DEF Observe
<1>3. CASE List
  BY <1>3, Zenon DEF List
<1>4. CASE ListFails
  BY <1>4, Zenon DEF ListFails, FailPass
<1>5. CASE Create
  BY <1>5, Zenon DEF Create
<1>6. CASE CreateFails
  BY <1>6, Zenon DEF CreateFails, FailPass
<1>7. CASE StoreSecret
  BY <1>7, Zenon DEF StoreSecret
<1>8. CASE StoreSecretFails
  BY <1>8, Zenon DEF StoreSecretFails, FailPass
<1>9. CASE Prune
  BY <1>9, Zenon DEF Prune
<1>10. CASE PruneFails
  BY <1>10, Zenon DEF PruneFails, FailPass
<1>11. CASE Succeed
  BY <1>11, Zenon DEF Succeed
<1>12. CASE CleanupFails
  BY <1>12, Zenon DEF CleanupFails
<1>13. CASE CleanupSkipped
  BY <1>13, Zenon DEF CleanupSkipped
<1>14. CASE CleanupList
  BY <1>14, Zenon DEF CleanupList
<1>15. CASE Purge
  BY <1>15, Zenon DEF Purge
<1>16. CASE CleanupRefused
  BY <1>16, Zenon DEF CleanupRefused
<1>17. CASE PurgeDone
  BY <1>17, Zenon DEF PurgeDone
<1>18. CASE Release
  BY <1>18, Zenon DEF Release
<1>19. CASE Apply
  BY <1>19, Zenon DEF Apply
<1>20. CASE Edit
  BY <1>20, Zenon DEF Edit
<1>21. CASE Remove
  BY <1>21, Zenon DEF Remove
<1>22. CASE DeadlinePasses
  BY <1>22, Zenon DEF DeadlinePasses
<1>23. CASE Outage
  BY <1>23, Zenon DEF Outage
<1>24. CASE AdminDeletes
  BY <1>24, Zenon DEF AdminDeletes
<1>25. CASE Crash
  BY <1>25, Zenon DEF Crash
<1>26. CASE UNCHANGED vars
  BY <1>26 DEF vars
<1> QED
  BY <1>1, <1>2, <1>3, <1>4, <1>5, <1>6, <1>7, <1>8, <1>9, <1>10, <1>11, <1>12, <1>13, <1>14, <1>15, <1>16, <1>17, <1>18, <1>19, <1>20, <1>21, <1>22, <1>23, <1>24, <1>25, <1>26 DEF Next, Reconcile, Environment

\* Each variable keeps its type through every step of the controller and of its
\* environment; in particular a Secret only ever holds a token Unleash handed out, and
\* a pass that gets to writing the Secret has a token to write.
THEOREM TypeCorrect == Spec => [](TypeOK /\ IdsUnique)
<1> DEFINE Inv == TypeOK /\ IdsUnique
<1>1. Init => Inv
  <2> SUFFICES ASSUME Init PROVE Inv
    OBVIOUS
  <2>1. FlagsOK
    BY Zenon DEF Init, FlagsOK
  <2>2. QED
    BY <2>1, DisturbancesAssumption DEF Init, TypeOK, IdsUnique, NoToken, States, Stages
<1>2. Inv /\ [Next]_vars => Inv'
  <2> SUFFICES ASSUME Inv, [Next]_vars PROVE Inv'
    OBVIOUS
  <2> FlagsOK'
    BY Flags DEF TypeOK
  <2> MaxDisturbances \in Nat /\ seen \in SpecType /\ spec \in SpecType
    BY SpecsAssumption, DisturbancesAssumption DEF TypeOK
  <2> USE DEF NoToken, TypeOK, IdsUnique, Stages, EndPass, GoTo, Disturb, objectVars,
              statusVars, unleashVars, workerVars
  <2>0. ASSUME Created, obsolete' \subseteq obsolete
        PROVE  nextId' = nextId + 1 /\ tokens' \subseteq TokenType /\ IdsUnique'
    <3>1. nextId' = nextId + 1 /\ tokens' \subseteq TokenType
      BY <2>0 DEF Created, TokenType, SpecType
    <3>2. IdsUnique'
      BY <2>0 DEF Created, TokenType
    <3> QED
      BY <3>1, <3>2
  <2>1. CASE AddFinalizer
    BY <2>1 DEF AddFinalizer
  <2>2. CASE Observe
    BY <2>2 DEF Observe
  <2>3. CASE List
    <3>1. Found \subseteq tokens /\ \A t \in Found : t.id \in 1 .. nextId - 1
      BY DEF Found, TokenType
    <3>2. /\ UNCHANGED <<spec, nextId, secret, state, tokens, seen, disturbances>>
          /\ pc' \in {"create", "store"}
          /\ obsolete' \subseteq Found
      BY <2>3 DEF List, CallSucceeds
    <3>3. current' \in 0 .. nextId - 1 /\ (pc' = "store" => current' # NoToken)
      BY <2>3, <3>1 DEF List
    <3> QED
      BY <3>1, <3>2, <3>3
  <2>4. CASE ListFails
    BY <2>4 DEF ListFails, CallFails, FailPass
  <2>5. CASE Create
    <3>1. /\ UNCHANGED <<spec, secret, state, seen, obsolete, disturbances>>
          /\ pc' = "store" /\ current' = nextId /\ nextId' = nextId + 1
      BY <2>5 DEF Create, CallSucceeds, Created
    <3> QED
      BY <2>0, <2>5, <3>1 DEF Create
  <2>6. CASE CreateFails
    <3>1. /\ UNCHANGED <<spec, secret, state>>
          /\ pc' = "ready" /\ seen' = spec /\ current' = 0 /\ obsolete' = {}
          /\ disturbances' \in 0 .. MaxDisturbances
      BY <2>6 DEF CreateFails, CallFails, FailPass
    <3>2. CASE Created
      BY <2>0, <3>1, <3>2
    <3>3. CASE UNCHANGED <<tokens, nextId>>
      BY <3>1, <3>3
    <3> QED
      BY <2>6, <3>2, <3>3 DEF CreateFails
  <2>7. CASE StoreSecret
    BY <2>7 DEF StoreSecret
  <2>8. CASE StoreSecretFails
    BY <2>8 DEF StoreSecretFails, FailPass
  <2>9. CASE Prune
    BY <2>9 DEF Prune, CallSucceeds, Delete
  <2>10. CASE PruneFails
    BY <2>10 DEF PruneFails, CallFails, FailPass
  <2>11. CASE Succeed
    BY <2>11 DEF Succeed
  <2>12. CASE CleanupFails
    BY <2>12 DEF CleanupFails, CallFails
  <2>13. CASE CleanupSkipped
    BY <2>13 DEF CleanupSkipped
  <2>14. CASE CleanupList
    BY <2>14 DEF CleanupList, CallSucceeds, Found
  <2>15. CASE Purge
    BY <2>15 DEF Purge, CallSucceeds, Delete
  <2>16. CASE CleanupRefused
    BY <2>16 DEF CleanupRefused, CallSucceeds
  <2>17. CASE PurgeDone
    BY <2>17 DEF PurgeDone
  <2>18. CASE Release
    BY <2>18 DEF Release
  <2>19. CASE Apply
    BY <2>19 DEF Apply
  <2>20. CASE Edit
    BY <2>20 DEF Edit
  <2>21. CASE Remove
    BY <2>21 DEF Remove
  <2>22. CASE DeadlinePasses
    BY <2>22 DEF DeadlinePasses
  <2>23. CASE Outage
    BY <2>23 DEF Outage
  <2>24. CASE AdminDeletes
    BY <2>24 DEF AdminDeletes, Delete
  <2>25. CASE Crash
    BY <2>25 DEF Crash
  <2>26. CASE UNCHANGED vars
    BY <2>26 DEF vars
  <2> QED
    BY <2>1, <2>2, <2>3, <2>4, <2>5, <2>6, <2>7, <2>8, <2>9, <2>10, <2>11, <2>12, <2>13, <2>14, <2>15, <2>16, <2>17, <2>18, <2>19, <2>20, <2>21, <2>22, <2>23, <2>24, <2>25, <2>26 DEF Next, Reconcile, Environment
<1> QED
  BY <1>1, <1>2, PTL DEF Spec
-----------------------------------------------------------------------------
(* No duplicates                                                           *)

\* A pass creates a token only while none in the instance will do: tokens can be
\* deleted between its look at them and the creation, but nobody else creates one.
CreatesFresh ==
    pc = "create" =>
        \A t \in tokens : t.at = seen.unleash => UpdateEnabled /\ ~IsEqual(seen, t)

\* A token created for a spec passes for it: ApiToken.IsEqual is reflexive.
LEMMA IsEqualReflexive ==
    ASSUME NEW s, NEW t, s.env = t.env, s.projects = t.projects
    PROVE  IsEqual(s, t)
BY DEF IsEqual, StringSliceEquals

\* However creations, deletions and Secret writes fail, an instance never holds two
\* tokens of one ApiToken that grant the same, nor, with updates disabled, two at all.
THEOREM TokensDoNotPileUp == Spec => [](NoDuplicates /\ FrozenMeansOne)
<1> DEFINE Inv == NoDuplicates /\ FrozenMeansOne /\ CreatesFresh
<1>1. Init => Inv
  BY DEF Init, NoDuplicates, FrozenMeansOne, CreatesFresh
<1>2. TypeOK /\ Inv /\ [Next]_vars => Inv'
  <2> SUFFICES ASSUME TypeOK, Inv, [Next]_vars PROVE Inv'
    OBVIOUS
  <2> UpdateEnabled \in BOOLEAN
    BY ConfigAssumption
  <2>0. ASSUME Created, pc = "create", pc' # "create" PROVE Inv'
    BY <2>0, IsEqualReflexive
    DEF Created, NoDuplicates, FrozenMeansOne, CreatesFresh
  <2> USE DEF NoDuplicates, FrozenMeansOne, CreatesFresh, EndPass, GoTo, objectVars,
              statusVars, unleashVars, workerVars
  <2>1. CASE AddFinalizer
    BY <2>1 DEF AddFinalizer
  <2>2. CASE Observe
    BY <2>2 DEF Observe
  <2>3. CASE List
    BY <2>3 DEF List, CallSucceeds, Candidates, Found, Newest, TokenType
  <2>4. CASE ListFails
    BY <2>4 DEF ListFails, FailPass
  <2>5. CASE Create
    BY <2>5, <2>0 DEF Create
  <2>6. CASE CreateFails
    BY <2>6, <2>0 DEF CreateFails, FailPass
  <2>7. CASE StoreSecret
    BY <2>7 DEF StoreSecret
  <2>8. CASE StoreSecretFails
    BY <2>8 DEF StoreSecretFails, FailPass
  <2>9. CASE Prune
    BY <2>9 DEF Prune, Delete
  <2>10. CASE PruneFails
    BY <2>10 DEF PruneFails, FailPass
  <2>11. CASE Succeed
    BY <2>11 DEF Succeed
  <2>12. CASE CleanupFails
    BY <2>12 DEF CleanupFails
  <2>13. CASE CleanupSkipped
    BY <2>13 DEF CleanupSkipped
  <2>14. CASE CleanupList
    BY <2>14 DEF CleanupList, Found
  <2>15. CASE Purge
    BY <2>15 DEF Purge, Delete
  <2>16. CASE CleanupRefused
    BY <2>16 DEF CleanupRefused
  <2>17. CASE PurgeDone
    BY <2>17 DEF PurgeDone
  <2>18. CASE Release
    BY <2>18 DEF Release
  <2>19. CASE Apply
    BY <2>19 DEF Apply
  <2>20. CASE Edit
    BY <2>20 DEF Edit
  <2>21. CASE Remove
    BY <2>21 DEF Remove
  <2>22. CASE DeadlinePasses
    BY <2>22 DEF DeadlinePasses
  <2>23. CASE Outage
    BY <2>23 DEF Outage
  <2>24. CASE AdminDeletes
    BY <2>24 DEF AdminDeletes, Delete
  <2>25. CASE Crash
    BY <2>25 DEF Crash
  <2>26. CASE UNCHANGED vars
    BY <2>26 DEF vars
  <2> QED
    BY <2>1, <2>2, <2>3, <2>4, <2>5, <2>6, <2>7, <2>8, <2>9, <2>10, <2>11, <2>12, <2>13, <2>14, <2>15, <2>16, <2>17, <2>18, <2>19, <2>20, <2>21, <2>22, <2>23, <2>24, <2>25, <2>26 DEF Next, Reconcile, Environment
<1> QED
  BY <1>1, <1>2, TypeCorrect, PTL DEF Spec

-----------------------------------------------------------------------------
(* Rotation                                                                *)

\* The pass deletes none of the tokens it is about to store or has stored.
SparesCurrent ==
    /\ pc \in {"store", "prune"} => \A t \in obsolete : t.id # current
    /\ pc = "prune" => secret = current

\* The token the pass settled for is still there.
CurrentIsLive ==
    pc \in {"store", "prune"} => \E t \in tokens : t.id = current

FinalizesDeleted == pc \in {"cleanup", "purge", "release"} => deleting

\* As long as nobody else deletes tokens in Unleash, the controller itself never
\* leaves an application with a Secret whose token it has taken away.
THEOREM RotationIsSafe ==
    ASSUME "admin" \notin Disturbances
    PROVE  Spec => RotationKeepsSecretWorking
<1> DEFINE Inv == SparesCurrent /\ CurrentIsLive /\ FinalizesDeleted
           Step == SecretWorks /\ workerVars' # workerVars => SecretWorks' \/ deleting
<1>1. Init => Inv
  BY DEF Init, SparesCurrent, CurrentIsLive, FinalizesDeleted
<1>2. TypeOK /\ IdsUnique /\ Inv /\ [Next]_vars => Inv'
  <2> SUFFICES ASSUME TypeOK, IdsUnique, Inv, [Next]_vars PROVE Inv'
    OBVIOUS
  <2> USE DEF TypeOK, IdsUnique, SparesCurrent, CurrentIsLive, FinalizesDeleted,
              EndPass, GoTo, objectVars, statusVars, unleashVars, workerVars
  <2>1. CASE AddFinalizer
    BY <2>1 DEF AddFinalizer
  <2>2. CASE Observe
    BY <2>2 DEF Observe
  <2>3. CASE List
    BY <2>3 DEF List, CallSucceeds, Candidates, Found, Newest, TokenType
  <2>4. CASE ListFails
    BY <2>4 DEF ListFails, FailPass
  <2>5. CASE Create
    <3>1. pc' = "store" /\ current' = nextId /\ obsolete' = obsolete
      BY <2>5 DEF Create
    <3>2. \A t \in obsolete : t.id # nextId
      BY DEF TokenType
    <3>3. \E t \in tokens' : t.id = nextId
      <4> DEFINE new == [id |-> nextId, at |-> seen.unleash,
                         env |-> seen.env, projects |-> seen.projects]
      <4>1. new \in tokens' /\ new.id = nextId
        BY <2>5 DEF Create, Created
      <4> QED
        BY <4>1
    <3> QED
      BY <3>1, <3>2, <3>3
  <2>6. CASE CreateFails
    BY <2>6 DEF CreateFails, FailPass, Created, TokenType
  <2>7. CASE StoreSecret
    BY <2>7 DEF StoreSecret
  <2>8. CASE StoreSecretFails
    BY <2>8 DEF StoreSecretFails, FailPass
  <2>9. CASE Prune
    BY <2>9 DEF Prune, Delete
  <2>10. CASE PruneFails
    BY <2>10 DEF PruneFails, FailPass
  <2>11. CASE Succeed
    BY <2>11 DEF Succeed
  <2>12. CASE CleanupFails
    BY <2>12 DEF CleanupFails
  <2>13. CASE CleanupSkipped
    BY <2>13 DEF CleanupSkipped
  <2>14. CASE CleanupList
    BY <2>14 DEF CleanupList, Found
  <2>15. CASE Purge
    BY <2>15 DEF Purge, Delete
  <2>16. CASE CleanupRefused
    BY <2>16 DEF CleanupRefused
  <2>17. CASE PurgeDone
    BY <2>17 DEF PurgeDone
  <2>18. CASE Release
    BY <2>18 DEF Release
  <2>19. CASE Apply
    BY <2>19 DEF Apply
  <2>20. CASE Edit
    BY <2>20 DEF Edit
  <2>21. CASE Remove
    BY <2>21 DEF Remove
  <2>22. CASE DeadlinePasses
    BY <2>22 DEF DeadlinePasses
  <2>23. CASE Outage
    BY <2>23 DEF Outage
  <2>24. CASE AdminDeletes
    BY <2>24 DEF AdminDeletes, Disturb
  <2>25. CASE Crash
    BY <2>25 DEF Crash
  <2>26. CASE UNCHANGED vars
    BY <2>26 DEF vars
  <2> QED
    BY <2>1, <2>2, <2>3, <2>4, <2>5, <2>6, <2>7, <2>8, <2>9, <2>10, <2>11, <2>12, <2>13, <2>14, <2>15, <2>16, <2>17, <2>18, <2>19, <2>20, <2>21, <2>22, <2>23, <2>24, <2>25, <2>26 DEF Next, Reconcile, Environment
<1>3. TypeOK /\ IdsUnique /\ Inv /\ [Next]_vars => [Step]_vars
  <2> SUFFICES ASSUME Inv, Next, SecretWorks, workerVars' # workerVars, ~deleting
               PROVE  SecretWorks'
    BY DEF vars, workerVars
  <2> USE DEF SecretWorks, unleashVars
  <2>1. CASE StoreSecret
    BY <2>1 DEF StoreSecret, CurrentIsLive
  <2>2. CASE Prune \/ PruneFails
    BY <2>2 DEF Prune, PruneFails, FailPass, Delete, SparesCurrent
  <2>3. CASE Create \/ CreateFails
    BY <2>3 DEF Create, CreateFails, FailPass, Created
  <2>4. CASE AddFinalizer \/ Observe \/ List \/ ListFails \/ StoreSecretFails \/ Succeed
    BY <2>4 DEF AddFinalizer, Observe, List, ListFails, StoreSecretFails, FailPass, Succeed
  <2>5. pc \notin {"cleanup", "purge", "release"}
    BY DEF FinalizesDeleted
  <2>6. CASE Environment
    BY <2>6 DEF Environment, Apply, Edit, Remove, DeadlinePasses, Outage, AdminDeletes,
                Disturb, Crash
  <2> QED
    BY <2>1, <2>2, <2>3, <2>4, <2>5, <2>6 DEF Next, Reconcile, CleanupFails,
       CleanupSkipped, CleanupList, Purge, CleanupRefused, PurgeDone, Release
<1> QED
  BY <1>1, <1>2, <1>3, TypeCorrect, PTL DEF Spec, RotationKeepsSecretWorking

-----------------------------------------------------------------------------
(* Cleanup                                                                 *)

\* All of the object's tokens are where its spec says, and that instance is up.
AtHome ==
    /\ \A t \in tokens : t.at = seen.unleash
    /\ \A u \in Unleashes : state[u] = "ready"

\* A purge holds exactly the tokens that are left, and an object is only released
\* when there are none, or too late.
PurgesAll ==
    /\ pc \in {"cleanup", "purge", "release"} => deleting
    /\ deleting => exists
    /\ pc = "purge" => obsolete = tokens
    /\ pc = "release" => overdue \/ tokens = {}

\* Under the conditions cleanupTokenInUnleash is about (the instance stays reachable
\* and is never changed, and nobody else deletes or hides tokens) an object that is
\* released in time leaves no token behind, whatever fails and wherever it crashes.
THEOREM CleanupIsComplete ==
    ASSUME Disturbances \cap {"admin", "refused", "outage"} = {},
           \A s1, s2 \in Specs : s1.unleash = s2.unleash
    PROVE  Spec => GoneMeansClean
<1> DEFINE Inv == AtHome /\ PurgesAll
           Step == deleting /\ ~exists' /\ ~overdue => tokens' = {}
<1>1. Init => Inv
  BY DEF Init, AtHome, PurgesAll
<1>2. TypeOK /\ Inv /\ [Next]_vars => Inv'
  <2> SUFFICES ASSUME TypeOK, Inv, [Next]_vars PROVE Inv'
    OBVIOUS
  <2> seen \in Specs /\ spec \in Specs /\ seen \in SpecType
    BY SpecsAssumption DEF TypeOK
  <2> seen.unleash = spec.unleash /\ state[seen.unleash] = "ready"
    BY DEF AtHome, SpecType
  <2> USE DEF AtHome, PurgesAll, EndPass, GoTo, Disturb, CallFails, CallSucceeds,
              objectVars, statusVars, unleashVars, workerVars
  <2>1. CASE AddFinalizer
    BY <2>1 DEF AddFinalizer
  <2>2. CASE Observe
    BY <2>2 DEF Observe
  <2>3. CASE List
    BY <2>3 DEF List
  <2>4. CASE ListFails
    BY <2>4 DEF ListFails, FailPass
  <2>5. CASE Create
    BY <2>5 DEF Create, Created
  <2>6. CASE CreateFails
    BY <2>6 DEF CreateFails, FailPass, Created
  <2>7. CASE StoreSecret
    BY <2>7 DEF StoreSecret
  <2>8. CASE StoreSecretFails
    BY <2>8 DEF StoreSecretFails, FailPass
  <2>9. CASE Prune
    BY <2>9 DEF Prune, Delete
  <2>10. CASE PruneFails
    BY <2>10 DEF PruneFails, FailPass
  <2>11. CASE Succeed
    BY <2>11 DEF Succeed
  <2>12. CASE CleanupFails
    BY <2>12 DEF CleanupFails
  <2>13. CASE CleanupSkipped
    BY <2>13 DEF CleanupSkipped
  <2>14. CASE CleanupList
    BY <2>14 DEF CleanupList, Found
  <2>15. CASE Purge
    BY <2>15 DEF Purge, Delete
  <2>16. CASE CleanupRefused
    BY <2>16 DEF CleanupRefused
  <2>17. CASE PurgeDone
    BY <2>17 DEF PurgeDone
  <2>18. CASE Release
    BY <2>18 DEF Release
  <2>19. CASE Apply
    BY <2>19 DEF Apply
  <2>20. CASE Edit
    BY <2>20 DEF Edit
  <2>21. CASE Remove
    BY <2>21 DEF Remove
  <2>22. CASE DeadlinePasses
    BY <2>22 DEF DeadlinePasses
  <2>23. CASE Outage
    BY <2>23 DEF Outage
  <2>24. CASE AdminDeletes
    BY <2>24 DEF AdminDeletes
  <2>25. CASE Crash
    BY <2>25 DEF Crash
  <2>26. CASE UNCHANGED vars
    BY <2>26 DEF vars
  <2> QED
    BY <2>1, <2>2, <2>3, <2>4, <2>5, <2>6, <2>7, <2>8, <2>9, <2>10, <2>11, <2>12, <2>13, <2>14, <2>15, <2>16, <2>17, <2>18, <2>19, <2>20, <2>21, <2>22, <2>23, <2>24, <2>25, <2>26 DEF Next, Reconcile, Environment
<1>3. Inv /\ [Next]_vars => [Step]_vars
  <2> SUFFICES ASSUME Inv, Next, deleting, ~exists', ~overdue PROVE tokens' = {}
    OBVIOUS
  <2>1. exists
    BY DEF PurgesAll
  <2>2. CASE Release
    BY <2>2 DEF Release, PurgesAll, unleashVars
  <2>3. CASE Reconcile /\ ~Release
    BY <2>1, <2>3 DEF Reconcile, AddFinalizer, Observe, List, ListFails, Create,
       CreateFails, StoreSecret, StoreSecretFails, Prune, PruneFails, Succeed,
       CleanupFails, CleanupSkipped, CleanupList, Purge, CleanupRefused, PurgeDone,
       FailPass, objectVars
  <2>4. CASE Environment
    BY <2>1, <2>4 DEF Environment, Apply, Edit, Remove, DeadlinePasses, Outage,
       AdminDeletes, Crash, objectVars
  <2> QED
    BY <2>2, <2>3, <2>4 DEF Next
<1> QED
  BY <1>1, <1>2, <1>3, TypeCorrect, PTL DEF Spec, GoneMeansClean
=============================================================================

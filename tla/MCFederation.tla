---------------------------- MODULE MCFederation ----------------------------
(***************************************************************************)
(* Small instances of Federation for TLC.                                  *)
(***************************************************************************)
EXTENDS Federation

CONSTANTS t1, t2, t3

MCNonces == {<<"n1">>}

\* An instance federated here, in both namespaces
Here ==
    [enabled |-> TRUE, url |-> "https", nonce |-> NoNonce, namespaces |-> {t1, t2},
     clusters |-> {"own", "other"}]
Wide == [Here EXCEPT !.namespaces = {t1, t2, t3}]
\* Served elsewhere only; the list of namespaces names the operator's, too
Away ==
    [Here EXCEPT !.clusters = {"other"}, !.namespaces = {t1, t2, OperatorNamespace}]

HereOrAway == {Here, Away}
JustHere == {Here}
HereOrWide == {Here, [Wide EXCEPT !.nonce = <<"n1">>]}

\* Messages the subscriber must not act upon
Rival == [Message("provisioned", Here, 9) EXCEPT !.namespaces = {t1, OperatorNamespace}]
Unreadable == Message("unknown", Here, 1)
None == {}
Stray == {Rival, Unreadable}

Absent == [phase |-> "absent", token |-> NoToken, spec |-> NoSpec, hash |-> NoHash, life |-> 0]
Running(spec) ==
    [phase |-> "live", token |-> 1, spec |-> spec, hash |-> InstanceHash(spec, 1), life |-> 1]

Empty == [unleash |-> Absent, ru |-> [ns \in Tenants |-> NoRU], secrets |-> <<>>]

\* What older operators left: per tenant a RemoteUnleash and the secret it refers to
RUFor(key) == [NoRU EXCEPT !.ref = key, !.url = "https", !.finalizer = TRUE, !.status = "connected"]
Legacy == [token |-> 1, url |-> "https", auth |-> NoNamespace, managed |-> TRUE]
Derived == <<"https", 1>>
InTenant(ns) == SecretKey(ns, ns, Derived)
Shared(ns) == SecretKey(OperatorNamespace, NoNamespace, Derived)
Left(KeyOf(_), ContentOf(_)) ==
    [unleash |-> Running(Here),
     ru |-> [ns \in Tenants |-> IF ns \in Existing THEN RUFor(KeyOf(ns)) ELSE NoRU],
     secrets |-> [k \in {KeyOf(ns) : ns \in Existing} |-> ContentOf(k.home)]]

\* A secret from before secrets had a URL, next to one for another server
UrlOrNot(home) == [Legacy EXCEPT !.url = IF home = t1 THEN NoUrl ELSE "http"]
\* A secret of the operator's, next to one the tenant wrote itself
OwnOrNot(home) == [Legacy EXCEPT !.managed = home = t1]
Same(home) == Legacy

TenantLayout == {Left(InTenant, Same)}
LegacyClusters == {Left(InTenant, UrlOrNot), Left(InTenant, OwnOrNot), Left(Shared, Same)}

Fresh(spec) == [Absent EXCEPT !.phase = "live", !.spec = spec, !.life = 1]
FirstPublication == {[Empty EXCEPT !.unleash = Fresh(Here)]}
=============================================================================

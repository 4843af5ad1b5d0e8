---------------------------- MODULE MCApiTokens ----------------------------
(***************************************************************************)
(* Small instances of ApiTokens for TLC.                                   *)
(***************************************************************************)
EXTENDS ApiTokens

CONSTANTS u1, u2

Dev == [unleash |-> u1, env |-> "development", projects |-> <<"p", "q">>]
Reordered == [Dev EXCEPT !.projects = <<"q", "p">>]
Prod == [Dev EXCEPT !.env = "production"]
Elsewhere == [Dev EXCEPT !.unleash = u2]

Rotating == {Dev, Reordered, Prod}
Moving == {Dev, Prod, Elsewhere}
=============================================================================

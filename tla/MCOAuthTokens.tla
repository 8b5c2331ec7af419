---------------------------- MODULE MCOAuthTokens ----------------------------
(* A refresher, a request session, two authorizations of one credential. *)
EXTENDS OAuthTokens

CONSTANTS f1, r1, a1, a2
=============================================================================

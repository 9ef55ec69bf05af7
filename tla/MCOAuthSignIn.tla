---------------------------- MODULE MCOAuthSignIn ----------------------------
(* One sign-in by itself. *)
EXTENDS OAuthSignIn
=============================================================================

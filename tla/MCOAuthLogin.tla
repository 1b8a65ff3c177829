---------------------------- MODULE MCOAuthLogin ----------------------------
(* Small instances of OAuthLogin: callbacks and processes are alike. *)
EXTENDS OAuthLogin, TLC

Alike == Permutations(Callbacks) \cup Permutations(Procs) \cup Permutations(Codes)
=============================================================================

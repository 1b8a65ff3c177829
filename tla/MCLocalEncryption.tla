-------------------------- MODULE MCLocalEncryption --------------------------
(* Small instances of LocalEncryption: the passwords are alike. *)
EXTENDS LocalEncryption, TLC

Alike == Permutations(Passwords)
=============================================================================

----------------------------- MODULE MCSecrets -----------------------------
(* The secrets alone, for what the key file's comment says of a crash. *)
EXTENDS Secrets
=============================================================================

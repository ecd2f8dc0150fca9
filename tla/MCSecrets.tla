------------------------------- MODULE MCSecrets -------------------------------
(***************************************************************************)
(* Four passwords: of those in Vault, in Keycloak or in the stack, at most   *)
(* three differ at a time.                                                   *)
(***************************************************************************)
EXTENDS Secrets

MCPasswords == 1 .. 4
================================================================================

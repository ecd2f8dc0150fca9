------------------------------- MODULE MCVaultDns -------------------------------
(***************************************************************************)
(* The one instance of the Vault group (VAULT_CLUSTER_SIZE is 1).            *)
(***************************************************************************)
EXTENDS VaultDns

One == {"i1"}
================================================================================

-------------------------- MODULE MCForgeRegistry --------------------------
(* Small instances of ForgeRegistry: two identities hold the site key, a   *)
(* listing can be renewed after an unregister and unregistered again.      *)
EXTENDS ForgeRegistry
=============================================================================

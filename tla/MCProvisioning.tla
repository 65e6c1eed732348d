---------------------------- MODULE MCProvisioning ----------------------------
(* aktualizr-cert-provider is run at most twice. *)
EXTENDS Provisioning
MCPairs == <<"i1", "i2">>
===============================================================================

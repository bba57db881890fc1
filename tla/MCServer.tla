------------------------------ MODULE MCServer ------------------------------
(* Instances of Server for TLC. *)
EXTENDS Server

\* The administrator is renamed, and a name a user has registered is configured.
MCAdminConfigs == {[name |-> n, password |-> "configured"] : n \in Names}
=============================================================================

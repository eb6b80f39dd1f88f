----------------------------- MODULE MCClients -----------------------------
(* An instance of Clients for TLC: its constants are numbers and kinds.    *)
EXTENDS Clients
=============================================================================

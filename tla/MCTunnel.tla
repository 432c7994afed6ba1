------------------------------ MODULE MCTunnel ------------------------------
(* Three deployments that open their tunnels while the binary is missing.    *)
EXTENDS Tunnel
=============================================================================

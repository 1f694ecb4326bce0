------------------------------ MODULE MCProcesses ------------------------------
(***************************************************************************)
(* Two tunnels that want one port; the sizes around the limit of the short *)
(* form of a length, and the one at which the long form ends; one piece    *)
(* per stream, so that both sides of a terminal can be stuck writing.      *)
(***************************************************************************)
EXTENDS Processes

MCLocalPort == [t \in TunnelIds |-> 1]
================================================================================

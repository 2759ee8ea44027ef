---------------------------- MODULE MCMonitorLock ----------------------------
(* The two backends of the deployment, of which one is a primary, and two     *)
(* loops at a time: one in each process, or both in one.                      *)
EXTENDS MonitorLock

CONSTANTS aws, canary, l1, l2

MCProcs == {aws, canary}
MCPrimaries == {aws}
MCLoops == {l1, l2}
=============================================================================

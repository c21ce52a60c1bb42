--------------------------- MODULE UploadTunnelMC ---------------------------
(***************************************************************************)
(* Fault budgets for model checking UploadTunnel.  A budget names the faults *)
(* that may strike and how often; every other kind never does.              *)
(***************************************************************************)
EXTENDS UploadTunnel

Only(kinds) == [k \in FaultKinds |-> IF k \in kinds THEN 1 ELSE 0]

\* What a reliable server still leaves to go wrong.
ReliableFaults == Only({"ackLoss", "drop", "beat", "stop", "status"})

\* Faults under which every reading must still be uploaded in the end.
NoClientFaults == Only({"slow", "save", "drop", "reboot"})

OneSave == Only({"save"})
OneStop == Only({"stop"})
=============================================================================

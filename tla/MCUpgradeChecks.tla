-------------------------- MODULE MCUpgradeChecks --------------------------
(* Small instances of UpgradeChecks: the routers of its run.               *)
EXTENDS UpgradeChecks

H(platform, os, server) == [platform |-> platform, os |-> os, server |-> server]

\* Every family with each system it runs, one of them from the command line; a
\* router whose system is not known; and one for which there is no plugin.
AllHosts ==
  {H("ASR9K", "XR", TRUE), H("ASR9K", "XR", FALSE), H("ASR9K", "eXR", TRUE),
   H("CRS", "XR", TRUE), H("NCS", "eXR", TRUE), H("ASR900", "XE", TRUE),
   H("ASR900", "IOS", TRUE), H("N6K", Unknown, TRUE), H("IOS-XRv", Unknown, TRUE),
   H("other", "XR", TRUE)}
=============================================================================

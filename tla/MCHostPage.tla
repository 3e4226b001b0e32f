----------------------------- MODULE MCHostPage -----------------------------
(* An instance of HostPage for TLC.                                        *)
EXTENDS HostPage

\* What has nothing to do with conversations is looked at before there are any:
\* the mini app, and overlays that nothing is entered in.
Focus ==
  \/ log = << >> /\ outside.ends = 0 /\ Cardinality(DOMAIN Chats) = 1
     /\ ~ outside.camera /\ ~ outside.lookup
  \/ page.app = "absent" /\ page.overlay \notin {"qr", "about"}
=============================================================================

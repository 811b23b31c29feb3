--------------------------- MODULE MCWifiSession ---------------------------
(* A small instance of WifiSession: two task identities, so that a second   *)
(* task could be alive if the code allowed it, and all four traffic modes.  *)
EXTENDS WifiSession
AllModes == {"dns", "udp", "espnow", "ping"}
=============================================================================

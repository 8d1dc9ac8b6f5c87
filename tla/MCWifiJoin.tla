----------------------------- MODULE MCWifiJoin -----------------------------
(* The AT command task and one reconnection, which may overlap.  Three     *)
(* calls: one that is given up, one that overlaps it, and one after both.  *)
EXTENDS WifiJoin

MCCallers == {"console", "reconnect"}
MCKeys == {"open", "wpa2", "bad"}
MCMaxCalls == 3
=============================================================================

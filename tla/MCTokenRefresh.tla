--------------------------- MODULE MCTokenRefresh ---------------------------
(* Values for the constants of TokenRefresh.                               *)
EXTENDS TokenRefresh

\* Refreshes that fail or are delayed, and tokens or versions that do not come in time.
AllEnvs == {{"error", "lost"}, {"busy", "lost"}, {"error", "versions", "hasty"}}
VersionsEnvs == {{"versions"}}
============================================================================

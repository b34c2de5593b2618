--------------------------- MODULE MCChatSession ---------------------------
(* Values for the constants of ChatSession.                                *)
EXTENDS ChatSession

\* Logins that fail: the one trouble on_start is written to live with.
LoginTrouble == {"login_error"}
\* What brings tasks down, in two mixtures: users out of order and sleeps held up,
\* rooms left; both with events that come before the session data.
Disruptions == {{"unordered_start", "early_sync", "stall"}, {"leave", "early_sync"}}

SafetyEnvs == {LoginTrouble} \cup Disruptions
StopEnvs == {{"login_error", "busy", "stall"}}
LoginEnvs == {LoginTrouble}
BusyEnvs == {{"busy"}}
============================================================================

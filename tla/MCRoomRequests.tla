--------------------------- MODULE MCRoomRequests ---------------------------
(* Values for the constants of RoomRequests.                               *)
EXTENDS RoomRequests

\* Each trouble by itself: the runs that meet none are among those of each.
AllFaults == {{"error"}, {"busy"}, {"gap"}, {"encrypt"}}
OnlyErrors == {{"error"}}
NoFaults == {{}}
============================================================================

----------------------------- MODULE ServerRoute -----------------------------
(***************************************************************************)
(* Common::route (matrix/room/common.rs): the servers through which a room *)
(* may be joined, which permalinks to it and to its events list.  A user's *)
(* id names its server.                                                    *)
(***************************************************************************)
EXTENDS Naturals, Sequences, FiniteSets

CONSTANTS
  Servers,    \* names of servers
  IpServers,  \* those that are IP literals
  RoomUsers,  \* users that may join the room
  ServerName, \* the server of each of them
  Powers      \* the power levels each may have

ASSUME RouteAssumption ==
  /\ IpServers \subseteq Servers
  /\ ServerName \in [RoomUsers -> Servers]
  /\ Powers \in [RoomUsers -> SUBSET Nat]

MaxServers == 3

VARIABLES
  powerLevel, \* the power levels of the joined members
  denied,     \* the servers that the room's ACL does not allow
  linked,     \* whether a link was made to the room as it is
  via         \* the servers it names

routeVars == <<powerLevel, denied, linked, via>>

----------------------------------------------------------------------------
Members == DOMAIN powerLevel

\* The members that may count.
Eligible == { u \in Members : ServerName[u] \notin denied \cup IpServers }

\* Who has the highest power level of them, and at least 50.
Mightiest ==
  { u \in Eligible : powerLevel[u] >= 50 /\ \A v \in Eligible : powerLevel[v] <= powerLevel[u] }

Population(s) == Cardinality({ u \in Eligible : ServerName[u] = s })

\* The members' servers, without those taken, by population; which of two equal
\* ones comes first is left to the sort.
Ranked_WithFirst(taken) ==
  LET servers == { ServerName[u] : u \in Eligible }
  IN  { p \in [1 .. Cardinality(servers) -> servers] :
          \A i, j \in DOMAIN p : i < j => p[i] # p[j] /\ Population(p[i]) >= Population(p[j]) }

Ranked(taken) ==
  LET servers == { ServerName[u] : u \in Eligible } \ taken
  IN  { p \in [1 .. Cardinality(servers) -> servers] :
          \A i, j \in DOMAIN p : i < j => p[i] # p[j] /\ Population(p[i]) >= Population(p[j]) }

Take(s) == SubSeq(s, 1, IF Len(s) < MaxServers THEN Len(s) ELSE MaxServers)

Route ==
  IF Mightiest = {}
  THEN { Take(rest) : rest \in Ranked({}) }
  ELSE UNION { { Take(<<ServerName[u]>> \o rest) : rest \in Ranked({ServerName[u]}) }
               : u \in Mightiest }

\* The permalinks of an event, and those of a room without an alias.
Permalink ==
  /\ ~linked
  /\ linked' = TRUE
  /\ via' \in Route
  /\ UNCHANGED <<powerLevel, denied>>

\* The room changes, and what was linked is forgotten.
RoomChanges ==
  /\ \/ \E u \in RoomUsers \ Members : \E l \in Powers[u] :
          /\ powerLevel' = [v \in Members \cup {u} |-> IF v = u THEN l ELSE powerLevel[v]]
          /\ UNCHANGED denied
     \/ \E s \in Servers : denied = {} /\ denied' = {s} /\ UNCHANGED powerLevel
  /\ linked' = FALSE /\ via' = <<>>

RouteInit ==
  /\ powerLevel = <<>> /\ denied = {}
  /\ linked = FALSE /\ via = <<>>

RouteNext == Permalink \/ RoomChanges

RouteSpec == RouteInit /\ [][RouteNext]_routeVars

----------------------------------------------------------------------------
RouteTypeOK ==
  /\ Members \subseteq RoomUsers /\ \A u \in Members : powerLevel[u] \in Powers[u]
  /\ denied \subseteq Servers /\ linked \in BOOLEAN
  /\ via \in Seq(Servers)

\* A link that is made names up to three servers, each once and none of
\* them denied or an address: all there are, or three of which the first has
\* the mightiest member, if one has power, and the others are not smaller than
\* those left out.
RouteServes ==
  linked =>
    LET named == { via[i] : i \in DOMAIN via }
        home == { ServerName[u] : u \in Members } \ (denied \cup IpServers)
        of(s) == { u \in Members : ServerName[u] = s }
        powers == { powerLevel[u] : u \in UNION { of(s) : s \in home } }
        ruled == \E p \in powers : p >= 50
    IN  /\ Cardinality(named) = Len(via) /\ named \subseteq home
        /\ Len(via) = 3 \/ (Len(via) < 3 /\ named = home)
        /\ ruled => \E u \in of(via[1]) : \A p \in powers : p <= powerLevel[u]
        /\ \A i \in DOMAIN via : \A s \in home \ named :
             (i = 1 /\ ruled) \/ Cardinality(of(s)) <= Cardinality(of(via[i]))
=============================================================================

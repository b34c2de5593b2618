----------------------------- MODULE ClientParts -----------------------------
(***************************************************************************)
(* The parts of the client that keep state of their own, each with its own *)
(* callers and its own server.  They share nothing, so a behaviour is one  *)
(* of one part; the others stay as they began.                             *)
(***************************************************************************)
EXTENDS HttpRequests, ClientSession, SetupScripts, RoomMembership, Endpoints, AccountData,
        TypingNotices, MediaCache, SyncPacing, TaskSleep, ServerRoute

Parts ==
  { "request", "session", "setup", "membership", "endpoints", "account",
    "typing", "media", "pacing", "sleep", "route" }

VARIABLE part  \* the part that runs

partsVars ==
  << requestVars, sessionVars, setupVars, membershipVars, reported, accountVars,
     typingVars, mediaVars, pacingVars, sleepVars, routeVars, part >>

PartsInit ==
  /\ part \in Parts
  /\ RequestInit /\ SessionInit /\ SetupInit /\ MembershipInit /\ EndpointsInit
  /\ AccountInit /\ TypingInit /\ MediaInit /\ PacingInit /\ SleepInit /\ RouteInit
  /\ part # "account" => doc = "m.direct"

Runs(p) == part = p /\ UNCHANGED part

RequestRuns ==
  /\ Runs("request") /\ RequestNext
  /\ UNCHANGED << sessionVars, setupVars, membershipVars, reported, accountVars, typingVars,
                  mediaVars, pacingVars, sleepVars, routeVars >>

SessionRuns ==
  /\ Runs("session") /\ SessionNext
  /\ UNCHANGED << requestVars, setupVars, membershipVars, reported, accountVars, typingVars,
                  mediaVars, pacingVars, sleepVars, routeVars >>

SetupRuns ==
  /\ Runs("setup") /\ SetupNext
  /\ UNCHANGED << requestVars, sessionVars, membershipVars, reported, accountVars, typingVars,
                  mediaVars, pacingVars, sleepVars, routeVars >>

MembershipRuns ==
  /\ Runs("membership") /\ MembershipNext
  /\ UNCHANGED << requestVars, sessionVars, setupVars, reported, accountVars, typingVars,
                  mediaVars, pacingVars, sleepVars, routeVars >>

EndpointsRun ==
  /\ Runs("endpoints") /\ EndpointsNext
  /\ UNCHANGED << requestVars, sessionVars, setupVars, membershipVars, accountVars, typingVars,
                  mediaVars, pacingVars, sleepVars, routeVars >>

AccountRuns ==
  /\ Runs("account") /\ AccountNext
  /\ UNCHANGED << requestVars, sessionVars, setupVars, membershipVars, reported, typingVars,
                  mediaVars, pacingVars, sleepVars, routeVars >>

TypingRuns ==
  /\ Runs("typing") /\ TypingNext
  /\ UNCHANGED << requestVars, sessionVars, setupVars, membershipVars, reported, accountVars,
                  mediaVars, pacingVars, sleepVars, routeVars >>

MediaRuns ==
  /\ Runs("media") /\ MediaNext
  /\ UNCHANGED << requestVars, sessionVars, setupVars, membershipVars, reported, accountVars,
                  typingVars, pacingVars, sleepVars, routeVars >>

PacingRuns ==
  /\ Runs("pacing") /\ PacingNext
  /\ UNCHANGED << requestVars, sessionVars, setupVars, membershipVars, reported, accountVars,
                  typingVars, mediaVars, sleepVars, routeVars >>

SleepRuns ==
  /\ Runs("sleep") /\ SleepNext
  /\ UNCHANGED << requestVars, sessionVars, setupVars, membershipVars, reported, accountVars,
                  typingVars, mediaVars, pacingVars, routeVars >>

RouteRuns ==
  /\ Runs("route") /\ RouteNext
  /\ UNCHANGED << requestVars, sessionVars, setupVars, membershipVars, reported, accountVars,
                  typingVars, mediaVars, pacingVars, sleepVars >>

PartsNext ==
  \/ RequestRuns \/ SessionRuns \/ SetupRuns \/ MembershipRuns \/ EndpointsRun \/ AccountRuns
  \/ TypingRuns \/ MediaRuns \/ PacingRuns \/ SleepRuns \/ RouteRuns

\* A part that does not run has no step that its fairness asks for.
PartsFairness == RequestFairness /\ SessionFairness /\ SetupFairness

Spec == PartsInit /\ [][PartsNext]_partsVars /\ PartsFairness

----------------------------------------------------------------------------
\* Every part's variables stay in their types, with what a part's TypeOK says
\* of them.
PartsTypeOK ==
  /\ RequestTypeOK /\ SessionTypeOK /\ SetupTypeOK /\ MembershipTypeOK /\ EndpointsTypeOK
  /\ AccountTypeOK /\ TypingTypeOK /\ MediaTypeOK /\ PacingTypeOK /\ SleepTypeOK /\ RouteTypeOK
=============================================================================

---------------------------- MODULE ClientSession ----------------------------
(***************************************************************************)
(* From a GooseClientBuilder to a client with a session: the builder       *)
(* (matrix/builder.rs), login (matrix/login_builder.rs), restore_session,  *)
(* the server's versions and plain requests (matrix/mod.rs).               *)
(* Several tasks use the client at once; of a request this module has what *)
(* send_inner reads and when, and HttpRequests has the rest.               *)
(*                                                                         *)
(* A client gets one session: no second login is begun while one is under  *)
(* way or after it succeeded.  Refreshed tokens are in TokenRefresh.       *)
(***************************************************************************)
EXTENDS Naturals, Sequences

CONSTANTS
  Tasks,        \* tasks that use the client
  HttpSettings  \* proxy, user agent, ...: what the builder's setters set

ASSUME HttpSettingsAssumption == "custom" \notin HttpSettings

VARIABLES
  builder,    \* the builder, while there is one
  build,      \* how building went
  client,     \* what the client keeps of its builder (not modelled: http)
  homeserver, \* the URL it uses: "given", "discovered" or "login"
  versions,   \* whether the OnceCell server_versions is set
  cell,       \* its lock: who initialises it, then who waits for that
  tokens,     \* whether the session's tokens are set
  meta,       \* whether its user and device are
  at,         \* where a task is
  call,       \* what it called
  sends,      \* the token and the homeserver of its request
  overloaded  \* whether the server is busy: HttpClient::send then repeats a request

built == <<builder, build, client>>
session == <<homeserver, tokens, meta>>
sessionVars == <<built, session, versions, cell, at, call, sends, overloaded>>

Calls ==
  { "open",   \* an endpoint without authentication, like register
    "plain",  \* one with it: whoami, logout, devices
    "user",   \* one whose path has our user id
    "login", "restore" }

Places ==
  { "idle", "begun", "homeserver", "versions", "asking", "queued", "sent",
    "received", "tokens", "meta" }

----------------------------------------------------------------------------
(* The builder.  Its http configuration is "custom" or a set of settings.  *)

NewBuilder ==
  [ homeserver |-> "none", http |-> {}, wellKnown |-> TRUE, versions |-> FALSE,
    asserted |-> FALSE ]

Builders ==
  [ homeserver : {"none", "url", "bad_url", "name"},
    http : (SUBSET HttpSettings) \cup {{"custom"}},
    wellKnown : BOOLEAN, versions : BOOLEAN, asserted : BOOLEAN ]

Configure(b) ==
  /\ build = "configuring" /\ ~builder.asserted
  /\ builder' = b
  /\ UNCHANGED <<build, client, session, versions, cell, at, call, sends, overloaded>>

\* server_name and homeserver_url: the last one counts.
SetHomeserver == \E h \in {"url", "bad_url", "name"} : Configure([builder EXCEPT !.homeserver = h])

HttpClient == Configure([builder EXCEPT !.http = {"custom"}])

\* A setting replaces a custom client by the default one.
HttpSetting(s) == Configure([builder EXCEPT !.http = (@ \ {"custom"}) \cup {s}])

RespectLoginWellKnown == \E v \in BOOLEAN : Configure([builder EXCEPT !.wellKnown = v])
ServerVersions == Configure([builder EXCEPT !.versions = TRUE])

\* GooseMatrixClient::new takes a Url and counts on build to fail only with
\* the errors of its HTTP client.
New_ByName ==
  /\ builder = NewBuilder
  /\ Configure([NewBuilder EXCEPT !.homeserver = "name", !.asserted = TRUE])

New ==
  /\ builder = NewBuilder
  /\ Configure([NewBuilder EXCEPT !.homeserver = "url", !.asserted = TRUE])

Failed(error) == build' = IF builder.asserted /\ error # "Http" THEN "panic" ELSE error

Refused ==
  /\ build = "configuring"
  /\ \/ builder.homeserver = "none" /\ Failed("MissingHomeserver")
     \/ builder.homeserver # "none" /\ builder.http # {"custom"} /\ Failed("Http")
     \/ builder.homeserver = "bad_url" /\ Failed("Url")
  /\ UNCHANGED <<builder, client, session, versions, cell, at, call, sends, overloaded>>

Discover ==
  /\ build = "configuring" /\ builder.homeserver = "name"
  /\ build' = "discovering"
  /\ UNCHANGED <<builder, client, session, versions, cell, at, call, sends, overloaded>>

DiscoveryFails ==
  /\ build = "discovering"
  /\ \E error \in {"AutoDiscovery", "Http", "Url"} : Failed(error)
  /\ UNCHANGED <<builder, client, session, versions, cell, at, call, sends, overloaded>>

Built ==
  /\ \/ build = "configuring" /\ builder.homeserver = "url" /\ homeserver' = "given"
     \/ build = "discovering" /\ homeserver' = "discovered"
  /\ build' = "done"
  /\ client' = [wellKnown |-> builder.wellKnown]
  /\ versions' = builder.versions
  /\ builder' = NewBuilder
  /\ UNCHANGED <<tokens, meta, cell, at, call, sends, overloaded>>

BuilderNext ==
  \/ SetHomeserver \/ HttpClient \/ RespectLoginWellKnown \/ ServerVersions \/ New
  \/ \E s \in HttpSettings : HttpSetting(s)
  \/ Refused \/ Discover \/ DiscoveryFails \/ Built

----------------------------------------------------------------------------
(* The client's calls.                                                     *)

Go(c, place) == at' = [at EXCEPT ![c] = place]

Carries(token, url) == [token |-> token, homeserver |-> url]
Nothing == Carries(FALSE, "given")

\* The call is over, and what it read forgotten.
Return(c) ==
  /\ Go(c, "idle")
  /\ call' = [call EXCEPT ![c] = "open"]
  /\ sends' = [sends EXCEPT ![c] = Nothing]

SettingUp(c) == at[c] # "idle" /\ call[c] \in {"login", "restore"}

Begin_Unchecked(c, k) ==
  /\ build = "done" /\ at[c] = "idle"
  /\ k \in {"login", "restore"} => ~tokens /\ ~\E d \in Tasks : SettingUp(d)
  /\ Go(c, IF k = "restore" THEN "tokens" ELSE "begun")
  /\ call' = [call EXCEPT ![c] = k]
  /\ UNCHANGED <<built, session, versions, cell, sends, overloaded>>

\* A call that needs our user id returns AuthenticationRequired where there is
\* none.
Begin(c, k) ==
  /\ build = "done" /\ at[c] = "idle"
  /\ k = "user" => meta
  /\ k \in {"login", "restore"} => ~tokens /\ ~\E d \in Tasks : SettingUp(d)
  /\ Go(c, IF k = "restore" THEN "tokens" ELSE "begun")
  /\ call' = [call EXCEPT ![c] = k]
  /\ UNCHANGED <<built, session, versions, cell, sends, overloaded>>

\* send_inner reads the homeserver and then the token, before it awaits the
\* versions; another thread may log in between any two of these.
ReadHomeserver(c) ==
  /\ at[c] = "begun"
  /\ Go(c, "homeserver")
  /\ sends' = [sends EXCEPT ![c] = Carries(sends[c].token, homeserver)]
  /\ UNCHANGED <<built, session, versions, cell, call, overloaded>>

ReadToken(c) ==
  /\ at[c] = "homeserver"
  /\ Go(c, "versions")
  /\ sends' = [sends EXCEPT ![c] = Carries(tokens, sends[c].homeserver)]
  /\ UNCHANGED <<built, session, versions, cell, call, overloaded>>

\* The request is serialised and sent, or lacks a token.
HaveVersions(c) ==
  /\ at[c] = "versions" /\ versions
  /\ IF sends[c].token \/ call[c] \in {"open", "login"}
     THEN Go(c, "sent") /\ UNCHANGED <<call, sends>>
     ELSE Return(c)
  /\ UNCHANGED <<built, session, versions, cell, overloaded>>

AskVersions(c) ==
  /\ at[c] = "versions" /\ ~versions
  /\ Go(c, IF cell = <<>> THEN "asking" ELSE "queued")
  /\ cell' = Append(cell, c)
  /\ UNCHANGED <<built, session, versions, call, sends, overloaded>>

\* The cell is set, or the one who tried to set it failed.
Woken(c) ==
  /\ at[c] = "queued"
  /\ \/ versions /\ Go(c, "versions")
     \/ ~versions /\ cell[1] = c /\ Go(c, "asking")
  /\ UNCHANGED <<built, session, versions, cell, call, sends, overloaded>>

VersionsArrive(c) ==
  /\ at[c] = "asking" /\ ~overloaded
  /\ versions' = TRUE
  /\ cell' = <<>>
  /\ Go(c, "versions")
  /\ UNCHANGED <<built, session, call, sends, overloaded>>

VersionsFail_KeepsCell(c) ==
  /\ at[c] = "asking"
  /\ Return(c)
  /\ UNCHANGED <<built, session, versions, cell, overloaded>>

VersionsFail(c) ==
  /\ at[c] = "asking"
  /\ cell' = Tail(cell)
  /\ Return(c)
  /\ UNCHANGED <<built, session, versions, overloaded>>

Respond(c) ==
  /\ at[c] = "sent" /\ ~overloaded
  /\ IF call[c] = "login" THEN Go(c, "received") /\ UNCHANGED <<call, sends>> ELSE Return(c)
  /\ UNCHANGED <<built, session, versions, cell, overloaded>>

\* The request was refused, did not arrive or its answer was lost.
RequestFails(c) ==
  /\ at[c] = "sent"
  /\ Return(c)
  /\ UNCHANGED <<built, session, versions, cell, overloaded>>

\* receive_login_response: the login response may name the homeserver to use.
ReceiveLogin(c) ==
  /\ at[c] = "received"
  /\ homeserver' \in IF client.wellKnown THEN {homeserver, "login"} ELSE {homeserver}
  /\ Go(c, "tokens")
  /\ UNCHANGED <<built, tokens, meta, versions, cell, call, sends, overloaded>>

SetSessionTokens(c) ==
  /\ at[c] = "tokens"
  /\ tokens' = TRUE
  /\ Go(c, "meta")
  /\ UNCHANGED <<built, homeserver, meta, versions, cell, call, sends, overloaded>>

SetSessionMeta(c) ==
  /\ at[c] = "meta"
  /\ meta' = TRUE
  /\ Return(c)
  /\ UNCHANGED <<built, homeserver, tokens, versions, cell, overloaded>>

\* The end of a request, and what a task does without one.
RequestEnds(c) == VersionsArrive(c) \/ VersionsFail(c) \/ Respond(c) \/ RequestFails(c)
TaskStep(c) ==
  \/ ReadHomeserver(c) \/ ReadToken(c) \/ HaveVersions(c) \/ AskVersions(c) \/ Woken(c)
  \/ ReceiveLogin(c) \/ SetSessionTokens(c) \/ SetSessionMeta(c)

Proceed(c) == TaskStep(c) \/ RequestEnds(c)

\* The server answers everything with 429 or 5xx for a time.
LoadTurns ==
  /\ overloaded' = ~overloaded
  /\ UNCHANGED <<built, session, versions, cell, at, call, sends>>

SessionInit ==
  /\ builder = NewBuilder /\ build = "configuring"
  /\ client = [wellKnown |-> TRUE]
  /\ homeserver = "given"
  /\ versions = FALSE /\ cell = <<>>
  /\ tokens = FALSE /\ meta = FALSE
  /\ at = [c \in Tasks |-> "idle"]
  /\ call = [c \in Tasks |-> "open"]
  /\ sends = [c \in Tasks |-> Nothing]
  /\ overloaded = FALSE

SessionNext ==
  \/ BuilderNext \/ LoadTurns
  \/ \E c \in Tasks :
       (\E k \in Calls : Begin(c, k)) \/ Proceed(c)

SessionSpec == SessionInit /\ [][SessionNext]_sessionVars

\* Requests are repeated for as long as the server is busy, without a limit.  What
\* the code cannot bring about is assumed: the server never stays busy, and lets
\* a request end that it gets again and again while it is not.
LoadEases ==
  /\ WF_sessionVars(overloaded /\ LoadTurns)
  /\ \A c \in Tasks : SF_sessionVars(~overloaded /\ RequestEnds(c))

\* tokio runs the tasks.
SessionFairness == (\A c \in Tasks : WF_sessionVars(TaskStep(c))) /\ LoadEases

----------------------------------------------------------------------------
BuildOutcomes ==
  { "configuring", "discovering", "done",
    "MissingHomeserver", "AutoDiscovery", "Http", "Url" }

\* The client and the calls are in states that fit; the initialisation of the
\* versions has at most one owner; and, by the type of build, new's
\* unreachable! (builder.rs:567) is not reached.
SessionTypeOK ==
  /\ builder \in Builders /\ build \in BuildOutcomes
  /\ client \in [wellKnown : BOOLEAN]
  /\ homeserver \in {"given", "discovered", "login"}
  /\ versions \in BOOLEAN /\ tokens \in BOOLEAN /\ meta \in BOOLEAN
  /\ cell \in Seq(Tasks)
  /\ at \in [Tasks -> Places] /\ call \in [Tasks -> Calls]
  /\ sends \in [Tasks -> [token : BOOLEAN,
                          homeserver : {"given", "discovered", "login"}]]
  /\ overloaded \in BOOLEAN

\* A call that needs our user id is sent with the token of the session and to
\* the homeserver that the login named: it began after both were in place,
\* though it reads them one by one and awaits the versions with them in hand.
\* (A call that does not check may carry the token to the homeserver from
\* before the login.)
CheckedCallsAreAuthorised ==
  \A c \in Tasks :
    at[c] = "sent" /\ call[c] = "user" =>
      sends[c].token /\ sends[c].homeserver = homeserver

\* Given a server that recovers, every call returns, whoever waits for the versions
\* and however often they cannot be had.
SessionCallsReturn == \A c \in Tasks : []<>(at[c] = "idle")
=============================================================================

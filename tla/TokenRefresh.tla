---------------------------- MODULE TokenRefresh ----------------------------
(***************************************************************************)
(* Client::send and Client::refresh_access_token (matrix/mod.rs).  A send  *)
(* that is rejected with M_UNKNOWN_TOKEN refreshes the access token and is *)
(* repeated once.  Of several tasks that refresh at once, the one that     *)
(* gets refresh_token_lock with try_lock leads; the others await the lock  *)
(* and read in it how the refresh went.                                    *)
(*                                                                         *)
(* Tokens are numbered as the server issues them; the refresh token is the *)
(* one issued with the access token.  The client was built with            *)
(* handle_refresh_tokens.                                                  *)
(***************************************************************************)
EXTENDS Naturals, Sequences

CONSTANTS
  Callers,   \* tasks that use the client
  MaxToken,  \* the server refuses to issue more tokens than this
  Sessions,  \* the sessions to consider: see the variable session
  Envs       \* the environments to consider: each a set of EnvKinds

EnvKinds ==
  { "error",     \* refresh requests are refused or do not reach the server
    "lost",      \* the answer to a refresh request is lost, or is a 5xx
    "busy",      \* the server answers everything with 429 or 5xx for a time
    "versions",  \* the request for the server's versions fails
    "hasty" }    \* the server ends a token as soon as it was issued

SessionKinds == {"none", "plain", "refreshable"}

ASSUME SessionsAssumption == Sessions \subseteq SessionKinds
ASSUME MaxTokenAssumption == MaxToken \in Nat \ {0}
ASSUME EnvsAssumption == Envs \subseteq SUBSET EnvKinds

VARIABLES
  pc,        \* where a caller is
  used,      \* the token it last sent with; 0 outside send
  lock,      \* refresh_token_lock: the holder, then who awaits it in order
  outcome,   \* the Result the lock guards
  session,   \* whether the client has session tokens, and a refresh token
  token,     \* its access token, 0 for none
  versions,  \* whether the OnceCell server_versions is set
  newest,    \* the newest token the server has issued
  dead,      \* the server rejects this token and all older ones
  answer,    \* the token in the response to a refresh request
  env,       \* the environment of this run, fixed
  serverBusy \* whether the server is busy: HttpClient::send then repeats a request

client == <<lock, outcome, session, token, versions>>
serverSide == <<newest, dead>>
world == <<env, serverBusy>>
vars == <<pc, used, client, serverSide, answer, world>>

States ==
  { "idle", "sent", "refresh", "missed", "queued", "holding", "refreshing",
    "rotated", "resend", "resent" }

----------------------------------------------------------------------------
Go(c, s) == pc' = [pc EXCEPT ![c] = s]

Leads(c) == pc[c] \in {"holding", "refreshing", "rotated"}
Follows(c) == pc[c] \in {"missed", "queued"}

\* The call is over.
Finish(c) == Go(c, "idle") /\ used' = [used EXCEPT ![c] = 0]

\* refresh_access_token returns.  A send goes on after Ok; after Err it ends,
\* with that error or with the one it had.
Return(c, ok) ==
  IF ok /\ used[c] # 0 THEN Go(c, "resend") /\ UNCHANGED used ELSE Finish(c)

\* The guard is dropped: the lock passes to the next in line, who has yet to
\* run, so that try_lock goes on failing.
Unlock == lock' = Tail(lock)

----------------------------------------------------------------------------
(* Sending a request.                                                      *)

\* (A send that cannot get the server's versions ends before it is made.)
Send(c) ==
  /\ pc[c] = "idle" /\ token # 0
  /\ Go(c, "sent")
  /\ used' = [used EXCEPT ![c] = token]
  /\ versions' = TRUE
  /\ UNCHANGED <<lock, outcome, session, token, serverSide, answer, world>>

\* An answer, or an error other than M_UNKNOWN_TOKEN.
Answered(c) ==
  /\ pc[c] \in {"sent", "resent"} /\ ~serverBusy
  /\ Finish(c)
  /\ UNCHANGED <<client, serverSide, answer, world>>

Rejected(c) ==
  /\ pc[c] = "sent" /\ used[c] <= dead /\ ~serverBusy
  /\ Go(c, "refresh")
  /\ UNCHANGED <<used, client, serverSide, answer, world>>

\* The second attempt reads the session's token anew.
Resend(c) ==
  /\ pc[c] = "resend"
  /\ Go(c, "resent")
  /\ used' = [used EXCEPT ![c] = token]
  /\ UNCHANGED <<client, serverSide, answer, world>>

RejectedAgain(c) ==
  /\ pc[c] = "resent" /\ used[c] <= dead /\ ~serverBusy
  /\ Finish(c)
  /\ UNCHANGED <<client, serverSide, answer, world>>

----------------------------------------------------------------------------
(* refresh_access_token: who leads.                                        *)

CallRefresh(c) ==
  /\ pc[c] = "idle"
  /\ Go(c, "refresh")
  /\ UNCHANGED <<used, client, serverSide, answer, world>>

leadUnchanged == <<outcome, session, token, serverSide, answer, world>>

Lead_Unlocked(c) ==
  /\ pc[c] = "refresh"
  /\ lock' = Append(lock, c)
  /\ Go(c, "holding")
  /\ UNCHANGED <<leadUnchanged, used, versions>>

Lead(c) ==
  /\ pc[c] = "refresh" /\ lock = << >>
  /\ lock' = <<c>>
  /\ Go(c, "holding")
  /\ UNCHANGED <<leadUnchanged, used, versions>>

\* The lock may be free again before the caller gets in line.
Miss(c) ==
  /\ pc[c] = "refresh" /\ lock # << >>
  /\ Go(c, "missed")
  /\ UNCHANGED <<leadUnchanged, used, lock, versions>>

Enqueue(c) ==
  /\ pc[c] = "missed"
  /\ lock' = Append(lock, c)
  /\ Go(c, "queued")
  /\ UNCHANGED <<leadUnchanged, used, versions>>

Follow_Unwrapped(c) ==
  /\ pc[c] = "queued" /\ Head(lock) = c
  /\ Unlock
  /\ IF outcome = "ok" THEN Return(c, TRUE)
                        ELSE Go(c, "panicked") /\ UNCHANGED used
  /\ UNCHANGED <<leadUnchanged, versions>>

\* Err of any kind becomes UnableToRefreshToken.
Follow(c) ==
  /\ pc[c] = "queued" /\ Head(lock) = c
  /\ Unlock
  /\ Return(c, outcome = "ok")
  /\ UNCHANGED <<leadUnchanged, versions>>

----------------------------------------------------------------------------
(* refresh_access_token of the caller that leads.                          *)

NoSession(c) ==
  /\ pc[c] = "holding" /\ session = "none"
  /\ outcome' = "err"
  /\ Unlock
  /\ Return(c, FALSE)
  /\ UNCHANGED <<session, token, versions, serverSide, answer, world>>

\* `?` leaves the outcome as it was; so does that of server_versions().
NoRefreshToken(c) ==
  /\ pc[c] = "holding" /\ session = "plain"
  /\ Unlock
  /\ Return(c, FALSE)
  /\ UNCHANGED <<leadUnchanged, versions>>

NoVersions(c) ==
  /\ pc[c] = "holding" /\ session = "refreshable"
  /\ "versions" \in env /\ ~versions
  /\ Unlock
  /\ Return(c, FALSE)
  /\ UNCHANGED <<leadUnchanged, versions>>

Request(c) ==
  /\ pc[c] = "holding" /\ session = "refreshable"
  /\ versions \/ ~serverBusy
  /\ Go(c, "refreshing")
  /\ versions' = TRUE
  /\ UNCHANGED <<leadUnchanged, used, lock>>

\* The server issues new tokens; the old ones end now or later.
Rotate(c) ==
  /\ pc[c] = "refreshing" /\ newest < MaxToken /\ ~serverBusy
  /\ Go(c, "rotated")
  /\ newest' = newest + 1
  /\ dead' \in {dead, newest}
  /\ answer' = [answer EXCEPT ![c] = newest + 1]
  /\ UNCHANGED <<used, client, world>>

\* The server did so but says 5xx: HttpClient::send repeats the request, with the
\* refresh token that was replaced.
Repeat(c) ==
  /\ pc[c] = "rotated" /\ "lost" \in env
  /\ Go(c, "refreshing")
  /\ answer' = [answer EXCEPT ![c] = 0]
  /\ UNCHANGED <<used, client, serverSide, world>>

\* The leader is done with the endpoint's answer.
Leave(c, ok) ==
  /\ Unlock
  /\ Return(c, ok)
  /\ answer' = [answer EXCEPT ![c] = 0]

RefreshOk(c) ==
  /\ pc[c] = "rotated"
  /\ outcome' = "ok"
  /\ token' = answer[c]
  /\ Leave(c, TRUE)
  /\ UNCHANGED <<session, versions, serverSide, world>>

RequestFails(c) ==
  \/ pc[c] = "refreshing" /\ ("error" \in env \/ (newest = MaxToken /\ ~serverBusy))
  \/ pc[c] = "rotated" /\ "lost" \in env

RefreshErr_Early(c) ==
  /\ RequestFails(c)
  /\ Leave(c, FALSE)
  /\ UNCHANGED <<outcome, session, token, versions, serverSide, world>>

RefreshErr_Locked(c) ==
  /\ RequestFails(c)
  /\ outcome' = "err"
  /\ Return(c, FALSE)
  /\ UNCHANGED <<lock, session, token, versions, serverSide, answer, world>>

\* The answer never comes, or is a refusal.
RefreshErr(c) ==
  /\ RequestFails(c)
  /\ outcome' = "err"
  /\ Leave(c, FALSE)
  /\ UNCHANGED <<session, token, versions, serverSide, world>>

----------------------------------------------------------------------------
\* The server ends tokens that were not replaced (time, logout elsewhere);
\* unless hasty, none while it is still being handed to those who wait for it.
Expire ==
  /\ "hasty" \in env \/ \A c \in Callers : ~Leads(c) /\ ~Follows(c)
  /\ dead < newest
  /\ dead' = newest
  /\ UNCHANGED <<pc, used, client, newest, answer, world>>

ServerTurns ==
  /\ "busy" \in env
  /\ serverBusy' = ~serverBusy
  /\ UNCHANGED <<pc, used, client, serverSide, answer, env>>

Init ==
  /\ pc = [c \in Callers |-> "idle"]
  /\ used = [c \in Callers |-> 0]
  /\ lock = << >>
  /\ outcome = "ok"
  /\ session \in Sessions
  /\ token = IF session = "none" THEN 0 ELSE 1
  /\ versions = FALSE
  /\ newest = token
  /\ dead = 0
  /\ answer = [c \in Callers |-> 0]
  /\ env \in Envs
  /\ serverBusy = FALSE

SendStep(c) == Answered(c) \/ Rejected(c) \/ Resend(c) \/ RejectedAgain(c)
LockStep(c) == Lead(c) \/ Miss(c) \/ Enqueue(c) \/ Follow(c)
LeaderStep(c) ==
  \/ NoSession(c) \/ NoRefreshToken(c) \/ NoVersions(c)
  \/ Request(c) \/ Rotate(c) \/ Repeat(c) \/ RefreshOk(c) \/ RefreshErr(c)

\* A step of a call that has begun.
Proceed(c) == SendStep(c) \/ LockStep(c) \/ LeaderStep(c)

Next ==
  \/ \E c \in Callers : Send(c) \/ CallRefresh(c) \/ Proceed(c)
  \/ Expire \/ ServerTurns

Spec == Init /\ [][Next]_vars

\* What a caller does with nothing more from the server, and what it waits for.
OwnStep(c) == Resend(c) \/ LockStep(c) \/ NoSession(c) \/ NoRefreshToken(c) \/ RefreshOk(c)
AnswerStep(c) ==
  \/ Answered(c) \/ Rejected(c) \/ RejectedAgain(c)
  \/ NoVersions(c) \/ Request(c) \/ Rotate(c) \/ RefreshErr(c)

\* Requests are repeated for as long as the server is busy, without a limit.  What
\* the code cannot bring about is assumed: the server never stays busy, and lets
\* a request end that it gets again and again while it is not.
ServerRecovers ==
  /\ WF_vars(serverBusy /\ ServerTurns)
  /\ \A c \in Callers : SF_vars(~serverBusy /\ AnswerStep(c))

\* tokio runs the callers, and its Mutex is fair.
FairSpec == Spec /\ (\A c \in Callers : WF_vars(OwnStep(c))) /\ ServerRecovers

----------------------------------------------------------------------------
TypeOK ==
  /\ pc \in [Callers -> States]
  /\ used \in [Callers -> Nat]
  /\ lock \in Seq(Callers)
  /\ outcome \in {"ok", "err"}
  /\ session \in SessionKinds
  /\ token \in Nat
  /\ versions \in BOOLEAN
  /\ newest \in Nat
  /\ dead \in Nat
  /\ answer \in [Callers -> Nat]
  /\ env \in SUBSET EnvKinds /\ serverBusy \in BOOLEAN

\* A send that is repeated after a refresh, its own or one it waited for, is
\* repeated with a newer token than the one that was rejected.  That needs a
\* leader that reports how it ended, and a server that lets a new token live
\* until those who waited for it have it.
RetryIsNewer ==
  env \cap {"versions", "hasty"} = {} /\ session = "refreshable" =>
    \A c \in Callers : pc[c] = "resend" => used[c] < token

\* Between refreshes the client holds the newest tokens the server issued:
\* two answers never overtake one another, none is dropped or stored twice.
HoldsNewest ==
  "lost" \notin env =>
    token = newest \/ \E c \in Callers : pc[c] = "rotated" /\ answer[c] = newest

\* Given a server that recovers, every send and every refresh ends, whoever leads
\* and however that goes.
EveryCallReturns == \A c \in Callers : []<>(pc[c] = "idle")

\* "the others will return Ok(None) if the token was refreshed by the first
\* call or a RefreshTokenError error, if it failed": who has waited for the
\* lock and now reads Ok in it is the client of a token that was refreshed.
ToldTheTruth ==
  \A c \in Callers :
    pc[c] = "queued" /\ Head(lock) = c /\ outcome = "ok" => token > 1
============================================================================

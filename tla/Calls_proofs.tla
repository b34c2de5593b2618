---------------------------- MODULE Calls_proofs ----------------------------
(* Proofs about the calls of a client: the requests of HttpRequests, for    *)
(* every set of configurations, and the calls of ClientSession, for every   *)
(* set of tasks.                                                            *)
EXTENDS HttpRequests, ClientSession, TLAPS

----------------------------------------------------------------------------
(* HttpRequests.                                                            *)

BusyAnswers == {"limited", "limited_for", "server_error"}

\* The limit of the call, if it has one.
Limited == config.retryLimit # NoLimit

\* The counter is one ahead of the attempts made before the one under way, and
\* an attempt is followed by another only below the limit.
CountInv ==
  /\ Limited /\ phase # "idle" => tries + 1 = retryCount
  /\ phase \in {"ready", "waiting"} => tries = 0 \/ (Limited => tries < config.retryLimit)
  /\ phase = "sent" => (stop <=> Limited /\ tries >= config.retryLimit)
  /\ Limited => tries <= config.retryLimit \/ tries <= 1

\* Whoever is still at it was told only to come back later; and whoever came
\* back with such an error was out of time or attempts.
GotInv ==
  /\ phase # "idle" => got \subseteq BusyAnswers
  /\ phase = "idle" /\ result = "Api" /\ got # {} /\ (\A a \in got : Transient(a)) =>
       late \/ tries >= config.retryLimit

RequestInv == RequestTypeOK /\ CountInv /\ GotInv

LEMMA ConfigFacts ==
  ASSUME NEW cfg \in Configs
  PROVE  /\ cfg \in RequestConfig
         /\ cfg.retryLimit \in Nat
         /\ cfg.retryLimit # NoLimit => cfg.retryLimit < MaxTries
         /\ MaxTries \in Nat
BY ConfigsAssumption DEF RequestConfig, NoLimit

LEMMA InitRequestInv == RequestInit => RequestInv
<1> SUFFICES ASSUME RequestInit PROVE RequestInv
  OBVIOUS
<1>1. config \in Configs
  BY ConfigsAssumption DEF RequestInit
<1>2. config.retryLimit \in Nat /\ MaxTries \in Nat
  BY <1>1, ConfigFacts
<1>3. RequestTypeOK
  <2>1. loggedIn \in BOOLEAN /\ bearer \in BOOLEAN /\ stop \in BOOLEAN /\ late \in BOOLEAN
    BY DEF RequestInit
  <2>2. ~bearer
    BY DEF RequestInit
  <2>3. 1 \in Nat \ {0} /\ 0 \in 0 .. MaxTries /\ {} \subseteq Answers
    BY <1>2
  <2>4. retryCount \in Nat \ {0} /\ tries \in 0 .. MaxTries /\ got \subseteq Answers
    BY <2>3, Zenon DEF RequestInit
  <2>5. phase \in Phases /\ result \in Results /\ auth \in AuthScheme
    BY DEF RequestInit, Phases, Results, AuthScheme
  <2>6. QED
    BY <1>1, <2>1, <2>2, <2>4, <2>5, Zenon DEF RequestTypeOK
<1>4. CountInv /\ GotInv
  BY <1>2 DEF RequestInit, CountInv, GotInv, Limited
<1>5. QED
  BY <1>3, <1>4 DEF RequestInv

LEMMA RefusePreserves ==
  ASSUME RequestInv, NEW scheme \in AuthScheme, NEW cfg \in Configs, Refuse(scheme, cfg)
  PROVE  RequestInv'
<1>1. cfg.retryLimit \in Nat /\ MaxTries \in Nat
  BY ConfigFacts
<1>2. phase' = "idle" /\ result' \in {"NotClientRequest", "IntoHttp"}
  BY DEF Refuse, Finish
<1>3. RequestTypeOK'
  BY <1>1, <1>2 DEF RequestInv, RequestTypeOK, Refuse, Phases, Results
<1>4. CountInv' /\ GotInv'
  BY <1>1, <1>2 DEF Refuse, CountInv, GotInv, Limited
<1>5. QED
  BY <1>3, <1>4 DEF RequestInv

LEMMA SerialisePreserves ==
  ASSUME RequestInv, NEW scheme \in AuthScheme, NEW cfg \in Configs, Serialise(scheme, cfg)
  PROVE  RequestInv'
<1>1. cfg.retryLimit \in Nat /\ MaxTries \in Nat
  BY ConfigFacts
<1>2. /\ phase' = "ready" /\ result' = result /\ auth' = scheme /\ config' = cfg
      /\ retryCount' = 1 /\ stop' = FALSE /\ late' = FALSE /\ tries' = 0 /\ got' = {}
      /\ loggedIn' = loggedIn
  BY DEF Serialise
<1>3. bearer' \in BOOLEAN /\ (bearer' => loggedIn')
  BY DEF Serialise
<1>4. RequestTypeOK'
  <2>1. 1 \in Nat \ {0} /\ 0 \in 0 .. MaxTries /\ {} \subseteq Answers /\ "ready" \in Phases
    BY <1>1 DEF Phases
  <2>2. loggedIn' \in BOOLEAN /\ result' \in Results
    BY <1>2, Zenon DEF RequestInv, RequestTypeOK
  <2>3. stop' \in BOOLEAN /\ late' \in BOOLEAN
    BY <1>2
  <2>4. QED
    BY <1>2, <1>3, <2>1, <2>2, <2>3, Zenon DEF RequestTypeOK
<1>5. CountInv' /\ GotInv'
  BY <1>1, <1>2 DEF CountInv, GotInv, Limited
<1>6. QED
  BY <1>4, <1>5 DEF RequestInv

\* The attempt under way is the last one if it uses up the limit.
LEMMA AttemptPreserves ==
  ASSUME RequestInv, Attempt
  PROVE  RequestInv'
<1>1. /\ config \in Configs /\ config.retryLimit \in Nat /\ MaxTries \in Nat
      /\ Limited => config.retryLimit < MaxTries
      /\ tries \in 0 .. MaxTries /\ retryCount \in Nat \ {0}
  BY ConfigFacts DEF RequestInv, RequestTypeOK, Limited
<1>2. /\ phase = "ready" /\ phase' = "sent" /\ config' = config /\ result' = result
      /\ got' = got /\ late' = late /\ auth' = auth /\ loggedIn' = loggedIn /\ bearer' = bearer
      /\ tries' = IF tries < MaxTries THEN tries + 1 ELSE tries
  BY DEF Attempt
<1>3. tries' \in 0 .. MaxTries
  BY <1>1, <1>2
<1>4. CASE Limited
  <2>1. /\ stop' = (retryCount >= config.retryLimit) /\ retryCount' = retryCount + 1
    BY <1>4 DEF Attempt, Limited
  <2>2. tries + 1 = retryCount /\ (tries = 0 \/ tries < config.retryLimit)
    BY <1>2, <1>4 DEF RequestInv, CountInv
  <2>3. tries < MaxTries /\ tries' = tries + 1
    BY <2>2, <1>1, <1>2, <1>4
  <2>4. stop' <=> tries' >= config.retryLimit
    BY <2>1, <2>2, <2>3
  <2>5. tries' + 1 = retryCount' /\ (tries' <= config.retryLimit \/ tries' <= 1)
    BY <2>1, <2>2, <2>3, <1>1
  <2>6. CountInv'
    BY <1>2, <1>4, <2>4, <2>5 DEF CountInv, Limited
  <2>7. stop' \in BOOLEAN /\ retryCount' \in Nat \ {0}
    BY <2>1, <1>1
  <2>8. QED
    BY <1>1, <1>2, <1>3, <2>6, <2>7 DEF RequestInv, RequestTypeOK, GotInv, Phases
<1>5. CASE ~Limited
  <2>1. stop' = FALSE /\ retryCount' = retryCount
    BY <1>5 DEF Attempt, Limited
  <2>2. CountInv'
    BY <1>2, <1>5, <2>1 DEF CountInv, Limited
  <2>3. QED
    BY <1>1, <1>2, <1>3, <2>1, <2>2 DEF RequestInv, RequestTypeOK, GotInv, Phases
<1>6. QED
  BY <1>4, <1>5

LEMMA SucceedPreserves ==
  ASSUME RequestInv, Succeed
  PROVE  RequestInv'
<1>1. /\ phase' = "idle" /\ result' = "Ok" /\ got' = got \cup {"ok"}
      /\ UNCHANGED <<auth, config, loggedIn, bearer, retryCount, stop, late, tries>>
  BY DEF Succeed, Finish
<1>2. RequestTypeOK'
  BY <1>1 DEF RequestInv, RequestTypeOK, Phases, Results, Answers
<1>3. CountInv' /\ GotInv'
  BY <1>1 DEF RequestInv, CountInv, GotInv, Limited
<1>4. QED
  BY <1>2, <1>3 DEF RequestInv

\* Giving up on an answer one could have come back for takes a last attempt,
\* or that the time is over.
LEMMA FailPreserves ==
  ASSUME RequestInv, NEW answer \in Answers \ {"ok"}, Fail(answer)
  PROVE  RequestInv'
<1>1. /\ phase = "sent" /\ got' = got \cup {answer} /\ got \subseteq BusyAnswers
      /\ UNCHANGED <<auth, config, loggedIn, bearer, retryCount, stop, late, tries>>
      /\ got \subseteq Answers
  BY DEF Fail, RequestInv, GotInv, RequestTypeOK
<1>2. stop <=> (Limited /\ tries >= config.retryLimit)
  BY <1>1 DEF RequestInv, CountInv
<1>3. CASE GivesUp(answer)
  <2>1. phase' = "idle" /\ result' = HttpError(answer)
    BY <1>3 DEF Fail, Finish
  <2>2. HttpError(answer) \in Results
    BY DEF HttpError, Results
  <2>3. RequestTypeOK'
    BY <1>1, <2>1, <2>2 DEF RequestInv, RequestTypeOK, Phases
  <2>4. CountInv'
    BY <1>1, <2>1 DEF RequestInv, CountInv, Limited
  <2>5. Transient(answer) => late \/ tries >= config.retryLimit
    BY <1>2, <1>3 DEF GivesUp
  <2>6. GotInv'
    BY <1>1, <2>1, <2>5 DEF GotInv
  <2>7. QED
    BY <2>3, <2>4, <2>6 DEF RequestInv
<1>4. CASE ~GivesUp(answer)
  <2>1. phase' = "waiting" /\ result' = result
    BY <1>4 DEF Fail
  <2>2. ~stop /\ answer \in BusyAnswers
    BY <1>4 DEF GivesUp, Transient, BusyAnswers
  <2>3. RequestTypeOK'
    BY <1>1, <2>1 DEF RequestInv, RequestTypeOK, Phases
  <2>4. tries \in Nat /\ config.retryLimit \in Nat
    BY ConfigFacts DEF RequestInv, RequestTypeOK
  <2>5. CountInv'
    BY <1>1, <1>2, <2>1, <2>2, <2>4 DEF RequestInv, CountInv, Limited
  <2>6. GotInv'
    BY <1>1, <2>1, <2>2 DEF GotInv
  <2>7. QED
    BY <2>3, <2>5, <2>6 DEF RequestInv
<1>5. QED
  BY <1>3, <1>4

LEMMA RestPreserves ==
  ASSUME RequestInv, Wake \/ TimePasses \/ LogIn \/ UNCHANGED requestVars
  PROVE  RequestInv'
<1>1. CASE Wake
  BY <1>1 DEF RequestInv, RequestTypeOK, CountInv, GotInv, Limited, Wake, Phases
<1>2. CASE TimePasses
  BY <1>2 DEF RequestInv, RequestTypeOK, CountInv, GotInv, Limited, TimePasses
<1>3. CASE LogIn
  BY <1>3 DEF RequestInv, RequestTypeOK, CountInv, GotInv, Limited, LogIn
<1>4. CASE UNCHANGED requestVars
  BY <1>4 DEF RequestInv, RequestTypeOK, CountInv, GotInv, Limited, requestVars
<1>5. QED
  BY <1>1, <1>2, <1>3, <1>4

LEMMA StepRequestInv == RequestInv /\ [RequestNext]_requestVars => RequestInv'
<1> SUFFICES ASSUME RequestInv, [RequestNext]_requestVars PROVE RequestInv'
  OBVIOUS
<1>1. ASSUME NEW scheme \in AuthScheme, NEW cfg \in Configs,
             Refuse(scheme, cfg) \/ Serialise(scheme, cfg)
      PROVE  RequestInv'
  BY <1>1, RefusePreserves, SerialisePreserves
<1>2. ASSUME NEW answer \in Answers \ {"ok"}, Fail(answer) PROVE RequestInv'
  BY <1>2, FailPreserves
<1>3. QED
  BY <1>1, <1>2, AttemptPreserves, SucceedPreserves, RestPreserves DEF RequestNext, Progress

----------------------------------------------------------------------------
\* A call makes as many attempts as its limit allows (http_client.rs, the
\* counter of send_request), and gives up on a busy server only then or when
\* its time is over.
THEOREM AttemptsBounded == RequestSpec => []LimitIsExact
<1>1. RequestInv => LimitIsExact
  BY DEF RequestInv, CountInv, GotInv, LimitIsExact, Limited
<1>2. QED
  BY <1>1, InitRequestInv, StepRequestInv, PTL DEF RequestSpec

\* The state of a request keeps its type, with the number of attempts at
\* most MaxTries and a token only where the call may have one.
THEOREM RequestTyped == RequestSpec => []RequestTypeOK
<1>1. RequestInv => RequestTypeOK
  BY DEF RequestInv
<1>2. QED
  BY <1>1, InitRequestInv, StepRequestInv, PTL DEF RequestSpec

----------------------------------------------------------------------------
(* ClientSession.                                                           *)

Urls == {"given", "discovered", "login"}

SessionTypeInv ==
  /\ at \in [Tasks -> Places] /\ call \in [Tasks -> Calls]
  /\ sends \in [Tasks -> [token : BOOLEAN, homeserver : Urls]]
  /\ homeserver \in Urls
  /\ tokens \in BOOLEAN

\* Calls are made on a client that has been built; who stores a session is the
\* only one that does, and ends when both halves of it are there.
SetUpInv ==
  /\ build # "done" => \A c \in Tasks : at[c] = "idle"
  /\ \A c, d \in Tasks : SettingUp(c) /\ SettingUp(d) => c = d
  /\ \A c \in Tasks : at[c] \in {"received", "tokens", "meta"} => SettingUp(c)
  /\ tokens => \A c \in Tasks : SettingUp(c) => at[c] = "meta"
  /\ \A c \in Tasks : at[c] = "meta" => tokens
  /\ meta => tokens /\ \A c \in Tasks : ~SettingUp(c)

\* A call that needs our user id holds what is there for good.
HeldInv ==
  \A c \in Tasks : at[c] # "idle" /\ call[c] = "user" =>
    /\ meta
    /\ at[c] # "begun" => sends[c].homeserver = homeserver
    /\ at[c] \notin {"begun", "homeserver"} => sends[c].token

SessionInv == SessionTypeInv /\ SetUpInv /\ HeldInv

LEMMA InitSessionInv == SessionInit => SessionInv
<1> SUFFICES ASSUME SessionInit PROVE SessionInv
  OBVIOUS
<1>1. /\ \A c \in Tasks : at[c] = "idle"
      /\ tokens = FALSE /\ meta = FALSE /\ homeserver = "given"
  BY DEF SessionInit
<1>2. Nothing \in [token : BOOLEAN, homeserver : Urls]
  BY DEF Nothing, Carries, Urls
<1>3. /\ at \in [Tasks -> Places] /\ call \in [Tasks -> Calls]
      /\ sends \in [Tasks -> [token : BOOLEAN, homeserver : Urls]]
  BY <1>2 DEF SessionInit, Places, Calls
<1>4. SessionTypeInv
  BY <1>1, <1>3 DEF SessionTypeInv, Urls
<1>5. SetUpInv /\ HeldInv
  BY <1>1 DEF SetUpInv, HeldInv, SettingUp
<1>6. QED
  BY <1>4, <1>5 DEF SessionInv

----------------------------------------------------------------------------
\* While the client is built nobody uses it.
LEMMA BuilderPreserves ==
  ASSUME SessionInv, BuilderNext
  PROVE  SessionInv'
<1>1. /\ UNCHANGED <<tokens, meta, at, call, sends>>
      /\ homeserver' \in {homeserver, "given", "discovered"}
  BY DEF BuilderNext, SetHomeserver, HttpClient, HttpSetting, RespectLoginWellKnown,
         ServerVersions, New, Configure, Refused, Discover, DiscoveryFails, Built, session
<1>2. build # "done"
  BY DEF BuilderNext, SetHomeserver, HttpClient, HttpSetting, RespectLoginWellKnown,
         ServerVersions, New, Configure, Refused, Discover, DiscoveryFails, Built
<1>3. \A c \in Tasks : at[c] = "idle"
  BY <1>2 DEF SessionInv, SetUpInv
<1>4. homeserver' \in Urls
  BY <1>1 DEF SessionInv, SessionTypeInv, Urls
<1>5. SessionTypeInv'
  BY <1>1, <1>4, Zenon DEF SessionInv, SessionTypeInv
<1>6. SetUpInv' /\ HeldInv'
  BY <1>1, <1>3 DEF SessionInv, SetUpInv, HeldInv, SettingUp
<1>7. QED
  BY <1>5, <1>6 DEF SessionInv

LEMMA BeginPreserves ==
  ASSUME SessionInv, NEW c \in Tasks, NEW k \in Calls, Begin(c, k)
  PROVE  SessionInv'
<1>1. /\ build = "done" /\ build' = build /\ at[c] = "idle"
      /\ k = "user" => meta
      /\ k \in {"login", "restore"} => ~tokens /\ \A d \in Tasks : ~SettingUp(d)
      /\ at' = [at EXCEPT ![c] = IF k = "restore" THEN "tokens" ELSE "begun"]
      /\ call' = [call EXCEPT ![c] = k]
      /\ UNCHANGED <<homeserver, tokens, meta, sends>>
  BY DEF Begin, Go, built, session
<1>2. SessionTypeInv'
  <2>1. at' \in [Tasks -> Places] /\ call' \in [Tasks -> Calls]
    BY <1>1 DEF SessionInv, SessionTypeInv, Places
  <2>2. QED
    BY <1>1, <2>1, Zenon DEF SessionInv, SessionTypeInv
<1>3. /\ at'[c] = (IF k = "restore" THEN "tokens" ELSE "begun") /\ call'[c] = k
      /\ \A d \in Tasks \ {c} : at'[d] = at[d] /\ call'[d] = call[d]
  BY <1>1 DEF SessionInv, SessionTypeInv
<1>4. /\ SettingUp(c)' <=> k \in {"login", "restore"}
      /\ ~SettingUp(c)
      /\ \A d \in Tasks \ {c} : SettingUp(d)' <=> SettingUp(d)
  BY <1>1, <1>3 DEF SettingUp
<1>5. SetUpInv'
  <2>1. \A d, e \in Tasks : SettingUp(d)' /\ SettingUp(e)' => d = e
    BY <1>1, <1>4 DEF SessionInv, SetUpInv
  <2>2. \A d \in Tasks : at'[d] \in {"received", "tokens", "meta"} => SettingUp(d)'
    BY <1>3, <1>4 DEF SessionInv, SetUpInv
  <2>3. tokens => \A d \in Tasks : SettingUp(d)' => at'[d] = "meta"
    BY <1>1, <1>3, <1>4 DEF SessionInv, SetUpInv
  <2>4. meta => tokens /\ \A d \in Tasks : ~SettingUp(d)'
    BY <1>1, <1>4 DEF SessionInv, SetUpInv
  <2>5. \A d \in Tasks : at'[d] = "meta" => tokens
    BY <1>3 DEF SessionInv, SetUpInv
  <2>6. QED
    BY <1>1, <2>1, <2>2, <2>3, <2>4, <2>5 DEF SetUpInv, SettingUp
<1>6. HeldInv'
  BY <1>1, <1>3 DEF SessionInv, HeldInv
<1>7. QED
  BY <1>2, <1>5, <1>6 DEF SessionInv

----------------------------------------------------------------------------
\* A step of one call that neither sets nor unsets a part of the session.
LEMMA CallStep ==
  ASSUME SessionInv, NEW c \in Tasks, NEW p \in Places, at[c] # "idle", p # "idle",
         p \in {"received", "tokens"} => SettingUp(c) /\ ~tokens, p # "meta",
         at' = [at EXCEPT ![c] = p],
         UNCHANGED <<build, call, tokens, meta>>,
         NEW s \in [token : BOOLEAN, homeserver : Urls], sends' = [sends EXCEPT ![c] = s],
         homeserver' \in Urls,
         homeserver' = homeserver \/ SettingUp(c),
         call[c] = "user" /\ meta =>
           /\ p # "begun" => s.homeserver = homeserver
           /\ p \notin {"begun", "homeserver"} => s.token,
         ~(tokens /\ SettingUp(c))
  PROVE  SessionInv'
<1>1. /\ at'[c] = p /\ sends'[c] = s
      /\ \A d \in Tasks \ {c} : at'[d] = at[d] /\ sends'[d] = sends[d]
  BY DEF SessionInv, SessionTypeInv
<1>2. SessionTypeInv'
  <2>1. at' \in [Tasks -> Places] /\ sends' \in [Tasks -> [token : BOOLEAN, homeserver : Urls]]
    BY DEF SessionInv, SessionTypeInv
  <2>2. QED
    BY <2>1, Zenon DEF SessionInv, SessionTypeInv
<1>3. \A d \in Tasks : SettingUp(d)' <=> SettingUp(d)
  BY <1>1 DEF SettingUp
<1>4. SetUpInv'
  <2>1. \A d, e \in Tasks : SettingUp(d)' /\ SettingUp(e)' => d = e
    BY <1>3 DEF SessionInv, SetUpInv
  <2>2. \A d \in Tasks : at'[d] \in {"received", "tokens", "meta"} => SettingUp(d)'
    BY <1>1, <1>3 DEF SessionInv, SetUpInv
  <2>3. tokens => \A d \in Tasks : SettingUp(d)' => at'[d] = "meta"
    BY <1>1, <1>3 DEF SessionInv, SetUpInv
  <2>4. meta => tokens /\ \A d \in Tasks : ~SettingUp(d)'
    BY <1>3 DEF SessionInv, SetUpInv
  <2>5. build # "done" => \A d \in Tasks : at'[d] = "idle"
    BY DEF SessionInv, SetUpInv
  <2>6. \A d \in Tasks : at'[d] = "meta" => tokens
    BY <1>1 DEF SessionInv, SetUpInv
  <2>7. QED
    BY <2>1, <2>2, <2>3, <2>4, <2>5, <2>6 DEF SetUpInv, SettingUp
<1>5. meta => homeserver' = homeserver
  BY DEF SessionInv, SetUpInv
<1>6. ASSUME NEW d \in Tasks, at'[d] # "idle", call[d] = "user"
      PROVE  /\ meta
             /\ at'[d] # "begun" => sends'[d].homeserver = homeserver'
             /\ at'[d] \notin {"begun", "homeserver"} => sends'[d].token
  <2>1. CASE d = c
    BY <1>1, <1>5, <1>6, <2>1 DEF SessionInv, HeldInv
  <2>2. CASE d # c
    BY <1>1, <1>5, <1>6, <2>2 DEF SessionInv, HeldInv
  <2>3. QED
    BY <2>1, <2>2
<1>7. HeldInv'
  BY <1>6 DEF HeldInv
<1>8. QED
  BY <1>2, <1>4, <1>7 DEF SessionInv

\* The steps that leave what a call holds as it is.
LEMMA PlainStep ==
  ASSUME SessionInv, NEW c \in Tasks, NEW p \in Places, at[c] # "idle",
         p \notin {"idle", "begun", "homeserver"},
         p \in {"received", "tokens"} => SettingUp(c) /\ ~tokens, p # "meta",
         at[c] \notin {"begun", "homeserver", "tokens", "meta"},
         at' = [at EXCEPT ![c] = p],
         UNCHANGED <<build, call, tokens, meta, sends>>,
         homeserver' \in Urls,
         homeserver' = homeserver \/ SettingUp(c)
  PROVE  SessionInv'
<1>1. sends[c] \in [token : BOOLEAN, homeserver : Urls] /\ sends' = [sends EXCEPT ![c] = sends[c]]
  BY DEF SessionInv, SessionTypeInv
<1>2. call[c] = "user" /\ meta => sends[c].homeserver = homeserver /\ sends[c].token
  BY DEF SessionInv, HeldInv
<1>3. ~(tokens /\ SettingUp(c))
  BY DEF SessionInv, SetUpInv
<1>4. QED
  BY <1>1, <1>2, <1>3, CallStep

\* A call returns, with a new session or without.
LEMMA ReturnStep ==
  ASSUME SessionInv, NEW c \in Tasks, at[c] # "idle", Return(c), UNCHANGED <<build, homeserver, tokens>>,
         meta' = meta \/ (at[c] = "meta" /\ tokens /\ meta' = TRUE)
  PROVE  SessionInv'
<1>1. /\ at' = [at EXCEPT ![c] = "idle"] /\ call' = [call EXCEPT ![c] = "open"]
      /\ sends' = [sends EXCEPT ![c] = Nothing]
  BY DEF Return, Go
<1>2. Nothing \in [token : BOOLEAN, homeserver : Urls]
  BY DEF Nothing, Carries, Urls
<1>3. SessionTypeInv'
  <2>1. /\ at' \in [Tasks -> Places] /\ call' \in [Tasks -> Calls]
        /\ sends' \in [Tasks -> [token : BOOLEAN, homeserver : Urls]]
    BY <1>1, <1>2 DEF SessionInv, SessionTypeInv, Places, Calls
  <2>2. QED
    BY <2>1, Zenon DEF SessionInv, SessionTypeInv
<1>4. /\ at'[c] = "idle"
      /\ \A d \in Tasks \ {c} : at'[d] = at[d] /\ call'[d] = call[d] /\ sends'[d] = sends[d]
  BY <1>1 DEF SessionInv, SessionTypeInv
<1>5. ~SettingUp(c)' /\ \A d \in Tasks \ {c} : SettingUp(d)' <=> SettingUp(d)
  BY <1>4 DEF SettingUp
<1>6. at[c] = "meta" => \A d \in Tasks \ {c} : ~SettingUp(d)
  BY DEF SessionInv, SetUpInv
<1>7. SetUpInv'
  <2>1. \A d, e \in Tasks : SettingUp(d)' /\ SettingUp(e)' => d = e
    BY <1>5 DEF SessionInv, SetUpInv
  <2>2. \A d \in Tasks : at'[d] \in {"received", "tokens", "meta"} => SettingUp(d)'
    BY <1>4, <1>5 DEF SessionInv, SetUpInv
  <2>3. tokens => \A d \in Tasks : SettingUp(d)' => at'[d] = "meta"
    BY <1>4, <1>5 DEF SessionInv, SetUpInv
  <2>4. meta' => tokens /\ \A d \in Tasks : ~SettingUp(d)'
    BY <1>5, <1>6 DEF SessionInv, SetUpInv
  <2>5. build # "done" => \A d \in Tasks : at'[d] = "idle"
    BY DEF SessionInv, SetUpInv
  <2>6. \A d \in Tasks : at'[d] = "meta" => tokens
    BY <1>4 DEF SessionInv, SetUpInv
  <2>7. QED
    BY <2>1, <2>2, <2>3, <2>4, <2>5, <2>6 DEF SetUpInv, SettingUp
<1>8. meta => meta'
  OBVIOUS
<1>9. HeldInv'
  BY <1>4, <1>8 DEF SessionInv, HeldInv
<1>10. QED
  BY <1>3, <1>7, <1>9 DEF SessionInv

----------------------------------------------------------------------------
(* The steps of a call.                                                    *)

LEMMA ReadPreserves ==
  ASSUME SessionInv, NEW c \in Tasks, ReadHomeserver(c) \/ ReadToken(c)
  PROVE  SessionInv'
<1>1. /\ sends[c].token \in BOOLEAN /\ sends[c].homeserver \in Urls
      /\ homeserver \in Urls /\ tokens \in BOOLEAN
  BY DEF SessionInv, SessionTypeInv
<1>2. ~(tokens /\ SettingUp(c)) /\ (meta => tokens)
  BY DEF SessionInv, SetUpInv, ReadHomeserver, ReadToken
<1>3. CASE ReadHomeserver(c)
  <2>1. /\ at[c] = "begun" /\ at' = [at EXCEPT ![c] = "homeserver"]
        /\ UNCHANGED <<build, call, tokens, meta, homeserver>>
        /\ sends' = [sends EXCEPT ![c] = Carries(sends[c].token, homeserver)]
    BY <1>3 DEF ReadHomeserver, Go, built, session
  <2>2. /\ Carries(sends[c].token, homeserver) \in [token : BOOLEAN, homeserver : Urls]
        /\ Carries(sends[c].token, homeserver).homeserver = homeserver
    BY <1>1 DEF Carries
  <2>3. "homeserver" \in Places
    BY DEF Places
  <2>4. QED
    BY <1>1, <1>2, <2>1, <2>2, <2>3, CallStep
<1>4. CASE ReadToken(c)
  <2>1. /\ at[c] = "homeserver" /\ at' = [at EXCEPT ![c] = "versions"]
        /\ UNCHANGED <<build, call, tokens, meta, homeserver>>
        /\ sends' = [sends EXCEPT ![c] = Carries(tokens, sends[c].homeserver)]
    BY <1>4 DEF ReadToken, Go, built, session
  <2>2. /\ Carries(tokens, sends[c].homeserver) \in [token : BOOLEAN, homeserver : Urls]
        /\ Carries(tokens, sends[c].homeserver).homeserver = sends[c].homeserver
        /\ Carries(tokens, sends[c].homeserver).token = tokens
    BY <1>1 DEF Carries
  <2>3. call[c] = "user" => sends[c].homeserver = homeserver
    BY <2>1 DEF SessionInv, HeldInv
  <2>4. "versions" \in Places
    BY DEF Places
  <2>5. QED
    BY <1>1, <1>2, <2>1, <2>2, <2>3, <2>4, CallStep
<1>5. QED
  BY <1>3, <1>4

LEMMA VersionsPreserve ==
  ASSUME SessionInv, NEW c \in Tasks,
         HaveVersions(c) \/ AskVersions(c) \/ Woken(c) \/ VersionsArrive(c) \/ VersionsFail(c)
  PROVE  SessionInv'
<1>1. /\ at[c] \in {"versions", "queued", "asking"}
      /\ UNCHANGED <<build, homeserver, tokens, meta>>
  BY DEF HaveVersions, AskVersions, Woken, VersionsArrive, VersionsFail, built, session
<1>2. CASE Return(c)
  BY <1>1, <1>2, ReturnStep
<1>3. CASE ~Return(c)
  <2>1. PICK p \in {"sent", "asking", "queued", "versions"} : at' = [at EXCEPT ![c] = p]
    BY <1>3 DEF HaveVersions, AskVersions, Woken, VersionsArrive, VersionsFail, Go
  <2>2. UNCHANGED <<call, sends>>
    BY <1>3 DEF HaveVersions, AskVersions, Woken, VersionsArrive, VersionsFail
  <2>3. p \in Places /\ homeserver' \in Urls
    BY <1>1, <2>1 DEF Places, SessionInv, SessionTypeInv
  <2>4. QED
    BY <1>1, <2>1, <2>2, <2>3, PlainStep
<1>4. QED
  BY <1>2, <1>3

LEMMA AnswerPreserves ==
  ASSUME SessionInv, NEW c \in Tasks, Respond(c) \/ RequestFails(c)
  PROVE  SessionInv'
<1>1. at[c] = "sent" /\ UNCHANGED <<build, homeserver, tokens, meta>>
  BY DEF Respond, RequestFails, built, session
<1>2. CASE Return(c)
  BY <1>1, <1>2, ReturnStep
<1>3. CASE ~Return(c)
  <2>1. call[c] = "login" /\ at' = [at EXCEPT ![c] = "received"] /\ UNCHANGED <<call, sends>>
    BY <1>3 DEF Respond, RequestFails, Go
  <2>2. SettingUp(c)
    BY <1>1, <2>1 DEF SettingUp
  <2>3. ~tokens
    BY <1>1, <2>2 DEF SessionInv, SetUpInv
  <2>4. "received" \in Places /\ homeserver' \in Urls
    BY <1>1 DEF Places, SessionInv, SessionTypeInv
  <2>5. QED
    BY <1>1, <2>1, <2>2, <2>3, <2>4, PlainStep
<1>4. QED
  BY <1>2, <1>3

LEMMA ReceivePreserves ==
  ASSUME SessionInv, NEW c \in Tasks, ReceiveLogin(c)
  PROVE  SessionInv'
<1>1. /\ at[c] = "received" /\ at' = [at EXCEPT ![c] = "tokens"]
      /\ UNCHANGED <<build, call, tokens, meta, sends>>
      /\ homeserver' \in {homeserver, "login"}
  BY DEF ReceiveLogin, Go, built
<1>2. SettingUp(c)
  BY <1>1 DEF SessionInv, SetUpInv
<1>3. ~tokens
  BY <1>1, <1>2 DEF SessionInv, SetUpInv
<1>4. "tokens" \in Places /\ homeserver' \in Urls
  BY <1>1 DEF Places, SessionInv, SessionTypeInv, Urls
<1>5. QED
  BY <1>1, <1>2, <1>3, <1>4, PlainStep

\* The half of the session that comes first.
LEMMA TokensPreserve ==
  ASSUME SessionInv, NEW c \in Tasks, SetSessionTokens(c)
  PROVE  SessionInv'
<1>1. /\ at[c] = "tokens" /\ at' = [at EXCEPT ![c] = "meta"] /\ tokens' = TRUE
      /\ UNCHANGED <<build, call, homeserver, meta, sends>>
  BY DEF SetSessionTokens, Go, built
<1>2. SettingUp(c)
  BY <1>1 DEF SessionInv, SetUpInv
<1>3. \A d \in Tasks : SettingUp(d) => d = c
  BY <1>2 DEF SessionInv, SetUpInv
<1>4. ~meta
  BY <1>2 DEF SessionInv, SetUpInv
<1>5. SessionTypeInv'
  <2>1. at' \in [Tasks -> Places] /\ tokens' \in BOOLEAN
    BY <1>1 DEF SessionInv, SessionTypeInv, Places
  <2>2. QED
    BY <1>1, <2>1, Zenon DEF SessionInv, SessionTypeInv
<1>6. at'[c] = "meta" /\ \A d \in Tasks \ {c} : at'[d] = at[d]
  BY <1>1 DEF SessionInv, SessionTypeInv
<1>7. \A d \in Tasks : SettingUp(d)' <=> SettingUp(d)
  BY <1>1, <1>6 DEF SettingUp
<1>8. SetUpInv'
  <2>1. \A d, e \in Tasks : SettingUp(d)' /\ SettingUp(e)' => d = e
    BY <1>3, <1>7
  <2>2. \A d \in Tasks : at'[d] \in {"received", "tokens", "meta"} => SettingUp(d)'
    BY <1>2, <1>6, <1>7 DEF SessionInv, SetUpInv
  <2>3. \A d \in Tasks : SettingUp(d)' => at'[d] = "meta"
    BY <1>3, <1>6, <1>7
  <2>4. ~meta'
    BY <1>1, <1>4
  <2>5. build # "done" => \A d \in Tasks : at'[d] = "idle"
    BY <1>1 DEF SessionInv, SetUpInv
  <2>6. QED
    BY <1>1, <2>1, <2>2, <2>3, <2>4, <2>5 DEF SetUpInv, SettingUp
<1>9. HeldInv'
  BY <1>1, <1>2, <1>4, <1>6 DEF SessionInv, HeldInv, SettingUp
<1>10. QED
  BY <1>5, <1>8, <1>9 DEF SessionInv

LEMMA MetaPreserves ==
  ASSUME SessionInv, NEW c \in Tasks, SetSessionMeta(c)
  PROVE  SessionInv'
<1>1. at[c] = "meta" /\ Return(c) /\ meta' = TRUE /\ UNCHANGED <<build, homeserver, tokens>>
  BY DEF SetSessionMeta, built
<1>2. tokens
  BY <1>1 DEF SessionInv, SetUpInv
<1>3. QED
  BY <1>1, <1>2, ReturnStep

----------------------------------------------------------------------------
LEMMA StepSessionInv == SessionInv /\ [SessionNext]_sessionVars => SessionInv'
<1> SUFFICES ASSUME SessionInv, [SessionNext]_sessionVars PROVE SessionInv'
  OBVIOUS
<1>1. ASSUME NEW c \in Tasks, NEW k \in Calls, Begin(c, k) PROVE SessionInv'
  BY <1>1, BeginPreserves
<1>2. ASSUME NEW c \in Tasks, Proceed(c) PROVE SessionInv'
  BY <1>2, ReadPreserves, VersionsPreserve, AnswerPreserves, ReceivePreserves,
     TokensPreserve, MetaPreserves DEF Proceed, TaskStep, RequestEnds
<1>3. CASE LoadTurns \/ UNCHANGED sessionVars
  <2>1. UNCHANGED <<build, homeserver, tokens, meta, at, call, sends>>
    BY <1>3 DEF LoadTurns, sessionVars, built, session
  <2>2. SessionTypeInv'
    BY <2>1, Zenon DEF SessionInv, SessionTypeInv
  <2>3. SetUpInv' /\ HeldInv'
    BY <2>1 DEF SessionInv, SetUpInv, HeldInv, SettingUp
  <2>4. QED
    BY <2>2, <2>3 DEF SessionInv
<1>4. QED
  BY <1>1, <1>2, <1>3, BuilderPreserves DEF SessionNext

\* A request that needs our user id (send_inner, matrix/mod.rs) carries the
\* session's token to the session's homeserver.
THEOREM CallsAuthorised == SessionSpec => []CheckedCallsAreAuthorised
<1>1. SessionInv => CheckedCallsAreAuthorised
  BY DEF SessionInv, HeldInv, CheckedCallsAreAuthorised
<1>2. QED
  BY <1>1, InitSessionInv, StepSessionInv, PTL DEF SessionSpec

----------------------------------------------------------------------------
(* The builder and the OnceCell of the server's versions.                  *)

\* What new asserts is an address, which cannot fail but in the HTTP client;
\* only a name is discovered.
BuiltInv ==
  /\ builder \in Builders /\ build \in BuildOutcomes
  /\ client \in [wellKnown : BOOLEAN]
  /\ versions \in BOOLEAN /\ meta \in BOOLEAN
  /\ builder.asserted => builder.homeserver = "url"
  /\ build = "discovering" => builder.homeserver = "name"

\* Who asks for the versions is at the head of the cell's queue, and who waits
\* while there are none is in it.
CellInv ==
  /\ cell \in Seq(Tasks)
  /\ \A c \in Tasks : at[c] = "asking" => cell # <<>> /\ cell[1] = c
  /\ \A c \in Tasks : at[c] = "queued" /\ ~versions =>
       \E i \in 1 .. Len(cell) : cell[i] = c

LEMMA InitBuiltInv == SessionInit => BuiltInv /\ CellInv
<1> SUFFICES ASSUME SessionInit PROVE BuiltInv /\ CellInv
  OBVIOUS
<1>1. builder = NewBuilder /\ NewBuilder \in Builders /\ ~NewBuilder.asserted
  BY DEF SessionInit, NewBuilder, Builders
<1>2. BuiltInv
  BY <1>1 DEF SessionInit, BuiltInv, BuildOutcomes
<1>3. cell = <<>> /\ cell \in Seq(Tasks) /\ \A c \in Tasks : at[c] = "idle"
  BY DEF SessionInit
<1>4. QED
  BY <1>2, <1>3 DEF CellInv

\* The setters keep to what a builder may hold.
LEMMA ConfigurePreserves ==
  ASSUME BuiltInv,
         SetHomeserver \/ HttpClient \/ RespectLoginWellKnown \/ ServerVersions \/ New
         \/ \E s \in HttpSettings : HttpSetting(s)
  PROVE  BuiltInv'
<1>1. PICK b : Configure(b) /\ b \in Builders /\ (b.asserted => b.homeserver = "url")
  <2>1. builder \in Builders
    BY DEF BuiltInv
  <2>2. CASE SetHomeserver
    <3>1. PICK h \in {"url", "bad_url", "name"} : Configure([builder EXCEPT !.homeserver = h])
      BY <2>2 DEF SetHomeserver
    <3>2. ~builder.asserted
      BY <3>1 DEF Configure
    <3>3. QED
      BY <2>1, <3>1, <3>2 DEF Builders
  <2>3. CASE HttpClient
    BY <2>1, <2>3 DEF HttpClient, Builders, BuiltInv
  <2>4. CASE RespectLoginWellKnown
    BY <2>1, <2>4 DEF RespectLoginWellKnown, Builders, BuiltInv
  <2>5. CASE ServerVersions
    <3>1. [builder EXCEPT !.versions = TRUE] \in Builders
      BY <2>1 DEF Builders
    <3>2. /\ [builder EXCEPT !.versions = TRUE].asserted = builder.asserted
          /\ [builder EXCEPT !.versions = TRUE].homeserver = builder.homeserver
      BY <2>1 DEF Builders
    <3>3. QED
      BY <2>5, <3>1, <3>2 DEF ServerVersions, BuiltInv
  <2>6. CASE New
    <3> DEFINE url == [NewBuilder EXCEPT !.homeserver = "url", !.asserted = TRUE]
    <3>1. url \in Builders /\ url.homeserver = "url"
      BY DEF NewBuilder, Builders
    <3>2. Configure(url)
      BY <2>6 DEF New
    <3>3. QED
      BY <3>1, <3>2
  <2>7. ASSUME NEW s \in HttpSettings, HttpSetting(s)
        PROVE  \E b : Configure(b) /\ b \in Builders /\ (b.asserted => b.homeserver = "url")
    <3>1. (builder.http \ {"custom"}) \cup {s} \in SUBSET HttpSettings
      BY <2>1 DEF Builders
    <3>2. QED
      BY <2>1, <2>7, <3>1 DEF HttpSetting, Builders, BuiltInv
  <2>8. QED
    BY <2>2, <2>3, <2>4, <2>5, <2>6, <2>7
<1>2. build = "configuring" /\ builder' = b /\ UNCHANGED <<build, client, versions, meta>>
  BY <1>1 DEF Configure, session
<1>3. QED
  BY <1>1, <1>2 DEF BuiltInv

\* build ends in an error or a client; by name, only if new did not assert it.
LEMMA BuildPreserves ==
  ASSUME BuiltInv, SessionInv, Refused \/ Discover \/ DiscoveryFails \/ Built
  PROVE  BuiltInv'
<1>1. CASE Refused
  <2>1. PICK error \in {"MissingHomeserver", "Http", "Url"} :
          Failed(error) /\ (builder.asserted => error = "Http")
    BY <1>1 DEF Refused, BuiltInv
  <2>2. build' = error
    BY <2>1 DEF Failed
  <2>3. UNCHANGED <<builder, client, versions, meta>>
    BY <1>1 DEF Refused, session
  <2>4. QED
    BY <2>1, <2>2, <2>3 DEF BuiltInv, BuildOutcomes
<1>2. CASE Discover
  BY <1>2 DEF Discover, BuiltInv, BuildOutcomes, session
<1>3. CASE DiscoveryFails
  <2>1. PICK error \in {"AutoDiscovery", "Http", "Url"} : Failed(error)
    BY <1>3 DEF DiscoveryFails
  <2>2. ~builder.asserted
    BY <1>3 DEF DiscoveryFails, BuiltInv
  <2>3. build' = error
    BY <2>1, <2>2 DEF Failed
  <2>4. UNCHANGED <<builder, client, versions, meta>>
    BY <1>3 DEF DiscoveryFails, session
  <2>5. QED
    BY <2>1, <2>3, <2>4 DEF BuiltInv, BuildOutcomes
<1>4. CASE Built
  <2>1. /\ build' = "done" /\ client' = [wellKnown |-> builder.wellKnown]
        /\ versions' = builder.versions /\ builder' = NewBuilder /\ UNCHANGED meta
    BY <1>4 DEF Built
  <2>2. builder.wellKnown \in BOOLEAN /\ builder.versions \in BOOLEAN
    BY DEF BuiltInv, Builders
  <2>3. NewBuilder \in Builders /\ ~NewBuilder.asserted
    BY DEF NewBuilder, Builders
  <2>4. QED
    BY <2>1, <2>2, <2>3 DEF BuiltInv, BuildOutcomes
<1>5. QED
  BY <1>1, <1>2, <1>3, <1>4

\* The calls set the versions and the session's parts, and nothing else of it.
LEMMA CallsLeaveBuilt ==
  ASSUME BuiltInv, NEW c \in Tasks, (\E k \in Calls : Begin(c, k)) \/ Proceed(c)
  PROVE  BuiltInv'
<1>1. /\ UNCHANGED <<builder, build, client>>
      /\ versions' \in {versions, TRUE} /\ meta' \in {meta, TRUE}
  BY DEF Begin, Proceed, TaskStep, RequestEnds, ReadHomeserver, ReadToken, HaveVersions, AskVersions, Woken,
         VersionsArrive, VersionsFail, Respond, RequestFails, ReceiveLogin, SetSessionTokens,
         SetSessionMeta, built, session
<1>2. QED
  BY <1>1 DEF BuiltInv

LEMMA StepBuiltInv == BuiltInv /\ SessionInv /\ [SessionNext]_sessionVars => BuiltInv'
<1> SUFFICES ASSUME BuiltInv, SessionInv, [SessionNext]_sessionVars PROVE BuiltInv'
  OBVIOUS
<1>1. CASE BuilderNext
  BY <1>1, ConfigurePreserves, BuildPreserves DEF BuilderNext
<1>2. CASE LoadTurns \/ UNCHANGED sessionVars
  BY <1>2 DEF LoadTurns, BuiltInv, sessionVars, built, session
<1>3. QED
  BY <1>1, <1>2, CallsLeaveBuilt DEF SessionNext

----------------------------------------------------------------------------
\* A task moves on and leaves the cell alone.
LEMMA CellUntouched ==
  ASSUME CellInv, SessionInv, NEW c \in Tasks, UNCHANGED <<cell, versions>>,
         NEW p, at' = [at EXCEPT ![c] = p], p # "queued", p = "asking" => cell # <<>> /\ cell[1] = c
  PROVE  CellInv'
<1>1. at'[c] = p /\ \A d \in Tasks \ {c} : at'[d] = at[d]
  BY DEF SessionInv, SessionTypeInv
<1>2. QED
  BY <1>1 DEF CellInv

\* A task joins the queue of the cell; the first may ask at once.
LEMMA AskCell ==
  ASSUME CellInv, SessionInv, NEW c \in Tasks, AskVersions(c)
  PROVE  CellInv'
<1>1. /\ at[c] = "versions" /\ ~versions /\ cell' = Append(cell, c) /\ UNCHANGED versions
      /\ at' = [at EXCEPT ![c] = IF cell = <<>> THEN "asking" ELSE "queued"]
  BY DEF AskVersions, Go
<1>2. /\ at'[c] = (IF cell = <<>> THEN "asking" ELSE "queued")
      /\ \A d \in Tasks \ {c} : at'[d] = at[d]
  BY <1>1 DEF SessionInv, SessionTypeInv
<1>3. /\ cell \in Seq(Tasks) /\ Len(cell) \in Nat
      /\ cell' \in Seq(Tasks) /\ Len(cell') = Len(cell) + 1
      /\ cell'[Len(cell) + 1] = c /\ \A i \in 1 .. Len(cell) : cell'[i] = cell[i]
  BY <1>1 DEF CellInv
<1>4. cell # <<>> => 1 \in 1 .. Len(cell)
  BY <1>3
<1>5. cell' # <<>> /\ (cell = <<>> => cell'[1] = c)
  BY <1>3
<1>6. ASSUME NEW d \in Tasks, at'[d] = "asking" PROVE cell' # <<>> /\ cell'[1] = d
  BY <1>2, <1>3, <1>4, <1>5, <1>6 DEF CellInv
<1>7. ASSUME NEW d \in Tasks, at'[d] = "queued"
      PROVE  \E i \in 1 .. Len(cell') : cell'[i] = d
  <2>1. CASE d = c
    <3>1. Len(cell) + 1 \in 1 .. Len(cell')
      BY <1>3
    <3>2. QED
      BY <1>3, <2>1, <3>1
  <2>2. CASE d # c
    <3>1. PICK i \in 1 .. Len(cell) : cell[i] = d
      BY <1>1, <1>2, <1>7, <2>2 DEF CellInv
    <3>2. i \in 1 .. Len(cell')
      BY <1>3
    <3>3. QED
      BY <1>3, <3>1, <3>2
  <2>3. QED
    BY <2>1, <2>2
<1>8. QED
  BY <1>3, <1>6, <1>7 DEF CellInv

\* The one who asked gives up; the next in the queue may ask.
LEMMA FailCell ==
  ASSUME CellInv, SessionInv, NEW c \in Tasks, VersionsFail(c)
  PROVE  CellInv'
<1>1. /\ at[c] = "asking" /\ cell' = Tail(cell) /\ UNCHANGED versions
      /\ at' = [at EXCEPT ![c] = "idle"]
  BY DEF VersionsFail, Return, Go
<1>2. at'[c] = "idle" /\ \A d \in Tasks \ {c} : at'[d] = at[d]
  BY <1>1 DEF SessionInv, SessionTypeInv
<1>3. cell \in Seq(Tasks) /\ cell # <<>> /\ cell[1] = c
  BY <1>1 DEF CellInv
<1>4. /\ cell' \in Seq(Tasks) /\ Len(cell') = Len(cell) - 1
      /\ \A i \in 1 .. Len(cell') : cell'[i] = cell[i + 1]
      /\ Len(cell) \in Nat
  BY <1>1, <1>3
<1>5. \A d \in Tasks : at'[d] # "asking"
  BY <1>2, <1>3 DEF CellInv
<1>6. ASSUME NEW d \in Tasks, at'[d] = "queued", ~versions
      PROVE  \E i \in 1 .. Len(cell') : cell'[i] = d
  <2>1. d # c
    BY <1>2, <1>6
  <2>2. PICK i \in 1 .. Len(cell) : cell[i] = d
    BY <1>2, <1>6, <2>1 DEF CellInv
  <2>3. i # 1
    BY <1>3, <2>1, <2>2
  <2>4. i - 1 \in 1 .. Len(cell') /\ (i - 1) + 1 = i
    BY <1>4, <2>3
  <2>5. cell'[i - 1] = d
    BY <1>4, <2>2, <2>4
  <2>6. QED
    BY <2>4, <2>5
<1>7. QED
  BY <1>1, <1>4, <1>5, <1>6 DEF CellInv

LEMMA WakeCell ==
  ASSUME CellInv, SessionInv, NEW c \in Tasks, Woken(c) \/ VersionsArrive(c)
  PROVE  CellInv'
<1>1. CASE Woken(c)
  <2>1. at[c] = "queued" /\ UNCHANGED <<cell, versions>>
    BY <1>1 DEF Woken
  <2>2. PICK p \in {"versions", "asking"} :
          at' = [at EXCEPT ![c] = p] /\ (p = "asking" => ~versions /\ cell[1] = c)
    BY <1>1 DEF Woken, Go
  <2>3. p = "asking" => cell # <<>>
    <3>1. ASSUME p = "asking" PROVE \E i \in 1 .. Len(cell) : cell[i] = c
      BY <2>1, <2>2, <3>1 DEF CellInv
    <3>2. QED
      BY <3>1
  <2>4. QED
    BY <2>1, <2>2, <2>3, CellUntouched
<1>2. CASE VersionsArrive(c)
  <2>1. /\ at[c] = "asking" /\ versions' = TRUE /\ cell' = <<>>
        /\ at' = [at EXCEPT ![c] = "versions"]
    BY <1>2 DEF VersionsArrive, Go
  <2>2. at'[c] = "versions" /\ \A d \in Tasks \ {c} : at'[d] = at[d]
    BY <2>1 DEF SessionInv, SessionTypeInv
  <2>3. \A d \in Tasks : at'[d] # "asking"
    BY <2>1, <2>2 DEF CellInv
  <2>4. cell' \in Seq(Tasks)
    BY <2>1
  <2>5. QED
    BY <2>1, <2>3, <2>4 DEF CellInv
<1>3. QED
  BY <1>1, <1>2

LEMMA StepCellInv == CellInv /\ SessionInv /\ [SessionNext]_sessionVars => CellInv'
<1> SUFFICES ASSUME CellInv, SessionInv, [SessionNext]_sessionVars PROVE CellInv'
  OBVIOUS
<1>1. CASE BuilderNext
  <2>1. UNCHANGED <<cell, at>> /\ build # "done"
    BY <1>1 DEF BuilderNext, SetHomeserver, HttpClient, HttpSetting, RespectLoginWellKnown,
         ServerVersions, New, Configure, Refused, Discover, DiscoveryFails, Built, session
  <2>2. \A c \in Tasks : at[c] = "idle"
    BY <2>1 DEF SessionInv, SetUpInv
  <2>3. QED
    BY <2>1, <2>2 DEF CellInv
<1>2. ASSUME NEW c \in Tasks,
             (\E k \in Calls : Begin(c, k)) \/ ReadHomeserver(c) \/ ReadToken(c) \/ HaveVersions(c)
             \/ Respond(c) \/ RequestFails(c) \/ ReceiveLogin(c) \/ SetSessionTokens(c)
             \/ SetSessionMeta(c)
      PROVE  CellInv'
  <2>1. UNCHANGED <<cell, versions>>
    BY <1>2 DEF Begin, ReadHomeserver, ReadToken, HaveVersions, Respond, RequestFails,
         ReceiveLogin, SetSessionTokens, SetSessionMeta
  <2>2. \E p \in Places \ {"queued", "asking"} : at' = [at EXCEPT ![c] = p]
    BY <1>2 DEF Begin, ReadHomeserver, ReadToken, HaveVersions, Respond, RequestFails,
         ReceiveLogin, SetSessionTokens, SetSessionMeta, Go, Return, Places
  <2>3. QED
    BY <2>1, <2>2, CellUntouched
<1>3. ASSUME NEW c \in Tasks, Proceed(c) PROVE CellInv'
  BY <1>2, <1>3, AskCell, FailCell, WakeCell DEF Proceed, TaskStep, RequestEnds
<1>4. CASE LoadTurns \/ UNCHANGED sessionVars
  BY <1>4 DEF LoadTurns, CellInv, sessionVars
<1>5. QED
  BY <1>1, <1>2, <1>3, <1>4 DEF SessionNext

LEMMA LoadTyped == SessionSpec => [](overloaded \in BOOLEAN)
<1>1. SessionInit => overloaded \in BOOLEAN
  BY Zenon DEF SessionInit
<1>2. overloaded \in BOOLEAN /\ [SessionNext]_sessionVars => (overloaded \in BOOLEAN)'
  <2> SUFFICES ASSUME overloaded \in BOOLEAN, [SessionNext]_sessionVars
               PROVE  overloaded' \in BOOLEAN
    OBVIOUS
  <2>1. CASE LoadTurns
    BY <2>1, Zenon DEF LoadTurns
  <2>2. CASE BuilderNext
    BY <2>2 DEF BuilderNext, SetHomeserver, HttpClient, HttpSetting, RespectLoginWellKnown,
         ServerVersions, New, Configure, Refused, Discover, DiscoveryFails, Built
  <2>3. ASSUME NEW c \in Tasks, (\E k \in Calls : Begin(c, k)) \/ Proceed(c)
        PROVE  overloaded' \in BOOLEAN
    BY <2>3 DEF Begin, Proceed, TaskStep, RequestEnds, ReadHomeserver, ReadToken, HaveVersions,
         AskVersions, Woken, VersionsArrive, VersionsFail, Respond, RequestFails, ReceiveLogin,
         SetSessionTokens, SetSessionMeta
  <2>4. CASE UNCHANGED sessionVars
    BY <2>4 DEF sessionVars
  <2>5. QED
    BY <2>1, <2>2, <2>3, <2>4 DEF SessionNext
<1>3. QED
  BY <1>1, <1>2, PTL DEF SessionSpec

\* The client and its calls keep their types; new never meets an error that it
\* holds impossible (builder.rs:567), and the versions are asked for by one
\* task at a time.
THEOREM SessionTyped == SessionSpec => []SessionTypeOK
<1>1. SessionInv /\ BuiltInv /\ CellInv /\ overloaded \in BOOLEAN => SessionTypeOK
  BY Zenon DEF SessionInv, SessionTypeInv, BuiltInv, CellInv, SessionTypeOK, Urls
<1>2. QED
  BY <1>1, InitSessionInv, StepSessionInv, InitBuiltInv, StepBuiltInv, StepCellInv,
     LoadTyped, PTL DEF SessionSpec
=============================================================================

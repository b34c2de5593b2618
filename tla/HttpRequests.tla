---------------------------- MODULE HttpRequests ----------------------------
(***************************************************************************)
(* HttpClient::send (matrix/http_client.rs): a request is serialised once  *)
(* and sent through the goose user, again and again while the server       *)
(* answers with 429 or 5xx, within the limits of its RequestConfig         *)
(* (matrix/config/request.rs).  Of a request only its authentication       *)
(* scheme matters here, and its path in Endpoints.                         *)
(*                                                                         *)
(* assert_identity is always false: nothing in the repository sets it.     *)
(***************************************************************************)
EXTENDS Naturals

CONSTANTS
  Configs,  \* the configurations that requests are sent with
  MaxTries  \* attempts are counted up to this number

NoLimit == 1000000

AuthScheme == {"None", "AccessToken", "AppserviceToken"}

\* RequestConfig.  The time a single attempt may take is left out: an attempt
\* that takes longer gets no answer.
RequestConfig == [retryLimit : Nat, retryTimeout : BOOLEAN, forceAuth : BOOLEAN]

Default == [retryLimit |-> NoLimit, retryTimeout |-> FALSE, forceAuth |-> FALSE]
RetryLimit(cfg, n) == [cfg EXCEPT !.retryLimit = n]
RetryTimeout(cfg) == [cfg EXCEPT !.retryTimeout = TRUE]
ForceAuth(cfg) == [cfg EXCEPT !.forceAuth = TRUE]
ShortRetry == RetryLimit(Default, 3)
DisableRetry(cfg) == RetryLimit(cfg, 0)

ASSUME ConfigsAssumption ==
  /\ Configs \subseteq RequestConfig /\ Configs # {}
  /\ MaxTries \in Nat
  /\ \A c \in Configs : c.retryLimit < MaxTries \/ c.retryLimit = NoLimit

\* How an attempt may end.
Answers ==
  { "ok", "garbled",              \* a response that can be read, or not
    "limited", "limited_for",     \* 429 M_LIMIT_EXCEEDED, with retry_after_ms
    "server_error",               \* 5xx
    "client_error", "uiaa",       \* another status, a UIAA response
    "no_answer", "goose_error" }  \* TransactionError::Reqwest, and the others

Results == {"Ok", "NotClientRequest", "IntoHttp", "Api", "Reqwest"}

VARIABLES
  phase,      \* where the call of send is; "idle" outside
  auth,       \* the scheme of what it sends
  config,     \* its configuration
  loggedIn,   \* whether the client has an access token
  bearer,     \* whether the serialised request carries one
  retryCount, \* the counter in send_request
  stop,       \* whether this attempt is the last
  late,       \* whether retryTimeout has passed
  result,     \* what the last call returned
  tries,      \* history: attempts made by the call, up to MaxTries
  got         \* history: how its attempts ended

requestVars == <<phase, auth, config, loggedIn, bearer, retryCount, stop,
                 late, result, tries, got>>

----------------------------------------------------------------------------
Transient(answer) == answer \in {"limited", "limited_for", "server_error"}

HttpError(answer) ==
  CASE answer = "no_answer" -> "Reqwest"
    [] answer = "goose_error" -> "NotClientRequest"
    [] OTHER -> "Api"

Finish(r) ==
  /\ phase' = "idle"
  /\ result' = r

\* What serialize_request can make a request of.
Serialisable(scheme) == scheme = "AccessToken" => loggedIn

Refuse(scheme, cfg) ==
  /\ phase = "idle"
  /\ \/ scheme \notin {"AccessToken", "None"} /\ Finish("NotClientRequest")
     \/ scheme \in {"AccessToken", "None"} /\ ~Serialisable(scheme) /\ Finish("IntoHttp")
  /\ auth' = scheme /\ config' = cfg
  /\ tries' = 0 /\ got' = {}
  /\ UNCHANGED <<loggedIn, bearer, retryCount, stop, late>>

Serialise(scheme, cfg) ==
  /\ phase = "idle"
  /\ scheme \in {"AccessToken", "None"} /\ Serialisable(scheme)
  /\ phase' = "ready"
  /\ auth' = scheme /\ config' = cfg
  /\ bearer' = (loggedIn /\ (scheme = "AccessToken" \/ cfg.forceAuth))
  /\ retryCount' = 1 /\ stop' = FALSE /\ late' = FALSE
  /\ tries' = 0 /\ got' = {}
  /\ UNCHANGED <<loggedIn, result>>

Attempt_OneMore ==
  /\ phase = "ready"
  /\ phase' = "sent"
  /\ IF config.retryLimit = NoLimit
     THEN stop' = FALSE /\ UNCHANGED retryCount
     ELSE stop' = (retryCount > config.retryLimit) /\ retryCount' = retryCount + 1
  /\ tries' = IF tries < MaxTries THEN tries + 1 ELSE tries
  /\ UNCHANGED <<auth, config, loggedIn, bearer, late, result, got>>

Attempt_NoCount ==
  /\ phase = "ready"
  /\ phase' = "sent"
  /\ stop' = (config.retryLimit # NoLimit /\ retryCount >= config.retryLimit)
  /\ tries' = IF tries < MaxTries THEN tries + 1 ELSE tries
  /\ UNCHANGED <<auth, config, loggedIn, bearer, retryCount, late, result, got>>

\* fetch_add returns the count before it adds one.
Attempt ==
  /\ phase = "ready"
  /\ phase' = "sent"
  /\ IF config.retryLimit = NoLimit
     THEN stop' = FALSE /\ UNCHANGED retryCount
     ELSE stop' = (retryCount >= config.retryLimit) /\ retryCount' = retryCount + 1
  /\ tries' = IF tries < MaxTries THEN tries + 1 ELSE tries
  /\ UNCHANGED <<auth, config, loggedIn, bearer, late, result, got>>

Succeed ==
  /\ phase = "sent"
  /\ Finish("Ok")
  /\ got' = got \cup {"ok"}
  /\ UNCHANGED <<auth, config, loggedIn, bearer, retryCount, stop, late, tries>>

\* The error is permanent, or no time is left: backoff only looks at the clock
\* where the server did not say when to come back.
GivesUp(answer) == stop \/ ~Transient(answer) \/ (late /\ answer # "limited_for")

Fail(answer) ==
  /\ phase = "sent"
  /\ got' = got \cup {answer}
  /\ IF GivesUp(answer)
     THEN Finish(HttpError(answer))
     ELSE phase' = "waiting" /\ UNCHANGED result
  /\ UNCHANGED <<auth, config, loggedIn, bearer, retryCount, stop, late, tries>>

\* The pause between two attempts is over.
Wake ==
  /\ phase = "waiting"
  /\ phase' = "ready"
  /\ UNCHANGED <<auth, config, loggedIn, bearer, retryCount, stop, late,
                 result, tries, got>>

TimePasses ==
  /\ phase # "idle" /\ config.retryTimeout /\ ~late
  /\ late' = TRUE
  /\ UNCHANGED <<phase, auth, config, loggedIn, bearer, retryCount, stop,
                 result, tries, got>>

LogIn ==
  /\ phase = "idle" /\ ~loggedIn
  /\ loggedIn' = TRUE
  /\ UNCHANGED <<phase, auth, config, bearer, retryCount, stop, late,
                 result, tries, got>>

RequestInit ==
  /\ phase = "idle" /\ result = "Ok" /\ auth = "None"
  /\ config = CHOOSE c \in Configs : TRUE
  /\ loggedIn = FALSE /\ bearer = FALSE /\ stop = FALSE /\ late = FALSE
  /\ retryCount = 1 /\ tries = 0
  /\ got = {}

Progress ==
  \/ Attempt
  \/ Succeed
  \/ \E answer \in Answers \ {"ok"} : Fail(answer)
  \/ Wake

RequestNext ==
  \/ \E scheme \in AuthScheme, cfg \in Configs : Refuse(scheme, cfg) \/ Serialise(scheme, cfg)
  \/ Progress
  \/ TimePasses
  \/ LogIn

RequestSpec == RequestInit /\ [][RequestNext]_requestVars

\* Goose and reqwest end every attempt, with a timeout if need be.
RequestFairness == WF_requestVars(Progress)

----------------------------------------------------------------------------
Phases == {"idle", "ready", "sent", "waiting"}

\* The state of a call, and what it has sent so far, are consistent.
RequestTypeOK ==
  /\ phase \in Phases /\ result \in Results
  /\ auth \in AuthScheme /\ config \in Configs
  /\ loggedIn \in BOOLEAN /\ bearer \in BOOLEAN
  /\ retryCount \in Nat \ {0}
  /\ stop \in BOOLEAN /\ late \in BOOLEAN
  /\ tries \in 0 .. MaxTries /\ got \subseteq Answers
  /\ bearer => loggedIn

\* What the code makes of retry_limit: N attempts in all, and one if N is 0.
\* A call that gives up on an answer it would have come back for has made them
\* all, or was out of time.  (The documentation of retry_limit has it count the
\* retries: the code, and this, make one less.)
LimitIsExact ==
  /\ config.retryLimit # NoLimit => tries <= config.retryLimit \/ tries <= 1
  /\ phase = "idle" /\ result = "Api" /\ got # {} /\ (\A a \in got : Transient(a)) =>
       late \/ tries >= config.retryLimit

\* A call whose retries are limited returns, whatever the server answers.
LimitedCallsReturn ==
  []<>(phase = "idle" \/ config.retryLimit = NoLimit)
============================================================================

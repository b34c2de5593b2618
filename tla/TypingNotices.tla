---------------------------- MODULE TypingNotices ----------------------------
(***************************************************************************)
(* Joined::typing_notice (matrix/room/joined.rs) for one room: a request   *)
(* is sent only if the server is thought not to know, by the time a notice *)
(* was last sent, which the client keeps in typing_notice_times.  The time *)
(* is set before the request is sent and stays if it fails; the server     *)
(* counts its timeout from when the request arrives, and the call is over  *)
(* only when the answer does.                                              *)
(***************************************************************************)
EXTENDS Naturals

CONSTANTS
  Typists,  \* tasks that call typing_notice
  MaxDelay  \* seconds a request may take, there and back

ASSUME DelayAssumption == MaxDelay \in Nat

TYPING_NOTICE_TIMEOUT == 4
TYPING_NOTICE_RESEND_TIMEOUT == 3

\* Times are counted up to this number of seconds, which is past both.
Long == TYPING_NOTICE_TIMEOUT + 1

NoTime == Long + 1

VARIABLES
  typingTime, \* seconds since typing_notice_times was set, or NoTime
  notice,     \* the request a task has sent: "none", "yes" or "no"
  age,        \* seconds since it did
  received,   \* whether the server has got it
  shown,      \* seconds for which the server will show us typing
  said,       \* history: the argument of the last call that is over
  justSaid,   \* history: whether it ended in this second, promptly
  slowest,    \* history: the longest a notice took to reach the server
  disturbed   \* history: a request failed, or two calls met

typingVars ==
  <<typingTime, notice, age, received, shown, said, justSaid, slowest, disturbed>>

Sends_SwapTimeouts(typing) ==
  IF typingTime = NoTime THEN typing
  ELSE IF typingTime > TYPING_NOTICE_TIMEOUT
       THEN typing \/ typingTime <= TYPING_NOTICE_RESEND_TIMEOUT
       ELSE ~typing

\* Whether typing_notice sends a request.  (Its doc says that while a notice is
\* active, for four seconds, nothing happens; it is sent again after three.)
Sends(typing) ==
  IF typingTime = NoTime THEN typing
  ELSE IF typingTime > TYPING_NOTICE_RESEND_TIMEOUT
       THEN typing \/ typingTime <= TYPING_NOTICE_TIMEOUT
       ELSE ~typing

Waiting(t) == notice[t] # "none"
Over(t) ==
  /\ notice' = [notice EXCEPT ![t] = "none"]
  /\ age' = [age EXCEPT ![t] = 0]
  /\ received' = [received EXCEPT ![t] = FALSE]

\* Promptly is before a notice sent at its start may have run out.
Said(arg, seconds) == said' = arg /\ justSaid' = (seconds < TYPING_NOTICE_TIMEOUT)
Argument(typing) == IF typing THEN "yes" ELSE "no"

SaysNothing(t, typing) ==
  /\ ~Waiting(t) /\ ~Sends(typing)
  /\ Said(Argument(typing), 0)
  /\ disturbed' = (disturbed \/ \E u \in Typists : Waiting(u))
  /\ UNCHANGED <<typingTime, notice, age, received, shown, slowest>>

SendTypingNotice(t, typing) ==
  /\ ~Waiting(t) /\ Sends(typing)
  /\ typingTime' = IF typing THEN 0 ELSE NoTime
  /\ notice' = [notice EXCEPT ![t] = Argument(typing)]
  /\ age' = [age EXCEPT ![t] = 0]
  /\ disturbed' = (disturbed \/ \E u \in Typists : Waiting(u))
  /\ UNCHANGED <<received, shown, said, justSaid, slowest>>

\* The server has it; again, if HttpClient::send repeats the request.
NoticeArrives(t) ==
  /\ Waiting(t)
  /\ shown' = IF notice[t] = "yes" THEN TYPING_NOTICE_TIMEOUT ELSE 0
  /\ slowest' = IF age[t] > slowest THEN age[t] ELSE slowest
  /\ received' = [received EXCEPT ![t] = TRUE]
  /\ UNCHANGED <<typingTime, notice, age, said, justSaid, disturbed>>

\* Its answer arrives, however late, and the call is over.
NoticeAnswered(t) ==
  /\ Waiting(t) /\ received[t]
  /\ Said(notice[t], age[t])
  /\ Over(t)
  /\ UNCHANGED <<typingTime, shown, slowest, disturbed>>

\* Before or after the server had it.
NoticeFails(t) ==
  /\ Waiting(t)
  /\ disturbed' = TRUE
  /\ Over(t)
  /\ UNCHANGED <<typingTime, shown, said, justSaid, slowest>>

Second ==
  /\ \A t \in Typists : Waiting(t) => age[t] < MaxDelay
  /\ typingTime' = IF typingTime < Long THEN typingTime + 1 ELSE typingTime
  /\ shown' = IF shown = 0 THEN 0 ELSE shown - 1
  /\ age' = [t \in Typists |-> IF Waiting(t) THEN age[t] + 1 ELSE 0]
  /\ justSaid' = FALSE
  /\ UNCHANGED <<notice, received, said, slowest, disturbed>>

TypingInit ==
  /\ typingTime = NoTime
  /\ notice = [t \in Typists |-> "none"]
  /\ age = [t \in Typists |-> 0]
  /\ received = [t \in Typists |-> FALSE]
  /\ shown = 0
  /\ said = "no" /\ justSaid = FALSE
  /\ slowest = 0 /\ disturbed = FALSE

TypingNext ==
  \/ \E t \in Typists :
       \/ \E typing \in BOOLEAN : SaysNothing(t, typing) \/ SendTypingNotice(t, typing)
       \/ NoticeArrives(t)
       \/ NoticeAnswered(t)
       \/ NoticeFails(t)
  \/ Second

TypingSpec == TypingInit /\ [][TypingNext]_typingVars

----------------------------------------------------------------------------
TypingTypeOK ==
  /\ typingTime \in 0 .. NoTime
  /\ notice \in [Typists -> {"none", "yes", "no"}]
  /\ age \in [Typists -> 0 .. MaxDelay]
  /\ received \in [Typists -> BOOLEAN]
  /\ shown \in 0 .. TYPING_NOTICE_TIMEOUT
  /\ said \in {"yes", "no"} /\ justSaid \in BOOLEAN
  /\ slowest \in 0 .. MaxDelay /\ disturbed \in BOOLEAN

\* The requests typing_notice saves are not missed: if none failed and no two
\* calls met, whose call to be typing has just returned, in less than the four
\* seconds of a notice, is shown so for another second at least, whether it sent
\* a notice or saved it; and who has said not to be is shown no longer than the
\* slowest notice was late.
TypingIsKnown ==
  ~disturbed /\ (\A t \in Typists : ~Waiting(t)) =>
    /\ said = "yes" /\ justSaid => shown > 0
    /\ said = "no" => shown <= slowest
==============================================================================

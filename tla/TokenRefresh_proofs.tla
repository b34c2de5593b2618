------------------------- MODULE TokenRefresh_proofs -------------------------
(* Proofs about TokenRefresh, for every set of callers, every bound on the *)
(* tokens and every environment.                                           *)
EXTENDS TokenRefresh, TLAPS

USE DEF world

----------------------------------------------------------------------------
(* The line at the lock.                                                   *)

InLine(c) == pc[c] = "queued" \/ Leads(c)

\* The callers in line stand in the lock's queue, each once and nobody else;
\* only the first of them may lead.
LineInv ==
  /\ \A c \in Callers : InLine(c) => \E i \in 1 .. Len(lock) : lock[i] = c
  /\ \A i \in 1 .. Len(lock) : InLine(lock[i])
  /\ \A i, j \in 1 .. Len(lock) : lock[i] = lock[j] => i = j
  /\ \A c \in Callers : Leads(c) => lock # << >> /\ lock[1] = c

TypeInv == TypeOK /\ LineInv

\* A call of refresh_access_token returns to its caller.
LEMMA ReturnFrame ==
  ASSUME TypeOK, NEW c \in Callers, NEW ok \in BOOLEAN, Return(c, ok)
  PROVE  /\ \E s \in {"idle", "resend"} : pc' = [pc EXCEPT ![c] = s]
         /\ used' \in [Callers -> Nat]
         /\ \A x \in Callers \ {c} : used'[x] = used[x]
         /\ pc'[c] = "resend" => ok /\ used' = used
<1>1. pc \in [Callers -> States] /\ used \in [Callers -> Nat]
  BY DEF TypeOK
<1>2. CASE ok /\ used[c] # 0
  BY <1>1, <1>2 DEF Return, Go
<1>3. CASE ~(ok /\ used[c] # 0)
  BY <1>1, <1>3 DEF Return, Finish, Go
<1>4. QED
  BY <1>2, <1>3

\* Dropping the guard takes its holder, and no one else, out of the line.
LEMMA UnlockLine ==
  ASSUME TypeInv, NEW c \in Callers, lock # << >>, Head(lock) = c, Unlock,
         NEW s \in {"idle", "resend"}, pc' = [pc EXCEPT ![c] = s]
  PROVE  lock' \in Seq(Callers) /\ LineInv' /\ \A x \in Callers : ~Leads(x)'
<1>1. /\ lock' \in Seq(Callers)
      /\ Len(lock') = Len(lock) - 1
      /\ \A i \in 1 .. Len(lock') : lock'[i] = lock[i + 1]
      /\ Len(lock) \in Nat \ {0} /\ lock[1] = c
      /\ \A i \in 1 .. Len(lock) : lock[i] \in Callers
  BY DEF Unlock, TypeInv, TypeOK
<1>2. /\ ~InLine(c)'
      /\ \A x \in Callers \ {c} : (InLine(x)' <=> InLine(x)) /\ (Leads(x)' <=> Leads(x))
  BY DEF InLine, Leads, TypeInv, TypeOK
<1>3. LineInv
  BY DEF TypeInv
<1>4. \A x \in Callers : ~Leads(x)'
  <2>1. \A x \in Callers : Leads(x) => x = c
    BY <1>1, <1>3 DEF LineInv
  <2>2. QED
    BY <2>1, <1>2 DEF InLine
<1>5. ASSUME NEW x \in Callers, InLine(x)' PROVE \E i \in 1 .. Len(lock') : lock'[i] = x
  <2>1. x # c /\ InLine(x)
    BY <1>2, <1>5
  <2>2. PICK i \in 1 .. Len(lock) : lock[i] = x
    BY <2>1, <1>3 DEF LineInv
  <2>3. i # 1
    BY <2>1, <2>2, <1>1
  <2>4. i - 1 \in 1 .. Len(lock') /\ (i - 1) + 1 = i
    BY <2>3, <1>1
  <2>5. lock'[i - 1] = x
    BY <2>2, <2>4, <1>1
  <2>6. QED
    BY <2>4, <2>5
<1>6. ASSUME NEW i \in 1 .. Len(lock') PROVE InLine(lock[i])'
  <2>1. i + 1 \in 1 .. Len(lock) /\ lock'[i] = lock[i + 1] /\ i + 1 # 1 /\ 1 \in 1 .. Len(lock)
    BY <1>1
  <2>2. lock[i + 1] # lock[1]
    BY <2>1, <1>3 DEF LineInv
  <2>3. lock[i + 1] \in Callers \ {c} /\ InLine(lock[i + 1])
    BY <2>1, <2>2, <1>1, <1>3 DEF LineInv
  <2>4. PICK x \in Callers \ {c} : x = lock[i + 1]
    BY <2>3
  <2>5. InLine(x)'
    BY <2>3, <2>4, <1>2
  <2>6. QED
    BY <2>1, <2>4, <2>5 DEF InLine, Leads
<1>7. ASSUME NEW i \in 1 .. Len(lock'), NEW j \in 1 .. Len(lock'), lock'[i] = lock'[j]
      PROVE  i = j
  <2>1. i + 1 \in 1 .. Len(lock) /\ j + 1 \in 1 .. Len(lock) /\ lock[i + 1] = lock[j + 1]
    BY <1>1, <1>7
  <2>2. i + 1 = j + 1
    BY <2>1, <1>3 DEF LineInv
  <2>3. QED
    BY <2>2, <1>1
<1>8. LineInv'
  <2>1. \A x \in Callers : InLine(x)' => \E i \in 1 .. Len(lock') : lock'[i] = x
    BY <1>5
  <2>2. \A i \in 1 .. Len(lock') : InLine(lock[i])'
    BY <1>6
  <2>3. \A i, j \in 1 .. Len(lock') : lock'[i] = lock'[j] => i = j
    BY <1>7
  <2>4. QED
    BY <2>1, <2>2, <2>3, <1>4, Zenon DEF LineInv
<1>9. QED
  BY <1>1, <1>4, <1>8

\* Who releases the lock holds it.
LEMMA HolderReleases ==
  ASSUME TypeInv, NEW c \in Callers,
         Leads(c) \/ (pc[c] = "queued" /\ Head(lock) = c)
  PROVE  lock # << >> /\ Head(lock) = c
<1>1. \E i \in 1 .. Len(lock) : lock[i] = c
  BY DEF TypeInv, LineInv, InLine
<1>2. QED
  BY <1>1 DEF TypeInv, TypeOK, LineInv

\* The steps that leave the line at the lock alone.
KeepsLine(c) ==
  \/ Send(c) \/ Answered(c) \/ Rejected(c) \/ Resend(c) \/ RejectedAgain(c)
  \/ CallRefresh(c) \/ Miss(c) \/ Request(c) \/ Rotate(c) \/ Repeat(c)

\* The steps that drop the guard.
Releases(c) ==
  Follow(c) \/ NoSession(c) \/ NoRefreshToken(c) \/ NoVersions(c) \/ RefreshOk(c) \/ RefreshErr(c)

\* Next, by what its steps do to the line.
LEMMA StepKinds ==
  ASSUME [Next]_vars
  PROVE  \/ \E c \in Callers : KeepsLine(c) \/ Lead(c) \/ Enqueue(c) \/ Releases(c)
         \/ Expire \/ ServerTurns \/ UNCHANGED vars
BY DEF Next, Proceed, SendStep, LockStep, LeaderStep, KeepsLine, Releases

\* What all the steps that drop the guard have in common.
LEMMA ReleaseFrame ==
  ASSUME TypeInv, NEW c \in Callers, Releases(c)
  PROVE  /\ lock # << >> /\ Head(lock) = c /\ Unlock
         /\ \E s \in {"idle", "resend"} : pc' = [pc EXCEPT ![c] = s]
         /\ used' \in [Callers -> Nat]
         /\ \A x \in Callers \ {c} : used'[x] = used[x]
         /\ UNCHANGED <<session, versions, serverSide, world>>
         /\ pc'[c] = "resend" =>
              used' = used /\ (RefreshOk(c) \/ (Follow(c) /\ outcome = "ok"))
<1> DEFINE Common(ok) ==
      /\ \E s \in {"idle", "resend"} : pc' = [pc EXCEPT ![c] = s]
      /\ used' \in [Callers -> Nat]
      /\ \A x \in Callers \ {c} : used'[x] = used[x]
      /\ pc'[c] = "resend" => ok /\ used' = used
<1>1. ASSUME NEW ok \in BOOLEAN, Return(c, ok) PROVE Common(ok)
  BY <1>1, ReturnFrame DEF TypeInv
<1>2. CASE Follow(c)
  <2>1. Common(outcome = "ok")
    BY <1>1, <1>2 DEF Follow
  <2>2. lock # << >> /\ Head(lock) = c
    BY <1>2, HolderReleases DEF Follow
  <2>3. QED
    BY <1>2, <2>1, <2>2 DEF Follow, leadUnchanged
<1>3. CASE NoSession(c) \/ NoRefreshToken(c) \/ NoVersions(c)
  <2>1. Common(FALSE)
    BY <1>1, <1>3 DEF NoSession, NoRefreshToken, NoVersions
  <2>2. Leads(c)
    BY <1>3 DEF NoSession, NoRefreshToken, NoVersions, Leads
  <2>3. lock # << >> /\ Head(lock) = c
    BY <2>2, HolderReleases
  <2>4. QED
    BY <1>3, <2>1, <2>3 DEF NoSession, NoRefreshToken, NoVersions, leadUnchanged, serverSide
<1>4. CASE RefreshOk(c)
  <2>1. Common(TRUE)
    BY <1>1, <1>4 DEF RefreshOk, Leave
  <2>2. Leads(c)
    BY <1>4 DEF RefreshOk, Leads
  <2>3. lock # << >> /\ Head(lock) = c
    BY <2>2, HolderReleases
  <2>4. QED
    BY <1>4, <2>1, <2>3 DEF RefreshOk, Leave
<1>5. CASE RefreshErr(c)
  <2>1. Common(FALSE)
    BY <1>1, <1>5 DEF RefreshErr, Leave
  <2>2. Leads(c)
    BY <1>5 DEF RefreshErr, RequestFails, Leads
  <2>3. lock # << >> /\ Head(lock) = c
    BY <2>2, HolderReleases
  <2>4. Unlock /\ UNCHANGED <<session, versions, serverSide, world>>
    BY <1>5 DEF RefreshErr, Leave
  <2>5. pc'[c] # "resend"
    BY <2>1
  <2>6. QED
    BY <2>1, <2>3, <2>4, <2>5, Zenon
<1>6. QED
  BY <1>2, <1>3, <1>4, <1>5 DEF Releases

----------------------------------------------------------------------------
(* Types.                                                                  *)

LEMMA Typing == Spec => []TypeInv
<1>1. Init => TypeInv
  <2> SUFFICES ASSUME Init PROVE TypeInv
    OBVIOUS
  <2>1. TypeOK
    <3>1. pc \in [Callers -> States] /\ used \in [Callers -> Nat] /\ answer \in [Callers -> Nat]
      BY DEF Init, States
    <3>2. lock \in Seq(Callers)
      BY DEF Init
    <3>3. outcome \in {"ok", "err"} /\ versions \in BOOLEAN
      BY DEF Init
    <3>4. session \in SessionKinds /\ env \in SUBSET EnvKinds
      BY SessionsAssumption, EnvsAssumption DEF Init
    <3>5. token \in Nat /\ newest \in Nat /\ dead \in Nat
      BY DEF Init
    <3>6. serverBusy \in BOOLEAN
      BY Zenon DEF Init
    <3>7. QED
      BY <3>1, <3>2, <3>3, <3>4, <3>5, <3>6 DEF TypeOK
  <2>2. LineInv
    BY DEF Init, LineInv, InLine, Leads
  <2>3. QED
    BY <2>1, <2>2 DEF TypeInv
<1>2. TypeInv /\ [Next]_vars => TypeInv'
  <2> SUFFICES ASSUME TypeInv, [Next]_vars PROVE TypeInv'
    OBVIOUS
  <2>1. ASSUME NEW c \in Callers, KeepsLine(c) PROVE TypeInv'
    <3>1. TypeOK'
      <4>1. CASE Send(c) \/ Resend(c)
        BY <4>1 DEF Send, Resend, Go, client, serverSide, TypeInv, TypeOK, States
      <4>2. CASE Answered(c) \/ RejectedAgain(c)
        <5>1. pc' = [pc EXCEPT ![c] = "idle"] /\ used' = [used EXCEPT ![c] = 0]
          BY <4>2 DEF Answered, RejectedAgain, Finish, Go
        <5>2. pc' \in [Callers -> States] /\ used' \in [Callers -> Nat]
          BY <5>1 DEF TypeInv, TypeOK, States
        <5>3. QED
          BY <4>2, <5>2 DEF Answered, RejectedAgain, client, serverSide, TypeInv, TypeOK
      <4>3. CASE Rejected(c) \/ CallRefresh(c)
        BY <4>3 DEF Rejected, CallRefresh, Go, client, serverSide, TypeInv, TypeOK, States
      <4>4. CASE Miss(c) \/ Request(c)
        BY <4>4 DEF Miss, Request, Go, leadUnchanged, serverSide, TypeInv, TypeOK, States
      <4>5. CASE Rotate(c)
        BY <4>5 DEF Rotate, Go, client, TypeInv, TypeOK, States
      <4>6. CASE Repeat(c)
        BY <4>6 DEF Repeat, Go, client, serverSide, TypeInv, TypeOK, States
      <4>7. QED
        BY <2>1, <4>1, <4>2, <4>3, <4>4, <4>5, <4>6 DEF KeepsLine
    <3>2. lock' = lock
      BY <2>1 DEF KeepsLine, Send, Answered, Rejected, Resend, RejectedAgain, CallRefresh, Miss,
                  Request, Rotate, Repeat, client
    <3>3. \A x \in Callers : (InLine(x)' <=> InLine(x)) /\ (Leads(x)' <=> Leads(x))
      <4>1. CASE Send(c) \/ Answered(c) \/ Rejected(c) \/ Resend(c) \/ RejectedAgain(c) \/ CallRefresh(c)
        BY <4>1 DEF Send, Answered, Rejected, Resend, RejectedAgain, CallRefresh, Finish, Go,
                    InLine, Leads, TypeInv, TypeOK
      <4>2. CASE Miss(c) \/ Request(c) \/ Rotate(c) \/ Repeat(c)
        BY <4>2 DEF Miss, Request, Rotate, Repeat, Go, InLine, Leads, TypeInv, TypeOK
      <4>3. QED
        BY <2>1, <4>1, <4>2 DEF KeepsLine
    <3>4. \A i \in 1 .. Len(lock) : lock[i] \in Callers
      BY DEF TypeInv, TypeOK
    <3>5. LineInv'
      BY <3>2, <3>3, <3>4 DEF TypeInv, LineInv
    <3>6. QED
      BY <3>1, <3>5 DEF TypeInv
  <2>2. ASSUME NEW c \in Callers, Lead(c) PROVE TypeInv'
    <3>1. TypeOK'
      BY <2>2 DEF Lead, Go, leadUnchanged, serverSide, TypeInv, TypeOK, States
    <3>2. \A x \in Callers : ~InLine(x)
      BY <2>2 DEF Lead, TypeInv, LineInv
    <3>3. /\ Leads(c)'
          /\ \A x \in Callers \ {c} : ~InLine(x)' /\ ~Leads(x)'
      BY <2>2, <3>2 DEF Lead, Go, InLine, Leads, TypeInv, TypeOK
    <3>4. Len(lock') = 1 /\ lock'[1] = c /\ lock' # << >>
      BY <2>2 DEF Lead
    <3>5. LineInv'
      BY <3>3, <3>4 DEF LineInv, InLine
    <3>6. QED
      BY <3>1, <3>5 DEF TypeInv
  <2>3. ASSUME NEW c \in Callers, Enqueue(c) PROVE TypeInv'
    <3>1. TypeOK'
      BY <2>3 DEF Enqueue, Go, leadUnchanged, serverSide, TypeInv, TypeOK, States
    <3>2. /\ Len(lock') = Len(lock) + 1 /\ Len(lock) \in Nat
          /\ \A i \in 1 .. Len(lock) : lock'[i] = lock[i] /\ lock[i] \in Callers
          /\ lock'[Len(lock) + 1] = c
          /\ lock # << >> => 1 \in 1 .. Len(lock)
          /\ lock' # << >>
      BY <2>3 DEF Enqueue, TypeInv, TypeOK
    <3>3. /\ ~InLine(c) /\ InLine(c)' /\ ~Leads(c)'
          /\ \A x \in Callers \ {c} : (InLine(x)' <=> InLine(x)) /\ (Leads(x)' <=> Leads(x))
      BY <2>3 DEF Enqueue, Go, InLine, Leads, TypeInv, TypeOK
    <3>4. LineInv
      BY DEF TypeInv
    <3>5. \A i \in 1 .. Len(lock) : lock[i] # c
      BY <3>3, <3>4 DEF LineInv
    <3>6. ASSUME NEW x \in Callers, InLine(x)' PROVE \E i \in 1 .. Len(lock') : lock'[i] = x
      <4>1. CASE x = c
        <5>1. Len(lock) + 1 \in 1 .. Len(lock')
          BY <3>2
        <5>2. QED
          BY <4>1, <5>1, <3>2
      <4>2. CASE x # c
        <5>1. PICK i \in 1 .. Len(lock) : lock[i] = x
          BY <4>2, <3>3, <3>4, <3>6 DEF LineInv
        <5>2. i \in 1 .. Len(lock')
          BY <3>2
        <5>3. QED
          BY <5>1, <5>2, <3>2
      <4>3. QED
        BY <4>1, <4>2
    <3>7. ASSUME NEW i \in 1 .. Len(lock') PROVE InLine(lock[i])'
      <4>1. CASE i = Len(lock) + 1
        BY <4>1, <3>2, <3>3 DEF InLine, Leads
      <4>2. CASE i # Len(lock) + 1
        <5>1. i \in 1 .. Len(lock)
          BY <4>2, <3>2
        <5>2. PICK x \in Callers \ {c} : x = lock[i]
          BY <5>1, <3>2, <3>5
        <5>3. InLine(x)'
          BY <5>1, <5>2, <3>3, <3>4 DEF LineInv
        <5>4. QED
          BY <5>1, <5>2, <5>3, <3>2 DEF InLine, Leads
      <4>3. QED
        BY <4>1, <4>2
    <3>8. ASSUME NEW i \in 1 .. Len(lock'), NEW j \in 1 .. Len(lock'), lock'[i] = lock'[j]
          PROVE  i = j
      <4>1. \A k \in 1 .. Len(lock') : k \in 1 .. Len(lock) \/ k = Len(lock) + 1
        BY <3>2
      <4>2. QED
        BY <4>1, <3>2, <3>4, <3>5, <3>8 DEF LineInv
    <3>9. ASSUME NEW x \in Callers, Leads(x)' PROVE lock' # << >> /\ lock'[1] = x
      BY <3>2, <3>3, <3>4, <3>9 DEF LineInv
    <3>10. LineInv'
      <4>1. \A x \in Callers : InLine(x)' => \E i \in 1 .. Len(lock') : lock'[i] = x
        BY <3>6
      <4>2. \A i \in 1 .. Len(lock') : InLine(lock[i])'
        BY <3>7
      <4>3. \A i, j \in 1 .. Len(lock') : lock'[i] = lock'[j] => i = j
        BY <3>8
      <4>4. QED
        BY <4>1, <4>2, <4>3, <3>9, Zenon DEF LineInv
    <3>11. QED
      BY <3>1, <3>10 DEF TypeInv
  <2>4. ASSUME NEW c \in Callers, Releases(c) PROVE TypeInv'
    <3>1. PICK s \in {"idle", "resend"} : pc' = [pc EXCEPT ![c] = s]
      BY <2>4, ReleaseFrame
    <3>2. lock' \in Seq(Callers) /\ LineInv'
      BY <2>4, <3>1, ReleaseFrame, UnlockLine
    <3>3. /\ used' \in [Callers -> Nat]
          /\ UNCHANGED <<session, versions, serverSide, world>>
      BY <2>4, ReleaseFrame
    <3>4. outcome' \in {"ok", "err"} /\ token' \in Nat /\ answer' \in [Callers -> Nat]
      <4>1. CASE Follow(c) \/ NoRefreshToken(c) \/ NoVersions(c)
        BY <4>1 DEF Follow, NoRefreshToken, NoVersions, leadUnchanged, TypeInv, TypeOK
      <4>2. CASE NoSession(c)
        BY <4>2 DEF NoSession, TypeInv, TypeOK
      <4>3. CASE RefreshOk(c)
        BY <4>3 DEF RefreshOk, Leave, TypeInv, TypeOK
      <4>4. CASE RefreshErr(c)
        BY <4>4 DEF RefreshErr, Leave, TypeInv, TypeOK
      <4>5. QED
        BY <2>4, <4>1, <4>2, <4>3, <4>4 DEF Releases
    <3>5. TypeOK'
      BY <3>1, <3>2, <3>3, <3>4 DEF serverSide, TypeInv, TypeOK, States
    <3>6. QED
      BY <3>2, <3>5 DEF TypeInv
  <2>5. CASE Expire
    BY <2>5 DEF Expire, client, TypeInv, TypeOK, LineInv, InLine, Leads
  <2>6. CASE ServerTurns
    <3>1. serverBusy' \in BOOLEAN
      BY <2>6, Zenon DEF ServerTurns
    <3>2. QED
      BY <2>6, <3>1 DEF ServerTurns, client, serverSide, TypeInv, TypeOK, LineInv, InLine, Leads
  <2>7. CASE UNCHANGED vars
    BY <2>7 DEF vars, client, serverSide, TypeInv, TypeOK, LineInv, InLine, Leads
  <2>8. QED
    BY <2>1, <2>2, <2>3, <2>4, <2>5, <2>6, <2>7, StepKinds
<1>3. QED
  BY <1>1, <1>2, PTL DEF Spec

\* Callers, lock, tokens and server keep their types.
THEOREM TypeCorrect == Spec => []TypeOK
BY Typing, PTL DEF TypeInv

----------------------------------------------------------------------------
(* What the numbers of tokens tell.                                        *)

\* A caller in refresh_access_token, or about to call it again.
Refreshing(c) ==
  pc[c] \in {"refresh", "missed", "queued", "holding", "refreshing", "rotated"}

\* The tokens of client and server are ones that were issued; an answer on
\* its way is the server's last word; whoever refreshes was rejected.
TokenInv ==
  /\ token <= newest /\ dead <= newest
  /\ \A c \in Callers : pc[c] = "rotated" => answer[c] = newest
  /\ \A c \in Callers : Refreshing(c) => used[c] <= dead
  /\ \A c \in Callers : pc[c] = "idle" => used[c] = 0

\* No two callers have an answer at once.
LEMMA OneAnswer ==
  ASSUME TypeInv, NEW c \in Callers, NEW d \in Callers, Leads(c), Leads(d)
  PROVE  c = d
BY DEF TypeInv, LineInv

LEMMA Tokens == Spec => []TokenInv
<1>1. Init => TokenInv
  BY DEF Init, TokenInv, Refreshing
<1>2. TypeInv /\ TokenInv /\ [Next]_vars => TokenInv'
  <2> SUFFICES ASSUME TypeInv, TokenInv, [Next]_vars PROVE TokenInv'
    OBVIOUS
  <2> USE DEF TokenInv, Refreshing
  <2>1. /\ pc \in [Callers -> States] /\ used \in [Callers -> Nat]
        /\ answer \in [Callers -> Nat]
        /\ token \in Nat /\ newest \in Nat /\ dead \in Nat
    BY DEF TypeInv, TypeOK
  <2>2. ASSUME NEW c \in Callers, KeepsLine(c) PROVE TokenInv'
    <3>1. CASE Send(c) \/ Resend(c)
      BY <2>1, <3>1 DEF Send, Resend, Go, client, serverSide
    <3>2. CASE Answered(c) \/ RejectedAgain(c)
      BY <2>1, <3>2 DEF Answered, RejectedAgain, Finish, Go, client, serverSide
    <3>3. CASE Rejected(c) \/ CallRefresh(c)
      BY <2>1, <3>3 DEF Rejected, CallRefresh, Go, client, serverSide
    <3>4. CASE Miss(c) \/ Request(c)
      BY <2>1, <3>4 DEF Miss, Request, Go, leadUnchanged, serverSide
    <3>5. CASE Rotate(c)
      <4>1. Leads(c) /\ Refreshing(c) /\ pc' = [pc EXCEPT ![c] = "rotated"]
        BY <3>5 DEF Rotate, Go, Leads
      <4>2. ASSUME NEW d \in Callers, pc'[d] = "rotated" PROVE answer'[d] = newest'
        <5>1. d = c
          BY <2>1, <4>1, <4>2, OneAnswer DEF Leads
        <5>2. QED
          BY <2>1, <3>5, <5>1 DEF Rotate
      <4>3. newest' = newest + 1 /\ dead' \in {dead, newest} /\ token' = token /\ used' = used
        BY <3>5 DEF Rotate, client
      <4>4. QED
        BY <2>1, <4>1, <4>2, <4>3
    <3>6. CASE Repeat(c)
      <4>1. pc[c] = "rotated" /\ pc' = [pc EXCEPT ![c] = "refreshing"]
        BY <3>6 DEF Repeat, Go
      <4>2. /\ UNCHANGED <<used, token, newest, dead>>
            /\ \A d \in Callers \ {c} : answer'[d] = answer[d]
        BY <2>1, <3>6 DEF Repeat, client, serverSide
      <4>3. QED
        BY <2>1, <4>1, <4>2
    <3>7. QED
      BY <2>2, <3>1, <3>2, <3>3, <3>4, <3>5, <3>6 DEF KeepsLine
  <2>3. ASSUME NEW c \in Callers, Lead(c) \/ Enqueue(c) PROVE TokenInv'
    BY <2>1, <2>3 DEF Lead, Enqueue, Go, leadUnchanged, serverSide
  <2>4. ASSUME NEW c \in Callers, Releases(c) PROVE TokenInv'
    <3>1. /\ UNCHANGED <<newest, dead>>
          /\ \E s \in {"idle", "resend"} : pc' = [pc EXCEPT ![c] = s]
          /\ \A x \in Callers \ {c} : used'[x] = used[x]
      BY <2>4, ReleaseFrame DEF serverSide
    <3>2. \A x \in Callers \ {c} : pc'[x] = pc[x]
      BY <2>1, <3>1
    <3>3. pc'[c] \in {"idle", "resend"} /\ (pc'[c] = "idle" => used'[c] = 0)
      <4>1. ASSUME NEW ok \in BOOLEAN, Return(c, ok)
            PROVE  pc'[c] \in {"idle", "resend"} /\ (pc'[c] = "idle" => used'[c] = 0)
        BY <2>1, <4>1 DEF Return, Finish, Go
      <4>2. \E ok \in BOOLEAN : Return(c, ok)
        BY <2>4 DEF Releases, Follow, NoSession, NoRefreshToken, NoVersions, RefreshOk, RefreshErr, Leave
      <4>3. QED
        BY <4>1, <4>2
    <3>4. token' \in {token, newest}
      BY <2>4 DEF Releases, Follow, NoSession, NoRefreshToken, NoVersions, RefreshOk, RefreshErr,
                  leadUnchanged
    <3>5. \A x \in Callers \ {c} : answer'[x] = answer[x]
      BY <2>1, <2>4 DEF Releases, Follow, NoSession, NoRefreshToken, NoVersions, RefreshOk, RefreshErr,
                  leadUnchanged, Leave
    <3>6. QED
      BY <2>1, <3>1, <3>2, <3>3, <3>4, <3>5
  <2>5. CASE Expire
    BY <2>1, <2>5 DEF Expire, client
  <2>6. CASE ServerTurns \/ UNCHANGED vars
    BY <2>6 DEF ServerTurns, vars, client, serverSide
  <2>7. QED
    BY <2>2, <2>3, <2>4, <2>5, <2>6, StepKinds
<1>3. QED
  BY <1>1, <1>2, Typing, PTL DEF Spec

----------------------------------------------------------------------------
(* The client keeps up with the server.                                    *)

\* Unless an answer is lost, the client holds the newest token the server has
\* issued, or the answer that carries it is on its way.
THEOREM NewestHeld == Spec => []HoldsNewest
<1>1. Init => HoldsNewest
  BY DEF Init, HoldsNewest
<1>2. TypeInv /\ TokenInv /\ HoldsNewest /\ [Next]_vars => HoldsNewest'
  <2> SUFFICES ASSUME TypeInv, TokenInv, HoldsNewest, [Next]_vars PROVE HoldsNewest'
    OBVIOUS
  <2>1. pc \in [Callers -> States] /\ answer \in [Callers -> Nat] /\ newest \in Nat
    BY DEF TypeInv, TypeOK
  <2>2. ASSUME NEW c \in Callers, Rotate(c) PROVE HoldsNewest'
    BY <2>1, <2>2 DEF Rotate, Go, HoldsNewest
  <2>3. ASSUME NEW c \in Callers, RefreshOk(c) PROVE HoldsNewest'
    BY <2>3 DEF RefreshOk, TokenInv, HoldsNewest, serverSide
  <2>4. ASSUME NEW c \in Callers, RefreshErr(c) PROVE HoldsNewest'
    <3>1. /\ Leads(c) /\ ("lost" \notin env => pc[c] # "rotated")
          /\ UNCHANGED <<token, newest, env>>
      BY <2>4 DEF RefreshErr, RequestFails, Leads, serverSide
    <3>2. ASSUME NEW d \in Callers, pc[d] = "rotated", answer[d] = newest, d # c
          PROVE  pc'[d] = "rotated" /\ answer'[d] = newest
      BY <3>1, <3>2, OneAnswer DEF Leads
    <3>3. QED
      BY <3>1, <3>2 DEF HoldsNewest
  <2>5. ASSUME NEW c \in Callers, KeepsLine(c) \/ Lead(c) \/ Enqueue(c), ~Rotate(c), ~Repeat(c)
        PROVE  HoldsNewest'
    <3>1. UNCHANGED <<token, newest, answer, env>>
      BY <2>5 DEF KeepsLine, Send, Answered, Rejected, Resend, RejectedAgain, CallRefresh, Miss,
                  Request, Lead, Enqueue, leadUnchanged, client, serverSide
    <3>2. pc[c] # "rotated" /\ \E s \in States : pc' = [pc EXCEPT ![c] = s]
      BY <2>5 DEF KeepsLine, Send, Answered, Rejected, Resend, RejectedAgain, CallRefresh, Miss,
                  Request, Lead, Enqueue, Go, Finish, States
    <3>3. QED
      BY <2>1, <3>1, <3>2 DEF HoldsNewest
  <2>6. ASSUME NEW c \in Callers,
               Follow(c) \/ NoSession(c) \/ NoRefreshToken(c) \/ NoVersions(c)
        PROVE  HoldsNewest'
    <3>1. UNCHANGED <<token, newest, answer, env>> /\ pc[c] # "rotated"
      BY <2>6 DEF Follow, NoSession, NoRefreshToken, NoVersions, leadUnchanged, serverSide
    <3>2. \E s \in {"idle", "resend"} : pc' = [pc EXCEPT ![c] = s]
      BY <2>6, ReleaseFrame DEF Releases
    <3>3. QED
      BY <2>1, <3>1, <3>2 DEF HoldsNewest
  <2>7. ASSUME NEW c \in Callers, Repeat(c) PROVE HoldsNewest'
    BY <2>7 DEF Repeat, HoldsNewest
  <2>8. CASE Expire \/ ServerTurns \/ UNCHANGED vars
    BY <2>8 DEF Expire, ServerTurns, vars, client, serverSide, HoldsNewest
  <2>9. QED
    BY <2>2, <2>3, <2>4, <2>5, <2>6, <2>7, <2>8, StepKinds DEF Releases
<1>3. QED
  BY <1>1, <1>2, Typing, Tokens, PTL DEF Spec

----------------------------------------------------------------------------
(* What a repeated send is made with.                                      *)

Calm == env \cap {"versions", "hasty"} = {} /\ session = "refreshable"

\* An answer on its way is good; so is the token of a client whose last
\* refresh, now over, is reported as Ok to those who still wait for it; a send
\* about to be repeated has a newer token to use.
FreshTokens ==
  /\ \A c \in Callers : pc[c] = "rotated" => dead < answer[c]
  /\ (\A c \in Callers : ~Leads(c)) /\ outcome = "ok" /\ (\E c \in Callers : Follows(c)) =>
       dead < token
  /\ \A c \in Callers : pc[c] = "resend" => used[c] < token
FreshInv == Calm => FreshTokens

\* No step changes the environment of the run or the kind of the session.
LEMMA EnvFixed == ASSUME [Next]_vars PROVE UNCHANGED <<env, session>>
<1>1. ASSUME NEW c \in Callers, Proceed(c) \/ Send(c) \/ CallRefresh(c) PROVE UNCHANGED <<env, session>>
  <2>1. CASE SendStep(c) \/ Send(c) \/ CallRefresh(c)
    BY <2>1 DEF SendStep, Send, Answered, Rejected, Resend, RejectedAgain, CallRefresh, client
  <2>2. CASE LockStep(c)
    BY <2>2 DEF LockStep, Lead, Miss, Enqueue, Follow, leadUnchanged
  <2>3. CASE LeaderStep(c)
    BY <2>3 DEF LeaderStep, NoSession, NoRefreshToken, NoVersions, Request, Rotate, Repeat, RefreshOk,
                RefreshErr, leadUnchanged, client
  <2>4. QED
    BY <1>1, <2>1, <2>2, <2>3 DEF Proceed
<1>2. QED
  BY <1>1 DEF Next, Expire, ServerTurns, vars, client

\* While nobody leads, the lock is held by someone who waited for it.
LEMMA HeldByFollower ==
  ASSUME TypeInv, lock # << >>, \A c \in Callers : ~Leads(c)
  PROVE  \E c \in Callers : Follows(c)
<1>1. 1 \in 1 .. Len(lock) /\ lock[1] \in Callers
  BY DEF TypeInv, TypeOK
<1>2. InLine(lock[1])
  BY <1>1 DEF TypeInv, LineInv
<1>3. QED
  BY <1>1, <1>2 DEF InLine, Follows

\* Where leaders report how they ended and new tokens live until they are
\* used, a send is never repeated with the token that was rejected.
THEOREM RetryNewer == Spec => []RetryIsNewer
<1>1. Init => FreshInv
  BY DEF Init, FreshInv, FreshTokens, Follows
<1>2. TypeInv /\ TokenInv /\ FreshInv /\ [Next]_vars => FreshInv'
  <2> SUFFICES ASSUME TypeInv, TokenInv, FreshTokens, [Next]_vars, Calm
               PROVE  FreshTokens'
    BY EnvFixed DEF FreshInv, Calm
  <2>1. /\ pc \in [Callers -> States] /\ used \in [Callers -> Nat]
        /\ answer \in [Callers -> Nat]
        /\ token \in Nat /\ newest \in Nat /\ dead \in Nat
    BY DEF TypeInv, TypeOK
  <2>2. ASSUME NEW c \in Callers, Send(c) \/ Answered(c) \/ Rejected(c) \/ Resend(c)
                                  \/ RejectedAgain(c) \/ CallRefresh(c)
        PROVE  FreshTokens'
    <3>1. UNCHANGED <<outcome, token, dead, answer>>
      BY <2>2 DEF Send, Answered, Rejected, Resend, RejectedAgain, CallRefresh, client, serverSide
    <3>2. /\ \E s \in {"sent", "idle", "refresh", "resent"} : pc' = [pc EXCEPT ![c] = s]
          /\ \A x \in Callers \ {c} : used'[x] = used[x]
          /\ ~Leads(c)
      BY <2>1, <2>2 DEF Send, Answered, Rejected, Resend, RejectedAgain, CallRefresh, Finish, Go, Leads
    <3>3. /\ \A x \in Callers : Leads(x) => Leads(x)'
          /\ \A x \in Callers : Follows(x)' => Follows(x)
      BY <2>1, <3>2 DEF Leads, Follows
    <3>4. QED
      BY <2>1, <3>1, <3>2, <3>3 DEF FreshTokens
  <2>3. ASSUME NEW c \in Callers, Miss(c) \/ Enqueue(c) PROVE FreshTokens'
    <3>1. UNCHANGED <<outcome, token, dead, answer, used>>
      BY <2>3 DEF Miss, Enqueue, leadUnchanged, serverSide
    <3>2. /\ \E s \in {"missed", "queued"} : pc' = [pc EXCEPT ![c] = s]
          /\ ~Leads(c) /\ (lock # << >> \/ Follows(c))
      BY <2>3 DEF Miss, Enqueue, Go, Leads, Follows
    <3>3. \A x \in Callers : Leads(x) => Leads(x)'
      BY <2>1, <3>2 DEF Leads
    <3>4. (\A x \in Callers : ~Leads(x)') => \E x \in Callers : Follows(x)
      BY <3>2, <3>3, HeldByFollower
    <3>5. QED
      BY <2>1, <3>1, <3>2, <3>3, <3>4 DEF FreshTokens
  <2>4. ASSUME NEW c \in Callers, Lead(c) \/ Request(c) PROVE FreshTokens'
    <3>1. UNCHANGED <<outcome, token, dead, answer, used>>
      BY <2>4 DEF Lead, Request, leadUnchanged, serverSide
    <3>2. \E s \in {"holding", "refreshing"} : pc' = [pc EXCEPT ![c] = s]
      BY <2>4 DEF Lead, Request, Go
    <3>3. Leads(c)'
      BY <2>1, <3>2 DEF Leads
    <3>4. QED
      BY <2>1, <3>1, <3>2, <3>3 DEF FreshTokens
  <2>5. ASSUME NEW c \in Callers, Rotate(c) PROVE FreshTokens'
    <3>1. Leads(c) /\ Leads(c)' /\ pc' = [pc EXCEPT ![c] = "rotated"]
      BY <2>1, <2>5 DEF Rotate, Go, Leads
    <3>2. UNCHANGED <<token, used>> /\ dead' <= newest /\ answer'[c] = newest + 1
      BY <2>1, <2>5 DEF Rotate, client, TokenInv
    <3>3. \A x \in Callers : pc'[x] = "rotated" => x = c
      BY <2>1, <3>1, OneAnswer DEF Leads
    <3>4. dead' \in Nat
      BY <2>1, <2>5 DEF Rotate
    <3>5. QED
      BY <2>1, <3>1, <3>2, <3>3, <3>4 DEF FreshTokens
  <2>6. ASSUME NEW c \in Callers, Follow(c) PROVE FreshTokens'
    <3>1. UNCHANGED <<outcome, token, dead, answer>>
      BY <2>6 DEF Follow, leadUnchanged, serverSide
    <3>2. PICK s \in {"idle", "resend"} : pc' = [pc EXCEPT ![c] = s]
      BY <2>6, ReleaseFrame DEF Releases
    <3>3. \A x \in Callers : ~Leads(x)
      <4>1. lock # << >> /\ Head(lock) = c /\ ~Leads(c)
        BY <2>6, HolderReleases DEF Follow, Leads
      <4>2. QED
        BY <4>1 DEF TypeInv, TypeOK, LineInv
    <3>4. \A x \in Callers : Follows(x)' => Follows(x)
      BY <2>1, <3>2 DEF Follows
    <3>5. ASSUME NEW x \in Callers, pc'[x] = "resend" PROVE used'[x] < token
      <4>1. CASE x # c
        BY <2>1, <2>6, <3>2, <3>5, <4>1, ReleaseFrame DEF Releases, FreshTokens
      <4>2. CASE x = c
        <5>1. used' = used /\ outcome = "ok"
          <6>1. pc[c] # "rotated"
            BY <2>6 DEF Follow
          <6>2. QED
            BY <2>6, <3>5, <4>2, <6>1, ReleaseFrame DEF Releases, RefreshOk
        <5>2. used[c] <= dead /\ dead < token
          BY <2>6, <3>3, <5>1 DEF Follow, Follows, FreshTokens, TokenInv, Refreshing
        <5>3. QED
          BY <2>1, <4>2, <5>1, <5>2
      <4>3. QED
        BY <4>1, <4>2
    <3>6. \A x \in Callers : pc'[x] # "rotated"
      BY <2>1, <3>2, <3>3 DEF Leads
    <3>7. QED
      BY <3>1, <3>3, <3>4, <3>5, <3>6 DEF FreshTokens
  <2>7. ASSUME NEW c \in Callers, RefreshOk(c) PROVE FreshTokens'
    <3>1. /\ Leads(c) /\ pc[c] = "rotated"
          /\ token' = answer[c] /\ dead' = dead /\ answer[c] = newest /\ dead < answer[c]
          /\ used[c] <= dead /\ token <= newest
      BY <2>7 DEF RefreshOk, Leads, serverSide, TokenInv, Refreshing, FreshTokens
    <3>2. PICK s \in {"idle", "resend"} : pc' = [pc EXCEPT ![c] = s]
      BY <2>7, ReleaseFrame DEF Releases
    <3>3. \A x \in Callers : pc'[x] # "rotated"
      BY <2>1, <3>1, <3>2, OneAnswer DEF Leads
    <3>4. ASSUME NEW x \in Callers, pc'[x] = "resend" PROVE used'[x] < token'
      <4>1. CASE x # c
        <5>1. used'[x] = used[x] /\ used[x] < token
          BY <2>1, <2>7, <3>2, <3>4, <4>1, ReleaseFrame DEF Releases, FreshTokens
        <5>2. QED
          BY <2>1, <3>1, <5>1
      <4>2. CASE x = c
        <5>1. used' = used
          BY <2>7, <3>4, <4>2, ReleaseFrame DEF Releases
        <5>2. QED
          BY <2>1, <3>1, <4>2, <5>1
      <4>3. QED
        BY <4>1, <4>2
    <3>5. QED
      BY <3>1, <3>3, <3>4 DEF FreshTokens
  <2>8. ASSUME NEW c \in Callers, RefreshErr(c) PROVE FreshTokens'
    <3>1. Leads(c) /\ outcome' = "err" /\ UNCHANGED <<token, dead>>
      BY <2>8 DEF RefreshErr, RequestFails, Leads, serverSide
    <3>2. PICK s \in {"idle", "resend"} : pc' = [pc EXCEPT ![c] = s]
      BY <2>8, ReleaseFrame DEF Releases
    <3>3. \A x \in Callers : pc'[x] # "rotated"
      BY <2>1, <3>1, <3>2, OneAnswer DEF Leads
    <3>4. s # "resend"
      BY <2>1, <2>8, <3>1, <3>2, ReleaseFrame DEF Releases, RefreshErr, Leave, Return, Finish, Go
    <3>5. \A x \in Callers \ {c} : used'[x] = used[x] /\ pc'[x] = pc[x]
      BY <2>1, <2>8, <3>2, ReleaseFrame DEF Releases
    <3>6. QED
      BY <2>1, <3>1, <3>2, <3>3, <3>4, <3>5 DEF FreshTokens
  <2>9. ASSUME NEW c \in Callers, NoSession(c) \/ NoRefreshToken(c) \/ NoVersions(c)
        PROVE  FreshTokens'
    BY <2>9 DEF NoSession, NoRefreshToken, NoVersions, Calm
  <2>10. ASSUME NEW c \in Callers, Repeat(c) PROVE FreshTokens'
    <3>1. Leads(c)' /\ pc' = [pc EXCEPT ![c] = "refreshing"]
      BY <2>1, <2>10 DEF Repeat, Go, Leads
    <3>2. UNCHANGED <<used, token, dead>> /\ \A x \in Callers \ {c} : answer'[x] = answer[x]
      BY <2>1, <2>10 DEF Repeat, client, serverSide
    <3>3. QED
      BY <2>1, <3>1, <3>2 DEF FreshTokens
  <2>11. CASE Expire
    BY <2>11 DEF Expire, client, Calm, FreshTokens, Leads, Follows
  <2>12. CASE ServerTurns \/ UNCHANGED vars
    BY <2>12 DEF ServerTurns, vars, client, serverSide, FreshTokens, Leads, Follows
  <2>13. QED
    BY <2>2, <2>3, <2>4, <2>5, <2>6, <2>7, <2>8, <2>9, <2>10, <2>11, <2>12, StepKinds
       DEF KeepsLine, Releases
<1>3. FreshInv => RetryIsNewer
  BY DEF FreshInv, FreshTokens, Calm, RetryIsNewer
<1>4. QED
  BY <1>1, <1>2, <1>3, Typing, Tokens, PTL DEF Spec
============================================================================

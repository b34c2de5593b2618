------------------------- MODULE ClientParts_proofs -------------------------
(* Proofs about the parts of the client: those of Calls_proofs,            *)
(* SetupScripts_proofs and Endpoints_proofs, and here the memberships, the *)
(* account data, the media, the routes, the pace of syncs, the sleeps and  *)
(* the typing notices; in the end the whole, of which every part is a      *)
(* projection.                                                             *)
EXTENDS ClientParts, Calls_proofs, SetupScripts_proofs, Endpoints_proofs,
        FiniteSetTheorems, SequenceTheorems, TLAPS

----------------------------------------------------------------------------
(* The room (RoomMembership).                                              *)

\* The events of our membership that an answered call may find, if nothing
\* else changed it meanwhile.
AnswerHolds ==
  \A c \in Users :
    /\ step[c] \in {"join_ok", "joined", "create_ok"} => Member = "join"
    /\ step[c] \in {"leave_ok", "left", "forget_ok"} => Member = "leave"
    /\ step[c] = "create_ok" => Len(log) = 1 /\ room \in {"unknown", "Joined"}

OneCall == \A c, d \in Users : InFlight(c) /\ InFlight(d) => c = d

SyncedRoom ==
  seen = Len(log) /\ log # <<>> =>
    room = StateOf(Member) \/ (room = "unknown" /\ Member = "leave")

\* Before our first event there is no room, and no call but one that creates it.
BeforeTheRoom ==
  (log = <<>>) => room = "unknown" /\ \A c \in Users :
    step[c] \in {"idle", "create"} /\ handle[c] = "none"

MembershipInv ==
  /\ MembershipTypeOK
  /\ BeforeTheRoom
  /\ ~crossed => OneCall /\ AnswerHolds /\ SyncedRoom /\ ~panicked

LEMMA InitMembershipInv == MembershipInit => MembershipInv
<1> SUFFICES ASSUME MembershipInit PROVE MembershipInv
  OBVIOUS
<1>1. MembershipTypeOK
  <2>1. log \in Seq(Memberships) /\ Len(log) = 0
    BY DEF MembershipInit
  <2>2. /\ handle \in [Users -> Handles \cup {"none"}]
        /\ step \in [Users -> Steps]
        /\ room \in RoomStates /\ panicked \in BOOLEAN /\ crossed \in BOOLEAN
    BY DEF MembershipInit, RoomStates, Handles, Steps
  <2>3. seen = 0 /\ coming = 0
    BY DEF MembershipInit
  <2>4. QED
    BY <2>1, <2>2, <2>3, MaxEventsAssumption DEF MembershipTypeOK
<1>2. QED
  BY <1>1 DEF MembershipInit, MembershipInv, BeforeTheRoom, OneCall, AnswerHolds, SyncedRoom, InFlight

\* Our newest event is the one that was appended.
LEMMA BecameIsMember ==
  ASSUME MembershipTypeOK, NEW m \in Memberships, Became(m)
  PROVE  /\ log' \in Seq(Memberships) /\ Len(log') = Len(log) + 1
         /\ Len(log') <= MaxEvents /\ log' # <<>> /\ Member' = m
         /\ \A i \in 1 .. Len(log) : log'[i] = log[i]
  BY MaxEventsAssumption DEF MembershipTypeOK, Became, Member

LEMMA StateOfIsHandle == \A m \in Memberships : StateOf(m) \in Handles
  BY DEF StateOf, Memberships, Handles

LEMMA StepMembershipType ==
  ASSUME MembershipTypeOK, [MembershipNext]_membershipVars
  PROVE  MembershipTypeOK'
<1> USE DEF MembershipTypeOK
<1>1. ASSUME NEW c \in Users, UserStep(c)  PROVE MembershipTypeOK'
  <2>1. CASE Serve(c)
    <3>1. CASE UNCHANGED log
      BY <2>1, <3>1 DEF Serve, Step, Steps
    <3>2. ASSUME NEW m \in Memberships, Became(m)  PROVE MembershipTypeOK'
      BY <2>1, <3>2, BecameIsMember DEF Serve, Step, Steps
    <3>3. QED
      BY <2>1, <3>1, <3>2 DEF Serve, Memberships
  <2>2. CASE GetRoom(c)
    BY <2>2 DEF GetRoom, Hold, RoomStates
  <2>3. CASE CallJoin(c) \/ CallLeave(c) \/ CallCreate(c) \/ CallForget(c)
    BY <2>3 DEF CallJoin, CallLeave, CallCreate, CallForget, Call, Step, Steps
  <2>4. CASE RequestErrs(c) \/ MarkJoined(c) \/ MarkLeft(c) \/ RemoveRoom(c)
    BY <2>4 DEF RequestErrs, MarkJoined, MarkLeft, RemoveRoom, Step, Steps, RoomStates, Handles
  <2>5. CASE TakeHandle(c) \/ TakeCreated(c)
    BY <2>5 DEF TakeHandle, TakeCreated, Step, Steps, Hold, RoomStates, Handles
  <2>6. QED
    BY <1>1, <2>1, <2>2, <2>3, <2>4, <2>5 DEF UserStep
<1>2. ASSUME NEW m \in {"invite", "leave"}, Elsewhere(m)  PROVE MembershipTypeOK'
  BY <1>2, BecameIsMember DEF Elsewhere, Memberships
<1>3. CASE SyncResponds
  BY <1>3 DEF SyncResponds
<1>4. CASE SyncHandled
  <2>1. log[coming] \in Memberships
    BY <1>4 DEF SyncHandled
  <2>2. QED
    BY <1>4, <2>1, StateOfIsHandle DEF SyncHandled, RoomStates
<1>5. CASE UNCHANGED membershipVars
  BY <1>5 DEF membershipVars
<1>6. QED
  BY <1>1, <1>2, <1>3, <1>4, <1>5 DEF MembershipNext

LEMMA StepMembershipInv ==
  ASSUME MembershipInv, [MembershipNext]_membershipVars
  PROVE  MembershipInv'
<1>0. MembershipTypeOK /\ MembershipTypeOK'
  BY StepMembershipType DEF MembershipInv
<1> DEFINE Rest == BeforeTheRoom /\ (~crossed => OneCall /\ AnswerHolds /\ SyncedRoom /\ ~panicked)
<1>r. Rest
  BY DEF MembershipInv
<1>1. ASSUME NEW c \in Users, UserStep(c)  PROVE Rest'
  <2> USE <1>0 DEF MembershipTypeOK
  <2>1. CASE Serve(c)
    <3>1. CASE UNCHANGED log
      <4>0. \A m \in Memberships : ~Became(m)
        BY <3>1, BecameIsMember
      <4>1. BeforeTheRoom'
        BY <1>r, <2>1, <3>1, <4>0 DEF Serve, BeforeTheRoom, Step, Memberships
      <4>2. ASSUME ~crossed  PROVE OneCall' /\ AnswerHolds' /\ SyncedRoom' /\ ~panicked'
        BY <1>r, <2>1, <3>1, <4>2 DEF Serve, Step, OneCall, AnswerHolds, SyncedRoom,
               InFlight, Member, Became
      <4>3. QED
        BY <2>1, <4>1, <4>2 DEF Serve
    <3>2. ASSUME NEW m \in Memberships, Became(m)  PROVE Rest'
      <4>1. BeforeTheRoom' /\ SyncedRoom'
        BY <2>1, <3>2, BecameIsMember DEF Serve, BeforeTheRoom, SyncedRoom
      <4>2. step[c] # "idle" /\ step' = [step EXCEPT ![c] = step'[c]]
        BY <2>1 DEF Serve, Step
      <4>3. ASSUME ~crossed  PROVE OneCall' /\ ~panicked'
        BY <1>r, <2>1, <4>2, <4>3 DEF Serve, OneCall, InFlight
      <4>4. ASSUME ~crossed, NEW d \in Users, d # c  PROVE step'[d] = "idle"
        BY <1>r, <4>2, <4>4 DEF OneCall, InFlight
      <4>5. ASSUME ~crossed  PROVE AnswerHolds'
        <5>1. Member' = m /\ Len(log') = Len(log) + 1
          BY <3>2, BecameIsMember
        <5>2. /\ step'[c] = "join_ok" => m = "join"
              /\ step'[c] = "leave_ok" => m = "leave"
              /\ step'[c] = "create_ok" => m = "join" /\ log = <<>>
              /\ step'[c] \in {"join_ok", "leave_ok", "create_ok"}
          BY <2>1, <3>2, <4>2, <5>1, BecameIsMember DEF Serve, Step, Became, Memberships
        <5>3. log = <<>> => Len(log) = 0 /\ room' = "unknown"
          BY <1>r, <2>1 DEF BeforeTheRoom, Serve
        <5>4. QED
          BY <4>4, <4>5, <5>1, <5>2, <5>3 DEF AnswerHolds
      <4>6. QED
        BY <2>1, <4>1, <4>3, <4>5 DEF Serve
    <3>3. QED
      BY <2>1, <3>1, <3>2 DEF Serve, Memberships
  <2>2. CASE GetRoom(c)
    BY <1>r, <2>2 DEF GetRoom, Hold, BeforeTheRoom, OneCall, AnswerHolds, SyncedRoom,
         InFlight, Member
  <2>3. CASE CallJoin(c) \/ CallLeave(c) \/ CallCreate(c) \/ CallForget(c)
    <3>1. PICK s \in {"join", "leave", "create", "forget"} : Call(c, s) /\ ((log = <<>>) => s = "create")
      BY <1>r, <2>3 DEF CallJoin, CallLeave, CallCreate, CallForget, BeforeTheRoom
    <3>2. BeforeTheRoom' /\ (SyncedRoom => SyncedRoom')
      BY <1>r, <3>1 DEF Call, Step, BeforeTheRoom, SyncedRoom, Member
    <3>3. ASSUME ~crossed'  PROVE ~crossed /\ \A d \in Users : step[d] = "idle"
      BY <3>1, <3>3 DEF Call, InFlight
    <3>4. ASSUME ~crossed'  PROVE OneCall' /\ AnswerHolds' /\ ~panicked'
      BY <1>r, <3>1, <3>3, <3>4 DEF Call, Step, OneCall, AnswerHolds, InFlight
    <3>5. QED
      BY <1>r, <3>2, <3>3, <3>4
  <2>4. CASE RequestErrs(c)
    BY <1>r, <2>4 DEF RequestErrs, Step, BeforeTheRoom, OneCall, AnswerHolds, SyncedRoom,
         InFlight, Member
  <2>5. CASE MarkJoined(c) \/ MarkLeft(c)
    <3>1. log # <<>>
      BY <1>r, <2>5 DEF MarkJoined, MarkLeft, BeforeTheRoom
    <3>2. ASSUME ~crossed  PROVE OneCall' /\ AnswerHolds' /\ ~panicked'
      BY <1>r, <2>5, <3>2 DEF MarkJoined, MarkLeft, Step, OneCall, AnswerHolds, InFlight, Member
    <3>3. ASSUME ~crossed  PROVE room' = StateOf(Member)
      BY <1>r, <2>5, <3>3 DEF MarkJoined, MarkLeft, AnswerHolds, StateOf
    <3>4. ASSUME ~crossed  PROVE SyncedRoom'
      BY <2>5, <3>3, <3>4 DEF MarkJoined, MarkLeft, SyncedRoom, Member
    <3>5. QED
      BY <2>5, <3>1, <3>2, <3>4 DEF MarkJoined, MarkLeft, BeforeTheRoom
  <2>6. CASE TakeHandle(c)
    BY <1>r, <2>6 DEF TakeHandle, Hold, Step, BeforeTheRoom, OneCall, AnswerHolds, SyncedRoom,
         InFlight, Member
  <2>7. CASE TakeCreated(c)
    <3>1. log # <<>>
      BY <1>r, <2>7 DEF TakeCreated, BeforeTheRoom
    <3>2. ASSUME ~crossed  PROVE Member = "join" /\ room' = "Joined" /\ ~panicked'
      BY <1>r, <2>7, <3>2 DEF TakeCreated, AnswerHolds
    <3>3. ASSUME ~crossed  PROVE OneCall' /\ AnswerHolds' /\ SyncedRoom'
      BY <1>r, <2>7, <3>2, <3>3 DEF TakeCreated, Step, OneCall, AnswerHolds, SyncedRoom,
         InFlight, Member, StateOf
    <3>4. QED
      BY <2>7, <3>1, <3>2, <3>3 DEF TakeCreated, BeforeTheRoom
  <2>8. CASE RemoveRoom(c)
    <3>1. log # <<>>
      BY <1>r, <2>8 DEF RemoveRoom, BeforeTheRoom
    <3>2. ASSUME ~crossed  PROVE Member = "leave"
      BY <1>r, <2>8, <3>2 DEF RemoveRoom, AnswerHolds
    <3>3. ASSUME ~crossed  PROVE OneCall' /\ AnswerHolds' /\ SyncedRoom' /\ ~panicked'
      BY <1>r, <2>8, <3>2, <3>3 DEF RemoveRoom, Step, OneCall, AnswerHolds, SyncedRoom,
         InFlight, Member
    <3>4. QED
      BY <2>8, <3>1, <3>3 DEF RemoveRoom, BeforeTheRoom
  <2>9. QED
    BY <1>1, <2>1, <2>2, <2>3, <2>4, <2>5, <2>6, <2>7, <2>8 DEF UserStep
<1>2. ASSUME NEW m \in {"invite", "leave"}, Elsewhere(m)  PROVE Rest'
  <2>1. Len(log') = Len(log) + 1 /\ log' # <<>>
    BY <1>0, <1>2, BecameIsMember DEF Elsewhere, Memberships
  <2>2. seen' # Len(log')
    BY <1>0, <1>2, <2>1 DEF Elsewhere, MembershipTypeOK
  <2>3. ~crossed' => \A c \in Users : step'[c] = "idle"
    BY <1>2 DEF Elsewhere, InFlight
  <2>4. ~crossed' => ~panicked'
    BY <1>2, <1>r DEF Elsewhere
  <2>5. QED
    BY <2>1, <2>2, <2>3, <2>4 DEF BeforeTheRoom, OneCall, AnswerHolds, SyncedRoom, InFlight
<1>3. ASSUME SyncResponds  PROVE Rest'
  BY <1>3, <1>r DEF SyncResponds, BeforeTheRoom, OneCall, AnswerHolds, SyncedRoom,
         InFlight, Member
<1>4. ASSUME SyncHandled  PROVE Rest'
  <2>1. coming \in 1 .. Len(log) /\ log # <<>>
    BY <1>0, <1>4 DEF SyncHandled, MembershipTypeOK
  <2>2. Len(log) = 1 => coming = Len(log)
    BY <2>1, <1>0 DEF MembershipTypeOK
  <2>3. coming = Len(log) => room' = StateOf(Member)
    BY <1>4, <2>1 DEF SyncHandled, Member
  <2>4. (log' = log) /\ (Member' = Member) /\ (seen' = coming) /\ (step' = step)
        /\ (crossed' = crossed) /\ (panicked' = panicked)
    BY <1>4 DEF SyncHandled, Member
  <2>5. BeforeTheRoom'
    BY <2>1, <2>4 DEF BeforeTheRoom
  <2>6. ASSUME ~crossed  PROVE AnswerHolds'
    BY <2>2, <2>3, <2>4, <1>r, <2>6 DEF AnswerHolds, StateOf
  <2>7. SyncedRoom'
    BY <2>3, <2>4 DEF SyncedRoom
  <2>8. QED
    BY <1>r, <2>4, <2>5, <2>6, <2>7 DEF OneCall, InFlight
<1>5. ASSUME UNCHANGED membershipVars  PROVE Rest'
  BY <1>5, <1>r DEF membershipVars, BeforeTheRoom, OneCall, AnswerHolds, SyncedRoom,
         InFlight, Member
<1>6. QED
  BY <1>0, <1>1, <1>2, <1>3, <1>4, <1>5 DEF MembershipNext, MembershipInv

\* The model's variables keep to their types, whatever the users, however many
\* there are: a sync response never covers less than the client's token.
THEOREM MembershipTyped == MembershipSpec => []MembershipTypeOK
<1>1. MembershipInv => MembershipTypeOK
  BY DEF MembershipInv
<1>2. QED
  BY <1>1, InitMembershipInv, StepMembershipInv, PTL DEF MembershipSpec

\* Responses of join, leave, create and forget calls and syncs may be handled
\* in any order: the client's room still ends up as the server has it.
THEOREM RoomEndsRight == MembershipSpec => []RoomConverges
<1>1. MembershipInv => RoomConverges
  BY DEF MembershipInv, SyncedRoom, RoomConverges
<1>2. QED
  BY <1>1, InitMembershipInv, StepMembershipInv, PTL DEF MembershipSpec

\* create_room's unwrap never fails, unless our membership was changed from
\* elsewhere before the answer was there.
THEOREM CreateNeverPanics == MembershipSpec => []CreateUnwraps
<1>1. MembershipInv => CreateUnwraps
  BY DEF MembershipInv, CreateUnwraps
<1>2. QED
  BY <1>1, InitMembershipInv, StepMembershipInv, PTL DEF MembershipSpec

----------------------------------------------------------------------------
(* Account data (AccountData).                                             *)

Contents == SUBSET Entries(People, {""} \cup DmRooms \cup Levels)

ContentsTypeOK ==
  /\ AccountTypeOK
  /\ written \in Seq(Contents) /\ wanted \in Contents
  /\ sending \in [Editors -> Contents]

OneEditor == \A c, d \in Editors : Busy(c) /\ Busy(d) => c = d

\* What a call has in hand is what the server has, or that and its edit.
EditsTheNewest ==
  \A c \in Editors :
    /\ doing[c] \in {"members", "editing"} => sending[c] = Newest
    /\ doing[c] = "sent" => sending[c] = Edited(Newest, edit[c])

AccountInv ==
  /\ ContentsTypeOK
  /\ ~mixed => OneEditor /\ EditsTheNewest /\ Newest = wanted

LEMMA EditsAreTyped ==
  \A e \in Edits \cup {NoEdit} : e.add \in Contents /\ \A k \in Contents : Edited(k, e) \in Contents
<1> SUFFICES ASSUME NEW e \in Edits \cup {NoEdit}  PROVE e.add \in Contents
  BY DEF Edited, Contents
<1>1. CASE e = NoEdit
  BY <1>1 DEF NoEdit, Edit, Contents
<1>2. ASSUME NEW u \in People, e = IgnoreUser(u) \/ e = UnignoreUser(u)  PROVE e.add \in Contents
  <2>1. CASE e = IgnoreUser(u)
    BY <2>1 DEF IgnoreUser, Edit, Entries, Contents
  <2>2. CASE e = UnignoreUser(u)
    BY <2>2 DEF UnignoreUser, Edit, Contents
  <2>3. QED
    BY <1>2, <2>1, <2>2
<1>3. ASSUME NEW r \in DmRooms, e = SetDirect(r) \/ e = ClearDirect(r)  PROVE e.add \in Contents
  <2>1. e.add = People \X {r} \/ e.add = {}
    BY <1>3 DEF SetDirect, ClearDirect, Edit, Entries
  <2>2. QED
    BY <2>1 DEF Entries, Contents
<1>4. ASSUME NEW u \in People, NEW r \in DmRooms, e = MarkAsDm(u, r)  PROVE e.add \in Contents
  BY <1>4 DEF MarkAsDm, Edit, Entries, Contents
<1>5. ASSUME NEW u \in People, NEW l, e = UpdatePowerLevel(u, l)  PROVE e.add \in Contents
  BY <1>5 DEF UpdatePowerLevel, Edit, Entries, Contents
<1>6. QED
  BY <1>1, <1>2, <1>3, <1>4, <1>5 DEF Edits

\* The newest content is typed, and is what the client knows once it has seen
\* them all.
LEMMA NewestIsTyped ==
  ASSUME ContentsTypeOK
  PROVE  /\ Newest \in Contents /\ Local \in Contents
         /\ known = Len(written) => Local = Newest
<1>1. {} \in Contents
  BY DEF Contents
<1>2. written # <<>> => Len(written) \in 1 .. Len(written)
  BY DEF ContentsTypeOK
<1>3. known # 0 => known \in 1 .. Len(written)
  BY DEF ContentsTypeOK, AccountTypeOK
<1>4. (Len(written) = 0) <=> (written = <<>>)
  BY DEF ContentsTypeOK
<1>5. QED
  BY <1>1, <1>2, <1>3, <1>4 DEF ContentsTypeOK, Newest, Local

LEMMA WrittenIsNewest ==
  ASSUME ContentsTypeOK, NEW k \in Contents, written' = Append(written, k)
  PROVE  /\ written' \in Seq(Contents) /\ Newest' = k
         /\ Len(written') = Len(written) + 1
  BY DEF ContentsTypeOK, Newest

LEMMA InitAccountInv == AccountInit => AccountInv
<1> SUFFICES ASSUME AccountInit  PROVE AccountInv
  OBVIOUS
<1>1. {} \in Contents
  BY DEF Contents
<1>2. written \in Seq(Contents) /\ Len(written) \in Nat /\ Len(First) = Len(written) /\ Newest = {}
  BY <1>1 DEF AccountInit, First, Newest
<1>3. /\ doing \in [Editors -> {"idle", "members", "editing", "sent", "stored"}]
      /\ edit \in [Editors -> Edits \cup {NoEdit}]
      /\ sending \in [Editors -> Contents]
  BY <1>1 DEF AccountInit
<1>4. known = 0 /\ arriving = 0 /\ doc \in Documents /\ wanted = {} /\ mixed \in BOOLEAN
  BY DEF AccountInit
<1>5. ContentsTypeOK
  BY <1>1, <1>2, <1>3, <1>4, WritesAssumption DEF ContentsTypeOK, AccountTypeOK
<1>6. \A c \in Editors : doing[c] = "idle"
  BY DEF AccountInit
<1>7. QED
  BY <1>2, <1>4, <1>5, <1>6 DEF AccountInv, OneEditor, EditsTheNewest, Busy

LEMMA StepAccountInv ==
  ASSUME AccountInv, [AccountNext]_accountVars
  PROVE  AccountInv'
<1> USE DEF AccountInv
<1>0. ContentsTypeOK /\ AccountTypeOK /\ Len(First) \in Nat
  BY DEF ContentsTypeOK, First
<1>1. ASSUME NEW c \in Editors, NEW e \in Edits, ReadContent(c, e)  PROVE AccountInv'
  <2>1. ContentsTypeOK'
    BY <1>0, <1>1, NewestIsTyped DEF ReadContent, Doing, ContentsTypeOK, AccountTypeOK, First
  <2>2. ASSUME ~mixed'  PROVE ~mixed /\ known = Len(written) /\ \A d \in Editors : doing[d] = "idle"
    BY <1>1, <2>2 DEF ReadContent, Busy
  <2>3. ASSUME ~mixed'  PROVE OneEditor' /\ EditsTheNewest' /\ Newest' = wanted'
    BY <1>0, <1>1, <2>2, <2>3, NewestIsTyped
    DEF ReadContent, Doing, ContentsTypeOK, AccountTypeOK, OneEditor,
        EditsTheNewest, Busy, Newest
  <2>4. QED
    BY <2>1, <2>3
<1>2. ASSUME NEW c \in Editors, MembersArrive(c) \/ EditEnds(c)  PROVE AccountInv'
  <2>1. ContentsTypeOK'
    BY <1>0, <1>2 DEF MembersArrive, EditEnds, Doing, ContentsTypeOK, AccountTypeOK, First, Contents
  <2>2. ASSUME ~mixed'  PROVE OneEditor' /\ EditsTheNewest' /\ Newest' = wanted'
    BY <1>0, <1>2, <2>2
    DEF MembersArrive, EditEnds, Doing, ContentsTypeOK, AccountTypeOK, OneEditor,
        EditsTheNewest, Busy, Newest
  <2>3. QED
    BY <2>1, <2>2
<1>3. ASSUME NEW c \in Editors, SendContent(c)  PROVE AccountInv'
  <2>1. Edited(sending[c], edit[c]) \in Contents
    BY <1>0, EditsAreTyped DEF ContentsTypeOK, AccountTypeOK
  <2>2. ContentsTypeOK'
    BY <1>0, <1>3, <2>1 DEF SendContent, Doing, ContentsTypeOK, AccountTypeOK, First
  <2>3. ASSUME ~mixed'  PROVE OneEditor' /\ EditsTheNewest' /\ Newest' = wanted'
    BY <1>0, <1>3, <2>3
    DEF SendContent, Doing, ContentsTypeOK, AccountTypeOK, OneEditor,
        EditsTheNewest, Busy, Newest, Edited
  <2>4. QED
    BY <2>2, <2>3
<1>4. ASSUME NEW c \in Editors, Stored(c)  PROVE AccountInv'
  <2>1. /\ written' \in Seq(Contents) /\ Newest' = sending[c]
        /\ Len(written') = Len(written) + 1
    BY <1>0, <1>4, WrittenIsNewest DEF Stored, ContentsTypeOK
  <2>2. Edited(wanted, edit[c]) \in Contents
    BY <1>0, EditsAreTyped DEF ContentsTypeOK, AccountTypeOK
  <2>3. ContentsTypeOK'
    BY <1>0, <1>4, <2>1, <2>2, WritesAssumption DEF Stored, Doing, ContentsTypeOK, AccountTypeOK, First
  <2>4. ASSUME ~mixed'
        PROVE  /\ OneEditor' /\ Newest' = wanted'
               /\ \A d \in Editors : d # c => doing'[d] = "idle"
    BY <1>0, <1>4, <2>1, <2>4
    DEF Stored, Doing, ContentsTypeOK, AccountTypeOK, OneEditor, EditsTheNewest, Busy, Edited
  <2>5. ASSUME ~mixed'  PROVE EditsTheNewest'
    BY <1>0, <1>4, <2>4, <2>5 DEF Stored, Doing, ContentsTypeOK, AccountTypeOK, EditsTheNewest
  <2>6. QED
    BY <2>3, <2>4, <2>5
<1>5. ASSUME NEW e \in Edits, EditedElsewhere(e)  PROVE AccountInv'
  <2>1. Edited(Newest, e) \in Contents /\ Edited(wanted, e) \in Contents
    BY <1>0, NewestIsTyped, EditsAreTyped DEF ContentsTypeOK
  <2>2. /\ written' \in Seq(Contents) /\ Newest' = Edited(Newest, e)
        /\ Len(written') = Len(written) + 1
    BY <1>0, <1>5, <2>1, WrittenIsNewest DEF EditedElsewhere
  <2>3. ContentsTypeOK'
    BY <1>0, <1>5, <2>1, <2>2, WritesAssumption DEF EditedElsewhere, ContentsTypeOK, AccountTypeOK, First
  <2>4. ASSUME ~mixed'  PROVE ~mixed /\ \A d \in Editors : doing'[d] = "idle"
    BY <1>5, <2>4 DEF EditedElsewhere, Busy
  <2>5. ASSUME ~mixed'  PROVE OneEditor' /\ EditsTheNewest' /\ Newest' = wanted'
    BY <1>5, <2>2, <2>4, <2>5 DEF EditedElsewhere, OneEditor, EditsTheNewest, Busy, Edited
  <2>6. QED
    BY <2>3, <2>5
<1>6. ASSUME SyncStarts \/ SyncEnds \/ UNCHANGED accountVars  PROVE AccountInv'
  <2>1. ContentsTypeOK'
    BY <1>0, <1>6 DEF SyncStarts, SyncEnds, accountVars, ContentsTypeOK, AccountTypeOK, First
  <2>2. ASSUME ~mixed'  PROVE OneEditor' /\ EditsTheNewest' /\ Newest' = wanted'
    BY <1>6, <2>2 DEF SyncStarts, SyncEnds, accountVars, OneEditor,
        EditsTheNewest, Busy, Newest
  <2>3. QED
    BY <2>1, <2>2
<1>7. QED
  BY <1>1, <1>2, <1>3, <1>4, <1>5, <1>6 DEF AccountNext

\* The account data's state keeps its type: the client knows no content that
\* did not arrive (Client::account_data reads the store), and none arrives that
\* was not written.
THEOREM AccountTyped == AccountSpec => []AccountTypeOK
<1>1. AccountInv => AccountTypeOK
  BY DEF AccountInv, ContentsTypeOK
<1>2. QED
  BY <1>1, InitAccountInv, StepAccountInv, PTL DEF AccountSpec

\* Edits of account data are lost only where two of them met, or where one began
\* before the client had seen the others in a sync.
THEOREM EditsSurvive == AccountSpec => []NothingLost
<1>1. AccountInv => NothingLost
  BY DEF AccountInv, NothingLost
<1>2. QED
  BY <1>1, InitAccountInv, StepAccountInv, PTL DEF AccountSpec

----------------------------------------------------------------------------
(* Media (MediaCache).                                                     *)

PostedIsUploaded ==
  \A a \in posted : a.source \in 1 .. sources /\ a.thumbnail \in 0 .. sources

DraftIsUploaded ==
  \A t \in MediaTasks :
    /\ draft[t].thumbnail \in 0 .. sources
    /\ job[t] = "send" => draft[t].source \in 1 .. sources

\* A key that is being fetched is not among those that were removed.
FetchIsWanted == \A t \in MediaTasks : job[t] = "fetch" => fetch[t].key \in Keys \ dropped

MediaInv ==
  /\ MediaTypeOK
  /\ PostedIsUploaded /\ DraftIsUploaded /\ FetchIsWanted
  /\ dropped \cap cache = {}

LEMMA InitMediaInv == MediaInit => MediaInv
<1> SUFFICES ASSUME MediaInit  PROVE MediaInv
  OBVIOUS
<1>1. NoDraft \in Attachment /\ NoDraft.thumbnail = 0
  BY DEF NoDraft, Attachment, NoSource
<1>2. NoFetch \in [key : (Sources \cup {NoSource}) \X Formats, store : BOOLEAN]
  BY DEF NoFetch, Formats
<1>3. MediaTypeOK
  BY <1>1, <1>2, SourcesAssumption DEF MediaInit, MediaTypeOK
<1>4. PostedIsUploaded /\ DraftIsUploaded /\ FetchIsWanted /\ dropped \cap cache = {}
  BY <1>1 DEF MediaInit, PostedIsUploaded, DraftIsUploaded, FetchIsWanted
<1>5. QED
  BY <1>3, <1>4 DEF MediaInv

\* The keys of an announced attachment are keys.
LEMMA PostedKeys ==
  ASSUME MediaInv, NEW a \in posted
  PROVE  File(a) \in Keys /\ Thumbnail(a) \in Keys /\ <<a.source, "thumbnail">> \in Keys
<1>1. a.source \in Sources /\ a.thumbnail \in Sources \cup {NoSource}
  BY SourcesAssumption DEF MediaInv, PostedIsUploaded, MediaTypeOK, Sources, NoSource
<1>2. ThumbnailSource(a) \in Sources
  BY <1>1 DEF ThumbnailSource
<1>3. QED
  BY <1>1, <1>2 DEF File, Thumbnail, Keys, Formats

LEMMA GetMediaInv ==
  ASSUME MediaInv, NEW t \in MediaTasks, NEW key \in Keys, NEW useCache \in BOOLEAN,
         Get(t, key, useCache)
  PROVE  MediaInv'
<1> USE DEF MediaInv, MediaTypeOK
<1>1. dropped' = dropped \ {key} /\ cache' = cache /\ sources' = sources
      /\ posted' = posted /\ draft' = draft
  BY DEF Get
<1>2. CASE UNCHANGED <<job, fetch>>
  BY <1>1, <1>2 DEF PostedIsUploaded, DraftIsUploaded, FetchIsWanted
<1>3. CASE Job(t, "fetch") /\ fetch' = [fetch EXCEPT ![t] = [key |-> key, store |-> useCache]]
  <2>1. [key |-> key, store |-> useCache]
          \in [key : (Sources \cup {NoSource}) \X Formats, store : BOOLEAN]
    BY DEF Keys
  <2>2. MediaTypeOK'
    BY <1>1, <1>3, <2>1 DEF Job
  <2>3. PostedIsUploaded' /\ DraftIsUploaded' /\ (dropped \cap cache)' = {}
    BY <1>1, <1>3 DEF Job, PostedIsUploaded, DraftIsUploaded
  <2>4. FetchIsWanted'
    BY <1>1, <1>3 DEF Job, FetchIsWanted
  <2>5. QED
    BY <2>2, <2>3, <2>4
<1>4. QED
  BY <1>2, <1>3 DEF Get

LEMMA RemoveMediaInv ==
  ASSUME MediaInv, NEW keys \in SUBSET Keys, NEW meant \in SUBSET keys, Remove(keys, meant)
  PROVE  MediaInv'
  BY DEF MediaInv, MediaTypeOK, Remove, BeingFetched, PostedIsUploaded, DraftIsUploaded, FetchIsWanted

LEMMA StepMediaInv ==
  ASSUME MediaInv, [MediaNext]_mediaVars
  PROVE  MediaInv'
<1>0. NoDraft \in Attachment /\ NoDraft.thumbnail = 0
      /\ NoFetch \in [key : (Sources \cup {NoSource}) \X Formats, store : BOOLEAN]
  BY DEF NoDraft, Attachment, NoSource, NoFetch, Formats
<1>1. ASSUME NEW t \in MediaTasks, SendAttachment(t)  PROVE MediaInv'
  BY <1>1 DEF SendAttachment, Job, MediaInv, MediaTypeOK, PostedIsUploaded, DraftIsUploaded,
     FetchIsWanted
<1>2. ASSUME NEW t \in MediaTasks, Uploaded(t)  PROVE MediaInv'
  <2> USE DEF MediaInv, MediaTypeOK
  <2>1. sources' = sources + 1 /\ sources' \in Sources /\ sources' \in 0 .. MaxSources
    BY <1>2, SourcesAssumption DEF Uploaded, Sources
  <2>2. draft[t] \in Attachment
    OBVIOUS
  <2>3. PostedIsUploaded' /\ FetchIsWanted'
    BY <1>2, <2>1, SourcesAssumption DEF Uploaded, Job, PostedIsUploaded, FetchIsWanted
  <2>4. CASE job[t] = "thumbnail"
    <3>1. draft' = [draft EXCEPT ![t] = [@ EXCEPT !.thumbnail = sources']] /\ Job(t, "file")
      BY <1>2, <2>4 DEF Uploaded
    <3>2. draft' \in [MediaTasks -> Attachment]
      BY <2>1, <2>2, <3>1 DEF Attachment
    <3>3. DraftIsUploaded'
      BY <2>1, <2>2, <3>1, SourcesAssumption DEF Job, Attachment, DraftIsUploaded
    <3>4. QED
      BY <1>2, <2>1, <2>3, <3>1, <3>2, <3>3 DEF Uploaded, Job
  <2>5. CASE job[t] = "file"
    <3>1. draft' = [draft EXCEPT ![t] = [@ EXCEPT !.source = sources']] /\ Job(t, "send")
      BY <1>2, <2>5 DEF Uploaded
    <3>2. draft' \in [MediaTasks -> Attachment]
      BY <2>1, <2>2, <3>1 DEF Attachment
    <3>3. DraftIsUploaded'
      BY <2>1, <2>2, <3>1, SourcesAssumption DEF Job, Attachment, DraftIsUploaded
    <3>4. QED
      BY <1>2, <2>1, <2>3, <3>1, <3>2, <3>3 DEF Uploaded, Job
  <2>6. QED
    BY <1>2, <2>4, <2>5 DEF Uploaded
<1>3. ASSUME NEW t \in MediaTasks, MessageSent(t) \/ SendingFails(t)  PROVE MediaInv'
  <2> USE DEF MediaInv, MediaTypeOK
  <2>1. /\ draft' = [draft EXCEPT ![t] = NoDraft] /\ job' = [job EXCEPT ![t] = "idle"]
        /\ sources' = sources /\ cache' = cache /\ fetch' = fetch /\ dropped' = dropped
    BY <1>3 DEF MessageSent, SendingFails, Job
  <2>2. posted' = posted \/ (posted' = posted \cup {draft[t]} /\ job[t] = "send")
    BY <1>3 DEF MessageSent, SendingFails
  <2>3. draft' \in [MediaTasks -> Attachment]
    BY <1>0, <2>1
  <2>4. MediaTypeOK'
    BY <2>1, <2>2, <2>3
  <2>5. PostedIsUploaded'
    BY <2>1, <2>2 DEF PostedIsUploaded, DraftIsUploaded
  <2>6. DraftIsUploaded' /\ FetchIsWanted'
    BY <1>0, <2>1, SourcesAssumption DEF DraftIsUploaded, FetchIsWanted
  <2>7. QED
    BY <2>1, <2>4, <2>5, <2>6
<1>4. ASSUME NEW t \in MediaTasks, NEW a \in posted, NEW useCache \in BOOLEAN,
             GetFile(t, a, useCache) \/ GetThumbnail(t, a, useCache)
      PROVE  MediaInv'
  BY <1>4, PostedKeys, GetMediaInv DEF GetFile, GetThumbnail
<1>5. ASSUME NEW t \in MediaTasks, Fetched(t) \/ FetchFails(t)  PROVE MediaInv'
  <2> USE DEF MediaInv, MediaTypeOK
  <2>1. /\ fetch' = [fetch EXCEPT ![t] = NoFetch] /\ job' = [job EXCEPT ![t] = "idle"]
        /\ sources' = sources /\ posted' = posted /\ draft' = draft /\ dropped' = dropped
    BY <1>5 DEF Fetched, FetchFails, Job
  <2>2. fetch[t].key \in Keys \ dropped
    BY <1>5 DEF Fetched, FetchFails, FetchIsWanted
  <2>3. cache' \subseteq Keys /\ dropped \cap cache' = {}
    BY <1>5, <2>2 DEF Fetched, FetchFails
  <2>4. fetch' \in [MediaTasks -> [key : (Sources \cup {NoSource}) \X Formats, store : BOOLEAN]]
    BY <1>0, <2>1
  <2>5. PostedIsUploaded' /\ DraftIsUploaded' /\ FetchIsWanted'
    BY <2>1 DEF PostedIsUploaded, DraftIsUploaded, FetchIsWanted
  <2>6. QED
    BY <2>1, <2>3, <2>4, <2>5
<1>6. ASSUME NEW a \in posted, RemoveFile(a) \/ RemoveThumbnail(a)  PROVE MediaInv'
  <2>1. /\ {File(a)} \in SUBSET Keys
        /\ {<<a.source, "thumbnail">>} \in SUBSET Keys
        /\ {<<a.source, "thumbnail">>} \cap {Thumbnail(a)} \in SUBSET {<<a.source, "thumbnail">>}
    BY PostedKeys
  <2>2. QED
    BY <1>6, <2>1, RemoveMediaInv DEF RemoveFile, RemoveThumbnail
<1>7. ASSUME NEW source \in 1 .. sources, RemoveForUri(source)  PROVE MediaInv'
  <2>1. {source} \X Formats \in SUBSET Keys
    BY SourcesAssumption DEF MediaInv, MediaTypeOK, Keys, Sources
  <2>2. QED
    BY <1>7, <2>1, RemoveMediaInv DEF RemoveForUri
<1>8. CASE UNCHANGED mediaVars
  BY <1>8 DEF mediaVars, MediaInv, MediaTypeOK, PostedIsUploaded, DraftIsUploaded, FetchIsWanted
<1>9. QED
  BY <1>1, <1>2, <1>3, <1>4, <1>5, <1>6, <1>7, <1>8 DEF MediaNext

\* The media's state keeps its type: messages and drafts are attachments, and
\* the cache holds nothing but keys of a source and a format.
THEOREM MediaTyped == MediaSpec => []MediaTypeOK
<1>1. MediaInv => MediaTypeOK
  BY DEF MediaInv
<1>2. QED
  BY <1>1, InitMediaInv, StepMediaInv, PTL DEF MediaSpec

\* What was removed from the cache comes back only through a call that asks for
\* it afterwards, or had asked before.
THEOREM RemovedStaysGone == MediaSpec => []RemovedIsGone
<1>1. MediaInv => RemovedIsGone
  BY DEF MediaInv, PostedIsUploaded, RemovedIsGone
<1>2. QED
  BY <1>1, InitMediaInv, StepMediaInv, PTL DEF MediaSpec

----------------------------------------------------------------------------
(* Routes (ServerRoute).                                                   *)

\* Whatever servers are left out, of the other members one has the highest
\* power level, if there are any.
SomeoneIsMightiest ==
  \A D \in SUBSET Servers :
    LET others == { u \in Members : ServerName[u] \notin D }
    IN  others = {} \/ \E u \in others : \A v \in others : powerLevel[v] <= powerLevel[u]

RouteInv ==
  /\ RouteTypeOK
  /\ IsFiniteSet(Members)
  /\ SomeoneIsMightiest
  /\ linked => via \in Route

LEMMA PowersAreNaturals ==
  ASSUME RouteTypeOK
  PROVE  \A u \in Members : u \in RoomUsers /\ powerLevel[u] \in Nat /\ ServerName[u] \in Servers
  BY RouteAssumption DEF RouteTypeOK

LEMMA IntervalSize == \A n \in Nat : IsFiniteSet(1 .. n) /\ Cardinality(1 .. n) = n
<1> SUFFICES ASSUME NEW n \in Nat  PROVE IsFiniteSet(1 .. n) /\ Cardinality(1 .. n) = n
  OBVIOUS
<1>1. IsFiniteSet(1 .. n) /\ Cardinality(1 .. n) = IF 1 > n THEN 0 ELSE n - 1 + 1
  BY FS_Interval
<1>2. QED
  BY <1>1

\* An injective numbering of a set by its size leaves nothing out.
LEMMA RankedIsAll ==
  ASSUME NEW S, IsFiniteSet(S), NEW p \in [1 .. Cardinality(S) -> S],
         \A i, j \in DOMAIN p : i < j => p[i] # p[j]
  PROVE  /\ Cardinality(S) \in Nat
         /\ \A s \in S : \E i \in 1 .. Cardinality(S) : p[i] = s
<1>1. Cardinality(S) \in Nat
  BY FS_CardinalityType
<1>2. p \in Injection(1 .. Cardinality(S), S)
  BY <1>1 DEF Injection, IsInjective
<1>3. Cardinality(1 .. Cardinality(S)) = Cardinality(S)
  BY <1>1, IntervalSize
<1>4. p \in Surjection(1 .. Cardinality(S), S)
  BY <1>2, <1>3, FS_Injection
<1>5. QED
  BY <1>1, <1>4 DEF Surjection

\* A sequence without repetitions has as many elements as places.
LEMMA DistinctCardinality ==
  ASSUME NEW S, NEW q \in Seq(S), \A i, j \in 1 .. Len(q) : i < j => q[i] # q[j]
  PROVE  Cardinality({ q[i] : i \in DOMAIN q }) = Len(q)
<1> DEFINE T == { q[i] : i \in DOMAIN q }
<1>1. DOMAIN q = 1 .. Len(q) /\ Len(q) \in Nat /\ q \in [1 .. Len(q) -> T]
      /\ \A t \in T : \E i \in 1 .. Len(q) : q[i] = t
  OBVIOUS
<1> HIDE DEF T
<1>2. q \in Bijection(1 .. Len(q), T)
  BY <1>1 DEF Bijection, Injection, Surjection, IsInjective
<1>3. IsFiniteSet(1 .. Len(q)) /\ Cardinality(1 .. Len(q)) = Len(q)
  BY <1>1, IntervalSize
<1>4. QED
  BY <1>2, <1>3, FS_Bijection DEF ExistsBijection, T

Home == { ServerName[u] : u \in Eligible }

LEMMA HomeIsFinite ==
  ASSUME RouteTypeOK, IsFiniteSet(Members)
  PROVE  IsFiniteSet(Home) /\ IsFiniteSet(Eligible) /\ Home \subseteq Servers
<1>1. IsFiniteSet(Eligible)
  BY FS_Subset DEF Eligible
<1>2. [u \in Eligible |-> ServerName[u]] \in Surjection(Eligible, Home)
  BY DEF Surjection, Home
<1>3. QED
  BY <1>1, <1>2, FS_Surjection, PowersAreNaturals DEF Eligible, Home

\* What a route is taken from: the servers without repetition, none left out,
\* in the order of their population but perhaps for the first.
Ranks(q, first) ==
  /\ q \in Seq(Home)
  /\ \A i, j \in 1 .. Len(q) : i < j => q[i] # q[j]
  /\ \A s \in Home : \E i \in 1 .. Len(q) : q[i] = s
  /\ \A i, j \in first .. Len(q) : i < j => Population(q[i]) >= Population(q[j])

LEMMA RankedRanks ==
  ASSUME RouteTypeOK, IsFiniteSet(Members), NEW p \in Ranked({})
  PROVE  Ranks(p, 1)
<1>1. IsFiniteSet(Home)
  BY HomeIsFinite
<1>2. /\ p \in [1 .. Cardinality(Home) -> Home]
      /\ \A i, j \in DOMAIN p : i < j => p[i] # p[j] /\ Population(p[i]) >= Population(p[j])
  BY DEF Ranked, Home
<1>3. /\ Cardinality(Home) \in Nat
      /\ \A s \in Home : \E i \in 1 .. Cardinality(Home) : p[i] = s
  BY <1>1, <1>2, RankedIsAll
<1>4. p \in Seq(Home) /\ Len(p) = Cardinality(Home) /\ DOMAIN p = 1 .. Len(p)
  BY <1>2, <1>3
<1>5. QED
  BY <1>2, <1>3, <1>4 DEF Ranks

LEMMA RuledRanks ==
  ASSUME RouteTypeOK, IsFiniteSet(Members), NEW h \in Home, NEW p \in Ranked({h}),
         NEW q, q = <<h>> \o p
  PROVE  Ranks(q, 2) /\ q[1] = h /\ Len(q) >= 1
<1> DEFINE S == Home \ {h}
<1>1. IsFiniteSet(S) /\ h \notin S /\ S \subseteq Home /\ \A s \in Home : s = h \/ s \in S
  BY HomeIsFinite, FS_Subset
<1>2. /\ p \in [1 .. Cardinality(S) -> S]
      /\ \A i, j \in DOMAIN p : i < j => p[i] # p[j] /\ Population(p[i]) >= Population(p[j])
  BY DEF Ranked, Home
<1> HIDE DEF S
<1>3. /\ Cardinality(S) \in Nat
      /\ \A s \in S : \E i \in 1 .. Cardinality(S) : p[i] = s
  <2>1. IsFiniteSet(S) /\ p \in [1 .. Cardinality(S) -> S]
        /\ \A i, j \in DOMAIN p : i < j => p[i] # p[j]
    BY <1>1, <1>2
  <2>2. QED
    BY <2>1, RankedIsAll
<1>4. p \in Seq(Home) /\ Len(p) = Cardinality(S) /\ DOMAIN p = 1 .. Len(p)
  BY <1>1, <1>2, <1>3
<1>5. /\ q \in Seq(Home) /\ Len(q) = Len(p) + 1 /\ q[1] = h
      /\ \A i \in 2 .. Len(q) : q[i] = p[i - 1]
  BY <1>4
<1>6. \A i \in 2 .. Len(q) : q[i] \in S /\ i - 1 \in DOMAIN p
  <2> SUFFICES ASSUME NEW i \in 2 .. Len(q)  PROVE q[i] \in S /\ i - 1 \in DOMAIN p
    OBVIOUS
  <2>1. i - 1 \in 1 .. Len(p) /\ q[i] = p[i - 1]
    BY <1>4, <1>5
  <2>2. QED
    BY <1>2, <1>4, <2>1
<1>7. \A i, j \in 1 .. Len(q) : i < j => q[i] # q[j]
  <2> SUFFICES ASSUME NEW i \in 1 .. Len(q), NEW j \in 1 .. Len(q), i < j  PROVE q[i] # q[j]
    OBVIOUS
  <2>1. j \in 2 .. Len(q) /\ (i = 1 \/ i \in 2 .. Len(q))
    BY <1>4, <1>5
  <2>2. CASE i = 1
    BY <1>1, <1>5, <1>6, <2>1, <2>2
  <2>3. CASE i \in 2 .. Len(q)
    <3>1. i - 1 \in DOMAIN p /\ j - 1 \in DOMAIN p /\ i - 1 < j - 1
      BY <1>6, <2>1, <2>3
    <3>2. QED
      BY <1>2, <1>5, <2>1, <2>3, <3>1
  <2>4. QED
    BY <2>1, <2>2, <2>3
<1>8. \A s \in Home : \E i \in 1 .. Len(q) : q[i] = s
  <2> SUFFICES ASSUME NEW s \in Home  PROVE \E i \in 1 .. Len(q) : q[i] = s
    OBVIOUS
  <2>1. CASE s = h
    BY <2>1, <1>4, <1>5
  <2>2. CASE s # h
    <3>1. PICK i \in 1 .. Len(p) : p[i] = s
      BY <2>2, <1>1, <1>3, <1>4
    <3>2. i + 1 \in 2 .. Len(q) /\ q[i + 1] = s
      BY <3>1, <1>4, <1>5
    <3>3. QED
      BY <3>2
  <2>3. QED
    BY <2>1, <2>2
<1>9. \A i, j \in 2 .. Len(q) : i < j => Population(q[i]) >= Population(q[j])
  <2> SUFFICES ASSUME NEW i \in 2 .. Len(q), NEW j \in 2 .. Len(q), i < j
               PROVE  Population(q[i]) >= Population(q[j])
    OBVIOUS
  <2>1. i - 1 \in DOMAIN p /\ j - 1 \in DOMAIN p /\ i - 1 < j - 1
    BY <1>6
  <2>2. QED
    BY <1>2, <1>5, <2>1
<1>10. QED
  BY <1>4, <1>5, <1>7, <1>8, <1>9 DEF Ranks

\* The first three, or all there are.
LEMMA TakeTakes ==
  ASSUME NEW S, NEW q \in Seq(S)
  PROVE  /\ Take(q) \in Seq(S)
         /\ Len(Take(q)) \in 0 .. 3 /\ Len(Take(q)) <= Len(q)
         /\ Len(Take(q)) < 3 => Len(Take(q)) = Len(q)
         /\ Len(q) >= 1 => Len(Take(q)) >= 1
         /\ DOMAIN Take(q) = 1 .. Len(Take(q))
         /\ \A i \in 1 .. Len(Take(q)) : i \in 1 .. Len(q) /\ Take(q)[i] = q[i]
<1> DEFINE n == IF Len(q) < MaxServers THEN Len(q) ELSE MaxServers
<1>1. Len(q) \in Nat
  OBVIOUS
<1>2. n \in Nat /\ n <= 3 /\ n <= Len(q) /\ (n < 3 => n = Len(q)) /\ Take(q) = SubSeq(q, 1, n)
  BY <1>1 DEF Take, MaxServers
<1> HIDE DEF n
<1>3. SubSeq(q, 1, n) \in Seq(S) /\ Len(SubSeq(q, 1, n)) = n
      /\ \A i \in 1 .. n : SubSeq(q, 1, n)[i] = q[i]
  BY <1>1, <1>2
<1>4. QED
  BY <1>1, <1>2, <1>3

Named(t) == { t[i] : i \in DOMAIN t }

Leads(t, q, first) ==
  /\ t \in Seq(Home) /\ Cardinality(Named(t)) = Len(t) /\ Named(t) \subseteq Home
  /\ Len(t) = 3 \/ (Len(t) < 3 /\ Named(t) = Home)
  /\ \A i \in DOMAIN t : t[i] = q[i]
  /\ Len(q) >= 1 => 1 \in DOMAIN t
  /\ \A i \in DOMAIN t : \A s \in Home \ Named(t) :
       i >= first => Population(s) <= Population(t[i])

LEMMA TakeRanks ==
  ASSUME RouteTypeOK, IsFiniteSet(Members), NEW first \in {1, 2}, NEW q, Ranks(q, first)
  PROVE  Leads(Take(q), q, first)
<1> SUFFICES ASSUME NEW t, t = Take(q), NEW named, named = Named(t)
             PROVE  /\ t \in Seq(Home) /\ Cardinality(named) = Len(t) /\ named \subseteq Home
                    /\ Len(t) = 3 \/ (Len(t) < 3 /\ named = Home)
                    /\ \A i \in DOMAIN t : t[i] = q[i]
                    /\ Len(q) >= 1 => 1 \in DOMAIN t
                    /\ \A i \in DOMAIN t : \A s \in Home \ named :
                         i >= first => Population(s) <= Population(t[i])
  BY DEF Leads
<1>0. named = { t[i] : i \in DOMAIN t }
  BY DEF Named
<1>1. q \in Seq(Home)
  BY DEF Ranks
<1>2. \A i, j \in 1 .. Len(q) : i < j => q[i] # q[j]
  BY DEF Ranks
<1>3. \A s \in Home : \E i \in 1 .. Len(q) : q[i] = s
  BY DEF Ranks
<1>4. /\ t \in Seq(Home) /\ Len(t) \in 0 .. 3 /\ Len(t) <= Len(q)
      /\ Len(t) < 3 => Len(t) = Len(q)
      /\ Len(q) >= 1 => Len(t) >= 1
      /\ DOMAIN t = 1 .. Len(t)
      /\ \A i \in 1 .. Len(t) : i \in 1 .. Len(q) /\ t[i] = q[i]
  BY <1>1, TakeTakes
<1>5. Cardinality(named) = Len(t)
  <2>1. \A i, j \in 1 .. Len(t) : i < j => t[i] # t[j]
    BY <1>2, <1>4
  <2>2. QED
    BY <1>0, <1>4, <2>1, DistinctCardinality
<1>6. named \subseteq Home
  BY <1>0, <1>4
<1>7. Len(t) < 3 => Home \subseteq named
  BY <1>0, <1>3, <1>4
<1>8. ASSUME NEW i \in DOMAIN t, NEW s \in Home \ named, i >= first
      PROVE  Population(s) <= Population(t[i])
  <2>1. PICK j \in 1 .. Len(q) : q[j] = s
    BY <1>3
  <2>2. j \notin 1 .. Len(t)
    BY <1>0, <1>4, <2>1
  <2>3. Len(q) \in Nat /\ Len(t) \in Nat /\ i \in 1 .. Len(t)
    BY <1>1, <1>4
  <2>4. i < j /\ i \in first .. Len(q) /\ j \in first .. Len(q)
    BY <1>4, <1>8, <2>2, <2>3
  <2>5. Population(q[i]) >= Population(q[j])
    BY <2>4 DEF Ranks
  <2>6. \A x : Population(x) \in Nat
    BY HomeIsFinite, FS_Subset, FS_CardinalityType DEF Population
  <2>7. QED
    BY <1>4, <2>1, <2>3, <2>5, <2>6
<1>9. Len(q) >= 1 => 1 \in DOMAIN t
  BY <1>4
<1>10. Len(t) = 3 \/ (Len(t) < 3 /\ named = Home)
  <2>1. Len(t) = 3 \/ Len(t) < 3
    BY <1>4
  <2>2. QED
    BY <1>6, <1>7, <2>1
<1>11. QED
  BY <1>4, <1>5, <1>6, <1>8, <1>9, <1>10

\* All who may be on a route: those of eligible members.
LEMMA RouteIsTyped ==
  ASSUME RouteTypeOK, IsFiniteSet(Members)
  PROVE  Route \subseteq Seq(Servers)
<1> SUFFICES ASSUME NEW t \in Route  PROVE t \in Seq(Home)
  BY HomeIsFinite
<1>1. CASE Mightiest = {}
  <2>1. PICK p \in Ranked({}) : t = Take(p)
    BY <1>1 DEF Route
  <2>2. QED
    BY <2>1, RankedRanks, TakeRanks DEF Leads
<1>2. CASE Mightiest # {}
  <2>1. PICK u \in Mightiest : \E p \in Ranked({ServerName[u]}) : t = Take(<<ServerName[u]>> \o p)
    BY <1>2 DEF Route
  <2>2. PICK p \in Ranked({ServerName[u]}) : t = Take(<<ServerName[u]>> \o p)
    BY <2>1
  <2>3. ServerName[u] \in Home
    BY DEF Mightiest, Home
  <2>4. QED
    BY <2>2, <2>3, RuledRanks, TakeRanks DEF Leads
<1>3. QED
  BY <1>1, <1>2

\* If some eligible member has power, one of them has the most.
LEMMA RuledIsMighty ==
  ASSUME RouteInv, NEW u \in Eligible, powerLevel[u] >= 50
  PROVE  Mightiest # {}
<1>1. denied \cup IpServers \in SUBSET Servers
  BY RouteAssumption DEF RouteInv, RouteTypeOK
<1>2. PICK m \in Eligible : \A v \in Eligible : powerLevel[v] <= powerLevel[m]
  BY <1>1 DEF RouteInv, SomeoneIsMightiest, Eligible
<1>3. powerLevel[m] >= 50
  BY <1>2, PowersAreNaturals DEF RouteInv, Eligible
<1>4. QED
  BY <1>2, <1>3 DEF Mightiest

\* Every route of the room as it is serves.
LEMMA RouteInvServes == RouteInv => RouteServes
<1> SUFFICES ASSUME RouteInv, linked  PROVE RouteServes
  BY DEF RouteServes
<1> DEFINE home == { ServerName[u] : u \in Members } \ (denied \cup IpServers)
           of(s) == { u \in Members : ServerName[u] = s }
           powers == { powerLevel[u] : u \in UNION { of(s) : s \in home } }
           ruled == \E p \in powers : p >= 50
           right == /\ Cardinality(Named(via)) = Len(via) /\ Named(via) \subseteq home
                    /\ Len(via) = 3 \/ (Len(via) < 3 /\ Named(via) = home)
                    /\ ruled => \E u \in of(via[1]) : \A p \in powers : p <= powerLevel[u]
                    /\ \A i \in DOMAIN via : \A s \in home \ Named(via) :
                         (i = 1 /\ ruled) \/ Cardinality(of(s)) <= Cardinality(of(via[i]))
<1>0. RouteTypeOK /\ IsFiniteSet(Members) /\ via \in Route
  BY DEF RouteInv
<1>1. home = Home
  BY DEF Home, Eligible
<1>2. UNION { of(s) : s \in home } = Eligible
  BY DEF Eligible
<1>3. powers = { powerLevel[u] : u \in Eligible }
  BY <1>2
<1>4. \A s \in Home : of(s) = { u \in Eligible : ServerName[u] = s }
  BY DEF Home, Eligible
<1>5. \A s \in Home : Population(s) = Cardinality(of(s))
  BY <1>4 DEF Population
<1> HIDE DEF home, of, powers
<1>6. right
  <2>1. CASE Mightiest = {}
    <3>1. PICK p \in Ranked({}) : via = Take(p)
      BY <1>0, <2>1 DEF Route
    <3>2. ~ruled
      BY <1>3, <2>1, RuledIsMighty
    <3>3. Leads(via, p, 1)
      BY <1>0, <3>1, RankedRanks, TakeRanks
    <3>4. \A i \in DOMAIN via : i >= 1 /\ via[i] \in Home
      BY <3>3 DEF Leads
    <3>5. QED
      BY <1>1, <1>5, <3>2, <3>3, <3>4 DEF Leads
  <2>2. CASE Mightiest # {}
    <3>1. PICK u \in Mightiest : \E p \in Ranked({ServerName[u]}) : via = Take(<<ServerName[u]>> \o p)
      BY <1>0, <2>2 DEF Route
    <3>2. PICK p \in Ranked({ServerName[u]}) : via = Take(<<ServerName[u]>> \o p)
      BY <3>1
    <3>3. ServerName[u] \in Home /\ u \in of(ServerName[u])
      BY <1>4 DEF Mightiest, Home
    <3> DEFINE q == <<ServerName[u]>> \o p
    <3>4. Ranks(q, 2) /\ q[1] = ServerName[u] /\ Len(q) >= 1
      BY <1>0, <3>3, RuledRanks
    <3> HIDE DEF q
    <3>5. Leads(via, q, 2)
      BY <1>0, <3>2, <3>4, TakeRanks DEF q
    <3>6. u \in of(via[1]) /\ \A l \in powers : l <= powerLevel[u]
      BY <1>3, <3>3, <3>4, <3>5 DEF Mightiest, Leads
    <3>7. ruled
      BY <1>3 DEF Mightiest
    <3>8. \A i \in DOMAIN via : (i = 1 \/ i >= 2) /\ via[i] \in Home
      BY <3>5 DEF Leads
    <3>9. \A i \in DOMAIN via : \A s \in home \ Named(via) :
            (i = 1 /\ ruled) \/ Cardinality(of(s)) <= Cardinality(of(via[i]))
      BY <1>1, <1>5, <3>5, <3>7, <3>8 DEF Leads
    <3>10. QED
      BY <1>1, <3>5, <3>6, <3>9 DEF Leads
  <2>3. QED
    BY <2>1, <2>2
<1>7. QED
  BY <1>6 DEF RouteServes, Named, home, of, powers

LEMMA InitRouteInv == RouteInit => RouteInv
<1> SUFFICES ASSUME RouteInit  PROVE RouteInv
  OBVIOUS
<1>1. Members = {} /\ via \in Seq(Servers)
  BY DEF RouteInit, Members
<1>2. QED
  BY <1>1, FS_EmptySet DEF RouteInit, RouteInv, RouteTypeOK, SomeoneIsMightiest

LEMMA StepRouteInv ==
  ASSUME RouteInv, [RouteNext]_routeVars
  PROVE  RouteInv'
<1> USE DEF RouteInv
<1>1. CASE UNCHANGED <<powerLevel, denied>>
  <2>1. Members' = Members /\ Route' = Route /\ SomeoneIsMightiest'
    <3>1. Members' = Members
      BY <1>1 DEF Members
    <3>2. Eligible' = Eligible
      BY <1>1, <3>1 DEF Eligible
    <3>3. Mightiest' = Mightiest
      BY <1>1, <3>2 DEF Mightiest
    <3>4. \A x : Population(x)' = Population(x)
      BY <3>2 DEF Population
    <3>5. Ranked({})' = Ranked({}) /\ \A u : Ranked({ServerName[u]})' = Ranked({ServerName[u]})
      BY <3>2, <3>4 DEF Ranked
    <3>6. Route' = Route
      <4> DEFINE led(u) == { Take(<<ServerName[u]>> \o rest) : rest \in Ranked({ServerName[u]}) }
      <4>1. \A u : led(u)' = led(u)
        BY <3>5
      <4>2. { led(u) : u \in Mightiest }' = { led(u) : u \in Mightiest }
        <5> HIDE DEF led
        <5>1. QED
          BY <3>3, <4>1
      <4>3. { Take(rest) : rest \in Ranked({}) }' = { Take(rest) : rest \in Ranked({}) }
        BY <3>5
      <4>4. QED
        BY <3>3, <4>2, <4>3 DEF Route
    <3>7. SomeoneIsMightiest'
      BY <1>1, <3>1 DEF SomeoneIsMightiest
    <3>8. QED
      BY <3>1, <3>6, <3>7
  <2>2. linked' => via' \in Route
    BY <1>1 DEF RouteNext, Permalink, RoomChanges, routeVars
  <2>3. via' \in Seq(Servers) /\ linked' \in BOOLEAN
    <3>1. via' = via \/ via' = <<>> \/ via' \in Route
      BY DEF RouteNext, Permalink, RoomChanges, routeVars
    <3>2. via' \in Seq(Servers)
      <4>1. <<>> \in Seq(Servers) /\ via \in Seq(Servers)
        BY DEF RouteTypeOK
      <4>2. Route \subseteq Seq(Servers)
        BY RouteIsTyped
      <4>3. QED
        BY <3>1, <4>1, <4>2
    <3>3. linked' \in BOOLEAN
      BY DEF RouteTypeOK, RouteNext, Permalink, RoomChanges, routeVars
    <3>4. QED
      BY <3>2, <3>3
  <2>4. QED
    BY <1>1, <2>1, <2>2, <2>3 DEF RouteTypeOK
<1>2. ASSUME NEW u \in RoomUsers \ Members, NEW l \in Powers[u],
             powerLevel' = [v \in Members \cup {u} |-> IF v = u THEN l ELSE powerLevel[v]],
             denied' = denied, linked' = FALSE, via' = <<>>
      PROVE  RouteInv'
  <2>1. Members' = Members \cup {u} /\ l \in Nat
    BY <1>2, RouteAssumption DEF Members
  <2>2. RouteTypeOK'
    <3>1. via' \in Seq(Servers)
      BY <1>2
    <3>2. \A v \in Members' : v \in RoomUsers /\ powerLevel'[v] \in Powers[v]
      BY <1>2, <2>1 DEF RouteTypeOK
    <3>3. QED
      BY <1>2, <3>1, <3>2 DEF RouteTypeOK
  <2>3. IsFiniteSet(Members')
    BY <2>1, FS_AddElement
  <2>4. SomeoneIsMightiest'
    <3> SUFFICES ASSUME NEW D \in SUBSET Servers,
                        NEW others, others = { v \in Members' : ServerName[v] \notin D }
                 PROVE  others = {} \/ \E m \in others : \A v \in others : powerLevel'[v] <= powerLevel'[m]
      BY DEF SomeoneIsMightiest
    <3> DEFINE before == { v \in Members : ServerName[v] \notin D }
    <3>1. \A v \in before : powerLevel'[v] = powerLevel[v] /\ powerLevel[v] \in Nat
      BY <1>2, <2>1, PowersAreNaturals
    <3>2. powerLevel'[u] = l
      BY <1>2
    <3>3. before = {} \/ \E m \in before : \A v \in before : powerLevel[v] <= powerLevel[m]
      BY DEF SomeoneIsMightiest
    <3>4. others = before \/ others = before \cup {u}
      BY <2>1
    <3>5. QED
      BY <2>1, <3>1, <3>2, <3>3, <3>4
  <2>5. QED
    BY <1>2, <2>2, <2>3, <2>4
<1>3. ASSUME NEW s \in Servers, denied' = {s}, powerLevel' = powerLevel, linked' = FALSE, via' = <<>>
      PROVE  RouteInv'
  <2>1. Members' = Members
    BY <1>3 DEF Members
  <2>2. via' \in Seq(Servers)
    BY <1>3
  <2>3. SomeoneIsMightiest'
    BY <1>3, <2>1 DEF SomeoneIsMightiest
  <2>4. RouteTypeOK'
    BY <1>3, <2>1, <2>2 DEF RouteTypeOK
  <2>5. QED
    BY <1>3, <2>1, <2>3, <2>4
<1>4. QED
  BY <1>1, <1>2, <1>3 DEF RouteNext, Permalink, RoomChanges, routeVars

\* The room's members and its link keep their types, for every set of users
\* and servers: a route is a sequence of servers.
THEOREM RouteTyped == RouteSpec => []RouteTypeOK
<1>1. RouteInv => RouteTypeOK
  BY DEF RouteInv
<1>2. QED
  BY <1>1, InitRouteInv, StepRouteInv, PTL DEF RouteSpec

\* A route names up to three servers, the mightiest member's first and then
\* the most populated, none twice and none that the room does not allow,
\* however many members and servers there are.
THEOREM RoutesServe == RouteSpec => []RouteServes
<1>1. QED
  BY RouteInvServes, InitRouteInv, StepRouteInv, PTL DEF RouteSpec

----------------------------------------------------------------------------
(* The pace of syncs (SyncPacing), for every number of ticks in a second.  *)

\* The last delay began after the last sync but, while a sync runs, before it;
\* and who is ready has seen a second go by since the sync before the last.
PaceInv ==
  /\ pace = "syncing" => lastSync <= starts[2]
  /\ pace # "syncing" => lastSync <= starts[1]
  /\ pace = "pausing" => starts[2] + pause >= SyncTicks
  /\ pace = "ready" => starts[2] >= SyncTicks

PacingInv == PacingTypeOK /\ PaceInv /\ SyncsArePaced

LEMMA InitPacingInv == PacingInit => PacingInv
BY SyncTicksAssumption DEF PacingInit, PacingInv, PacingTypeOK, PaceInv, SyncsArePaced, Old

LEMMA OlderFacts ==
  \A i \in 0 .. Old :
    /\ Older(i) \in 0 .. Old /\ Older(i) # 0
    /\ Older(i) \in {i, i + 1}
    /\ i # Old => Older(i) = i + 1
BY SyncTicksAssumption DEF Older, Old

LEMMA StepPacingInv == PacingInv /\ [PacingNext]_pacingVars => PacingInv'
<1> SUFFICES ASSUME PacingInv, [PacingNext]_pacingVars PROVE PacingInv'
  OBVIOUS
<1> USE SyncTicksAssumption DEF PacingInv, PacingTypeOK, PaceInv, SyncsArePaced, Old
<1>1. CASE StartSync
  BY <1>1 DEF StartSync
<1>2. CASE DelaySync
  BY <1>2 DEF DelaySync
<1>3. CASE PauseEnds
  BY <1>3 DEF PauseEnds
<1>4. CASE Tick
  <2>1. /\ lastSync' = Older(lastSync) /\ pace' = pace
        /\ starts' \in [1 .. 3 -> 0 .. Old]
        /\ \A i \in 1 .. 3 : starts'[i] = Older(starts[i])
    BY <1>4, OlderFacts DEF Tick
  <2>2. pause' \in 0 .. SyncTicks /\ (pause' = pause - 1 \/ (pause = 0 /\ pause' = 0))
    BY <1>4 DEF Tick
  <2>3. PaceInv'
    BY <2>1, <2>2, OlderFacts
  <2>4. QED
    BY <2>1, <2>2, <2>3, OlderFacts
<1>5. CASE UNCHANGED pacingVars
  BY <1>5 DEF pacingVars
<1>6. QED
  BY <1>1, <1>2, <1>3, <1>4, <1>5 DEF PacingNext

\* However fast the server answers, of three syncs of a loop the last starts at
\* least a second after the first (delay_sync of matrix/sync.rs).
THEOREM ThreeTakeASecond == PacingSpec => []SyncsArePaced
<1>1. PacingInv => SyncsArePaced
  BY DEF PacingInv
<1>2. QED
  BY <1>1, InitPacingInv, StepPacingInv, PTL DEF PacingSpec

----------------------------------------------------------------------------
(* Sleeps (TaskSleep), for every number of ticks in a second.              *)

Checking == sleeper \in {"read", "subtract"}

\* The slices that were slept to their end are time that has passed; only the
\* last one may be shorter than a second, and then it ends the sleep.
SliceInv ==
  ~interrupted =>
    /\ sleeper = "while" => slices * SleepTicks <= elapsed \/ elapsed >= delay
    /\ Checking => slices * SleepTicks <= elapsed /\ slices * SleepTicks < delay
    /\ sleeper = "sleeping" =>
         slices * SleepTicks <= elapsed + slice \/ elapsed + slice >= delay
    /\ slices = 0 \/ (slices - 1) * SleepTicks < delay

\* The slice begun after CANCELED was set is the one that had been decided on.
CancelInv ==
  allowCancel =>
    /\ inVain <= 1
    /\ inVain = 1 => CANCELED
    /\ sleeper = "subtract" => inVain = 0

EndInv ==
  /\ sleeper = "slept" => elapsed >= delay
  /\ sleeper = "panicked" => elapsed > delay

SleepInv == SleepTypeOK /\ SliceInv /\ CancelInv /\ EndInv

LEMMA InitSleepInv == SleepInit => SleepInv
<1> SUFFICES ASSUME SleepInit PROVE SleepInv
  OBVIOUS
<1>1. SleepTypeOK
  <2>1. allowCancel \in BOOLEAN /\ CANCELED \in BOOLEAN /\ interrupted \in BOOLEAN
    BY DEF SleepInit
  <2>2. /\ delay \in 0 .. MaxSleep /\ elapsed \in 0 .. MaxSleep + MaxLate
        /\ slice \in 0 .. SleepTicks /\ slices \in Nat /\ inVain \in 0 .. slices
    BY SleepAssumption DEF SleepInit
  <2>3. sleeper = "awake"
    BY DEF SleepInit
  <2>4. QED
    BY <2>1, <2>2, <2>3, Zenon DEF SleepTypeOK
<1>2. SliceInv /\ CancelInv /\ EndInv
  BY DEF SleepInit, SliceInv, CancelInv, EndInv, Checking
<1>3. QED
  BY <1>1, <1>2 DEF SleepInv

LEMMA TaskSleepPreserves ==
  ASSUME SleepInv, NEW d \in 0 .. MaxSleep, NEW allow \in BOOLEAN, TaskSleep(d, allow)
  PROVE  SleepInv'
<1> USE SleepAssumption DEF TaskSleep
<1>1. SleepTypeOK'
  <2>1. /\ sleeper' = "while" /\ delay' \in 0 .. MaxSleep /\ elapsed' \in 0 .. MaxSleep + MaxLate
        /\ slice' \in 0 .. SleepTicks /\ slices' \in Nat /\ inVain' \in 0 .. slices'
    BY DEF SleepInv, SleepTypeOK
  <2>2. allowCancel' \in BOOLEAN /\ CANCELED' \in BOOLEAN /\ interrupted' \in BOOLEAN
    BY Zenon DEF SleepInv, SleepTypeOK
  <2>3. QED
    BY <2>1, <2>2, Zenon DEF SleepTypeOK
<1>2. SliceInv'
  BY DEF SliceInv, Checking
<1>3. CancelInv' /\ EndInv'
  BY DEF CancelInv, EndInv
<1>4. QED
  BY <1>1, <1>2, <1>3 DEF SleepInv

LEMMA SubtractPreserves ==
  ASSUME SleepInv, Subtract
  PROVE  SleepInv'
<1> USE SleepAssumption
<1>1. /\ delay \in Nat /\ elapsed \in Nat /\ slices \in Nat /\ SleepTicks \in Nat
      /\ UNCHANGED <<delay, allowCancel, elapsed, CANCELED, interrupted>>
  BY DEF Subtract, SleepInv, SleepTypeOK
<1>2. CASE elapsed > delay
  <2>1. sleeper' = "panicked" /\ UNCHANGED <<slice, slices, inVain>>
    BY <1>2 DEF Subtract
  <2>2. SleepTypeOK' /\ CancelInv' /\ EndInv'
    BY <1>1, <1>2, <2>1 DEF SleepInv, SleepTypeOK, CancelInv, EndInv
  <2>3. SliceInv'
    BY <1>1, <2>1 DEF SleepInv, SliceInv, Checking
  <2>4. QED
    BY <2>2, <2>3 DEF SleepInv
<1>3. CASE ~(elapsed > delay)
  <2>1. /\ sleeper = "subtract" /\ sleeper' = "sleeping" /\ slices' = slices + 1
        /\ slice' = IF delay - elapsed < SleepTicks THEN delay - elapsed ELSE SleepTicks
        /\ inVain' = IF CANCELED THEN inVain + 1 ELSE inVain
    BY <1>3 DEF Subtract
  <2>2. slice' \in 0 .. SleepTicks /\ slices' \in Nat /\ inVain' \in 0 .. slices'
    BY <1>1, <1>3, <2>1 DEF SleepInv, SleepTypeOK
  <2>3. SleepTypeOK'
    BY <1>1, <2>1, <2>2 DEF SleepInv, SleepTypeOK
  <2>4. SliceInv'
    <3>1. slices' * SleepTicks = slices * SleepTicks + SleepTicks
      BY <1>1, <2>1
    <3>2. slices' - 1 = slices
      BY <1>1, <2>1
    <3>3. ~interrupted => slices * SleepTicks <= elapsed /\ slices * SleepTicks < delay
      BY <2>1 DEF SleepInv, SliceInv, Checking
    <3>4. slices * SleepTicks \in Nat
      BY <1>1
    <3>5. slice' = SleepTicks \/ elapsed + slice' = delay
      BY <1>1, <2>1
    <3>6. QED
      BY <1>1, <2>1, <3>1, <3>2, <3>3, <3>4, <3>5 DEF SliceInv, Checking
  <2>5. CancelInv' /\ EndInv'
    BY <1>1, <2>1 DEF SleepInv, CancelInv, EndInv
  <2>6. QED
    BY <2>3, <2>4, <2>5 DEF SleepInv
<1>4. QED
  BY <1>2, <1>3

LEMMA ClockTicksPreserves ==
  ASSUME SleepInv, ClockTicks
  PROVE  SleepInv'
<1> USE SleepAssumption
<1>1. /\ sleeper \in {"while", "read", "subtract", "sleeping"} /\ elapsed < delay + MaxLate
      /\ elapsed' = elapsed + 1
      /\ slice' = IF slice = 0 THEN 0 ELSE slice - 1
      /\ UNCHANGED <<sleeper, delay, allowCancel, CANCELED, slices, inVain, interrupted>>
  BY DEF ClockTicks
<1>2. /\ delay \in 0 .. MaxSleep /\ elapsed \in Nat /\ slices \in Nat /\ slice \in 0 .. SleepTicks
      /\ slices * SleepTicks \in Nat
  BY DEF SleepInv, SleepTypeOK
<1>3. elapsed' \in 0 .. MaxSleep + MaxLate /\ slice' \in 0 .. SleepTicks
  BY <1>1, <1>2
<1>4. SleepTypeOK'
  BY <1>1, <1>3 DEF SleepInv, SleepTypeOK
<1>5. slice' + elapsed' >= slice + elapsed
  BY <1>1, <1>2
<1>6. SliceInv'
  BY <1>1, <1>2, <1>3, <1>5 DEF SleepInv, SliceInv, Checking
<1>7. CancelInv' /\ EndInv'
  BY <1>1 DEF SleepInv, CancelInv, EndInv
<1>8. QED
  BY <1>4, <1>6, <1>7 DEF SleepInv

\* The steps that leave the time and the slices alone.
LEMMA OtherSleepSteps ==
  ASSUME SleepInv,
         \/ CheckElapsed \/ ReadCanceled \/ SliceEnds \/ CtrlC \/ Cancel \/ WakeUp
         \/ UNCHANGED sleepVars
  PROVE  SleepInv'
<1> USE SleepAssumption
<1>1. CASE CheckElapsed
  <2>1. slices * SleepTicks \in Nat /\ delay \in Nat /\ elapsed \in Nat
    BY DEF SleepInv, SleepTypeOK
  <2>2. SleepTypeOK' /\ EndInv'
    BY <1>1 DEF SleepInv, SleepTypeOK, EndInv, CheckElapsed
  <2>3. SliceInv'
    BY <1>1, <2>1 DEF SleepInv, SliceInv, Checking, CheckElapsed
  <2>4. CancelInv'
    BY <1>1 DEF SleepInv, CancelInv, CheckElapsed
  <2>5. QED
    BY <2>2, <2>3, <2>4 DEF SleepInv
<1>2. CASE ReadCanceled
  <2>1. SleepTypeOK' /\ EndInv'
    BY <1>2 DEF SleepInv, SleepTypeOK, EndInv, ReadCanceled
  <2>2. SliceInv'
    BY <1>2 DEF SleepInv, SliceInv, Checking, ReadCanceled
  <2>3. CancelInv'
    BY <1>2 DEF SleepInv, SleepTypeOK, CancelInv, ReadCanceled
  <2>4. QED
    BY <2>1, <2>2, <2>3 DEF SleepInv
<1>3. CASE SliceEnds \/ WakeUp
  <2>1. SleepTypeOK' /\ EndInv' /\ CancelInv'
    BY <1>3 DEF SleepInv, SleepTypeOK, EndInv, CancelInv, SliceEnds, WakeUp
  <2>2. SliceInv'
    BY <1>3 DEF SleepInv, SleepTypeOK, SliceInv, Checking, SliceEnds, WakeUp
  <2>3. QED
    BY <2>1, <2>2 DEF SleepInv
<1>4. CASE CtrlC \/ Cancel
  <2>1. CANCELED' \in BOOLEAN /\ interrupted' \in BOOLEAN
    BY <1>4, Zenon DEF SleepInv, SleepTypeOK, CtrlC, Cancel
  <2>2. SleepTypeOK' /\ EndInv' /\ CancelInv'
    BY <1>4, <2>1 DEF SleepInv, SleepTypeOK, EndInv, CancelInv, CtrlC, Cancel
  <2>3. SliceInv'
    BY <1>4 DEF SleepInv, SliceInv, Checking, CtrlC, Cancel
  <2>4. QED
    BY <2>2, <2>3 DEF SleepInv
<1>5. CASE UNCHANGED sleepVars
  BY <1>5 DEF SleepInv, SleepTypeOK, SliceInv, Checking, CancelInv, EndInv, sleepVars
<1>6. QED
  BY <1>1, <1>2, <1>3, <1>4, <1>5

LEMMA StepSleepInv == SleepInv /\ [SleepNext]_sleepVars => SleepInv'
BY TaskSleepPreserves, SubtractPreserves, ClockTicksPreserves, OtherSleepSteps DEF SleepNext

\* A sleep lasts its time, in slices of a second, and begins at most one slice
\* after CANCELED was set; the subtraction of task_sleep (lib.rs) panics only
\* when the time is over, whenever it passes between the check and it.
THEOREM SleepsKept == SleepSpec => []SleepsAreKept
<1>1. SleepInv => SleepsAreKept
  BY DEF SleepInv, SliceInv, CancelInv, EndInv, SleepsAreKept
<1>2. QED
  BY <1>1, InitSleepInv, StepSleepInv, PTL DEF SleepSpec

----------------------------------------------------------------------------
(* Typing notices (TypingNotices), for every delay of a request.           *)

Quiet == \A t \in Typists : ~Waiting(t)

\* What the server shows, by the client's time: as long as the client counts, and
\* longer only by the time the notice took.
InStep ==
  /\ typingTime = NoTime => shown = 0
  /\ typingTime # NoTime => shown + typingTime >= TYPING_NOTICE_TIMEOUT
  /\ typingTime # NoTime =>
       shown = 0 \/ shown + typingTime <= TYPING_NOTICE_TIMEOUT + slowest

\* And what it says of a notice on its way: sent then, or taken back; once the
\* server has it, both count from it.
WaitInv ==
  /\ \A t, u \in Typists : Waiting(t) /\ Waiting(u) => t = u
  /\ \A t \in Typists : notice[t] = "yes" => typingTime <= age[t] /\ typingTime <= Long
  /\ \A t \in Typists : notice[t] = "no" => typingTime = NoTime

ShownInv == (\A t \in Typists : Waiting(t) => received[t]) => InStep

\* Who sends nothing has nothing received.
IdleInv == \A t \in Typists : ~Waiting(t) => ~received[t]

TypingInv ==
  /\ TypingTypeOK
  /\ IdleInv
  /\ ~disturbed => WaitInv /\ ShownInv
  /\ TypingIsKnown

USE DelayAssumption DEF TYPING_NOTICE_TIMEOUT, TYPING_NOTICE_RESEND_TIMEOUT, Long, NoTime

LEMMA InitTypingInv == TypingInit => TypingInv
<1> SUFFICES ASSUME TypingInit PROVE TypingInv
  OBVIOUS
<1>1. TypingTypeOK
  <2>1. justSaid \in BOOLEAN /\ disturbed \in BOOLEAN /\ received \in [Typists -> BOOLEAN]
    BY DEF TypingInit
  <2>2. /\ typingTime \in 0 .. NoTime /\ shown \in 0 .. TYPING_NOTICE_TIMEOUT
        /\ slowest \in 0 .. MaxDelay /\ said \in {"yes", "no"}
    BY DEF TypingInit
  <2>3. notice \in [Typists -> {"none", "yes", "no"}] /\ age \in [Typists -> 0 .. MaxDelay]
    BY DEF TypingInit
  <2>4. QED
    BY <2>1, <2>2, <2>3, Zenon DEF TypingTypeOK
<1>2. WaitInv /\ InStep
  BY DEF TypingInit, InStep, WaitInv, Waiting
<1>3. ShownInv /\ TypingIsKnown /\ IdleInv
  BY <1>2 DEF TypingInit, ShownInv, TypingIsKnown, IdleInv
<1>4. QED
  BY <1>1, <1>2, <1>3 DEF TypingInv

\* A notice that is not sent would tell the server nothing new.
LEMMA SaysNothingPreserves ==
  ASSUME TypingInv, NEW t \in Typists, NEW typing \in BOOLEAN, SaysNothing(t, typing)
  PROVE  TypingInv'
<1>1. /\ said' = Argument(typing) /\ justSaid' = (0 < TYPING_NOTICE_TIMEOUT)
      /\ disturbed' = (disturbed \/ \E u \in Typists : Waiting(u))
      /\ UNCHANGED <<typingTime, notice, age, received, shown, slowest>>
  BY DEF SaysNothing, Said
<1>2. TypingTypeOK'
  <2>1. said' \in {"yes", "no"} /\ justSaid' \in BOOLEAN
    BY <1>1 DEF Argument
  <2>2. disturbed' \in BOOLEAN
    BY <1>1
  <2>3. received' \in [Typists -> BOOLEAN]
    BY <1>1, Zenon DEF TypingInv, TypingTypeOK
  <2>4. QED
    BY <1>1, <2>1, <2>2, <2>3 DEF TypingInv, TypingTypeOK
<1>3. IdleInv'
  BY <1>1 DEF TypingInv, IdleInv, Waiting
<1>4. CASE disturbed'
  BY <1>2, <1>3, <1>4 DEF TypingInv, TypingIsKnown
<1>5. CASE ~disturbed'
  <2>1. ~disturbed /\ Quiet /\ WaitInv /\ InStep
    BY <1>1, <1>5 DEF TypingInv, Quiet, ShownInv
  <2>2. WaitInv' /\ ShownInv'
    BY <1>1, <2>1 DEF WaitInv, ShownInv, InStep, Waiting
  <2>3. typingTime \in 0 .. 6 /\ shown \in 0 .. 4 /\ slowest \in Nat
    BY DEF TypingInv, TypingTypeOK
  <2>4. CASE typing = TRUE
    <3>1. ~Sends(TRUE)
      BY <2>4 DEF SaysNothing
    <3>2. typingTime <= 3
      BY <3>1, <2>3 DEF Sends
    <3>3. shown > 0
      BY <3>2, <2>1, <2>3 DEF InStep
    <3>4. said' = "yes"
      BY <1>1, <2>4 DEF Argument
    <3>5. TypingIsKnown'
      BY <1>1, <3>3, <3>4 DEF TypingIsKnown
    <3>6. QED
      BY <1>2, <1>3, <2>2, <3>5 DEF TypingInv
  <2>5. CASE typing = FALSE
    <3>1. ~Sends(FALSE)
      BY <2>5 DEF SaysNothing
    <3>2. typingTime = 6 \/ typingTime = 5
      BY <3>1, <2>3 DEF Sends
    <3>3. shown <= slowest
      BY <3>2, <2>1, <2>3 DEF InStep
    <3>4. said' = "no"
      BY <1>1, <2>5 DEF Argument
    <3>5. TypingIsKnown'
      BY <1>1, <3>3, <3>4 DEF TypingIsKnown
    <3>6. QED
      BY <1>2, <1>3, <2>2, <3>5 DEF TypingInv
  <2>6. QED
    BY <2>4, <2>5
<1>6. QED
  BY <1>4, <1>5

LEMMA SendPreserves ==
  ASSUME TypingInv, NEW t \in Typists, NEW typing \in BOOLEAN, SendTypingNotice(t, typing)
  PROVE  TypingInv'
<1>1. /\ typingTime' = (IF typing THEN 0 ELSE NoTime)
      /\ notice' = [notice EXCEPT ![t] = Argument(typing)]
      /\ age' = [age EXCEPT ![t] = 0]
      /\ disturbed' = (disturbed \/ \E u \in Typists : Waiting(u))
      /\ UNCHANGED <<received, shown, said, justSaid, slowest>>
      /\ ~Waiting(t)
  BY DEF SendTypingNotice
<1>2. Argument(typing) \in {"yes", "no"}
  BY DEF Argument
<1>3. TypingTypeOK'
  <2>1. typingTime' \in 0 .. NoTime /\ disturbed' \in BOOLEAN
    BY <1>1
  <2>2. notice' \in [Typists -> {"none", "yes", "no"}] /\ age' \in [Typists -> 0 .. MaxDelay]
    BY <1>1, <1>2 DEF TypingInv, TypingTypeOK
  <2>3. received' \in [Typists -> BOOLEAN] /\ justSaid' \in BOOLEAN
    BY <1>1, Zenon DEF TypingInv, TypingTypeOK
  <2>4. QED
    BY <1>1, <2>1, <2>2, <2>3 DEF TypingInv, TypingTypeOK
<1>4. Waiting(t)'
  BY <1>1, <1>2 DEF TypingInv, TypingTypeOK, Waiting
<1>5. ~received'[t]
  BY <1>1 DEF TypingInv, IdleInv
<1>6. ShownInv' /\ TypingIsKnown'
  BY <1>4, <1>5 DEF ShownInv, TypingIsKnown
<1>7. IdleInv'
  BY <1>1, <1>4 DEF TypingInv, IdleInv, TypingTypeOK, Waiting
<1>8. ASSUME ~disturbed' PROVE WaitInv'
  <2>1. \A u \in Typists : notice[u] = "none"
    BY <1>1, <1>8 DEF Waiting
  <2>2. \A u \in Typists : notice'[u] # "none" => u = t
    BY <1>1, <2>1 DEF TypingInv, TypingTypeOK
  <2>3. notice'[t] = Argument(typing) /\ age'[t] = 0
    BY <1>1 DEF TypingInv, TypingTypeOK
  <2>4. notice'[t] = "yes" => typingTime' = 0
    BY <1>1, <2>3 DEF Argument
  <2>5. notice'[t] = "no" => typingTime' = NoTime
    BY <1>1, <2>3 DEF Argument
  <2>6. QED
    BY <2>2, <2>3, <2>4, <2>5 DEF WaitInv, Waiting
<1>9. QED
  BY <1>3, <1>6, <1>7, <1>8 DEF TypingInv

\* The server starts counting as late as the notice was slow.
LEMMA ArrivesPreserves ==
  ASSUME TypingInv, NEW t \in Typists, NoticeArrives(t)
  PROVE  TypingInv'
<1>1. /\ notice[t] \in {"yes", "no"}
      /\ shown' = (IF notice[t] = "yes" THEN TYPING_NOTICE_TIMEOUT ELSE 0)
      /\ slowest' = (IF age[t] > slowest THEN age[t] ELSE slowest)
      /\ received' = [received EXCEPT ![t] = TRUE]
      /\ UNCHANGED <<typingTime, notice, age, said, justSaid, disturbed>>
  BY DEF NoticeArrives, Waiting, TypingInv, TypingTypeOK
<1>2. age[t] \in 0 .. MaxDelay /\ slowest \in 0 .. MaxDelay
  BY DEF TypingInv, TypingTypeOK
<1>3. slowest' \in 0 .. MaxDelay /\ slowest' >= age[t]
  BY <1>1, <1>2
<1>4. TypingTypeOK'
  <2>1. shown' \in 0 .. 4 /\ received' \in [Typists -> BOOLEAN]
    BY <1>1 DEF TypingInv, TypingTypeOK
  <2>2. /\ typingTime' \in 0 .. NoTime /\ notice' \in [Typists -> {"none", "yes", "no"}]
        /\ age' \in [Typists -> 0 .. MaxDelay] /\ said' \in {"yes", "no"}
    BY <1>1 DEF TypingInv, TypingTypeOK
  <2>3. disturbed' \in BOOLEAN /\ justSaid' \in BOOLEAN
    BY <1>1, Zenon DEF TypingInv, TypingTypeOK
  <2>4. QED
    BY <1>3, <2>1, <2>2, <2>3 DEF TypingTypeOK
<1>5. IdleInv'
  BY <1>1 DEF TypingInv, IdleInv, TypingTypeOK, Waiting
<1>6. TypingIsKnown'
  BY <1>1 DEF TypingIsKnown, Waiting
<1>7. ASSUME ~disturbed' PROVE WaitInv' /\ ShownInv'
  <2>1. WaitInv /\ typingTime \in 0 .. 6
    BY <1>1, <1>7 DEF TypingInv, TypingTypeOK
  <2>2. WaitInv'
    BY <1>1, <2>1 DEF WaitInv, Waiting
  <2>3. /\ notice[t] = "yes" => typingTime <= age[t] /\ typingTime <= Long
        /\ notice[t] = "no" => typingTime = NoTime
    BY <2>1 DEF WaitInv
  <2>4. InStep'
    BY <1>1, <1>2, <1>3, <2>1, <2>3 DEF InStep
  <2>5. QED
    BY <2>2, <2>4 DEF ShownInv
<1>8. QED
  BY <1>4, <1>5, <1>6, <1>7 DEF TypingInv

\* Whose answer comes before the notice has run out is still shown typing.
LEMMA AnsweredPreserves ==
  ASSUME TypingInv, NEW t \in Typists, NoticeAnswered(t)
  PROVE  TypingInv'
<1>1. /\ notice[t] \in {"yes", "no"} /\ received[t]
      /\ said' = notice[t] /\ justSaid' = (age[t] < TYPING_NOTICE_TIMEOUT)
      /\ notice' = [notice EXCEPT ![t] = "none"] /\ age' = [age EXCEPT ![t] = 0]
      /\ received' = [received EXCEPT ![t] = FALSE]
      /\ UNCHANGED <<typingTime, shown, slowest, disturbed>>
  BY DEF NoticeAnswered, Over, Said, Waiting, TypingInv, TypingTypeOK
<1>2. TypingTypeOK'
  <2>1. said' \in {"yes", "no"} /\ justSaid' \in BOOLEAN
    BY <1>1
  <2>2. notice' \in [Typists -> {"none", "yes", "no"}] /\ age' \in [Typists -> 0 .. MaxDelay]
    BY <1>1 DEF TypingInv, TypingTypeOK
  <2>3. received' \in [Typists -> BOOLEAN]
    BY <1>1 DEF TypingInv, TypingTypeOK
  <2>4. disturbed' \in BOOLEAN
    BY <1>1, Zenon DEF TypingInv, TypingTypeOK
  <2>5. QED
    BY <1>1, <2>1, <2>2, <2>3, <2>4 DEF TypingInv, TypingTypeOK
<1>3. IdleInv'
  BY <1>1 DEF TypingInv, IdleInv, TypingTypeOK, Waiting
<1>4. CASE disturbed
  BY <1>1, <1>2, <1>3, <1>4 DEF TypingInv, TypingIsKnown
<1>5. CASE ~disturbed
  <2>1. \A u \in Typists : Waiting(u) => u = t
    BY <1>1, <1>5 DEF TypingInv, WaitInv, Waiting
  <2>2. \A u \in Typists : notice'[u] = "none"
    BY <1>1, <2>1 DEF TypingInv, TypingTypeOK, Waiting
  <2>3. InStep
    BY <1>1, <1>5, <2>1 DEF TypingInv, ShownInv
  <2>4. WaitInv' /\ ShownInv'
    BY <1>1, <2>2, <2>3 DEF WaitInv, ShownInv, InStep, Waiting
  <2>5. /\ notice[t] = "yes" => typingTime <= age[t] /\ typingTime <= Long
        /\ notice[t] = "no" => typingTime = NoTime
    BY <1>5 DEF TypingInv, WaitInv
  <2>6. /\ typingTime \in 0 .. 6 /\ shown \in 0 .. 4 /\ slowest \in Nat /\ age[t] \in Nat
    BY DEF TypingInv, TypingTypeOK
  <2>7. notice[t] = "yes" /\ age[t] < 4 => shown > 0
    BY <2>3, <2>5, <2>6 DEF InStep
  <2>8. notice[t] = "no" => shown <= slowest
    BY <2>3, <2>5, <2>6 DEF InStep
  <2>9. TypingIsKnown'
    BY <1>1, <2>7, <2>8 DEF TypingIsKnown
  <2>10. QED
    BY <1>2, <1>3, <2>4, <2>9 DEF TypingInv
<1>6. QED
  BY <1>4, <1>5

LEMMA FailsPreserves ==
  ASSUME TypingInv, NEW t \in Typists, NoticeFails(t)
  PROVE  TypingInv'
<1>1. /\ notice' = [notice EXCEPT ![t] = "none"] /\ age' = [age EXCEPT ![t] = 0]
      /\ received' = [received EXCEPT ![t] = FALSE]
      /\ disturbed' = TRUE /\ UNCHANGED <<typingTime, shown, said, justSaid, slowest>>
  BY DEF NoticeFails, Over
<1>2. TypingTypeOK'
  BY <1>1 DEF TypingInv, TypingTypeOK
<1>3. IdleInv'
  BY <1>1 DEF TypingInv, IdleInv, TypingTypeOK, Waiting
<1>4. QED
  BY <1>1, <1>2, <1>3 DEF TypingInv, TypingIsKnown

\* A second passes on both sides.
LEMMA SecondPreserves ==
  ASSUME TypingInv, Second
  PROVE  TypingInv'
<1>1. /\ \A t \in Typists : Waiting(t) => age[t] < MaxDelay
      /\ typingTime' = (IF typingTime < Long THEN typingTime + 1 ELSE typingTime)
      /\ shown' = (IF shown = 0 THEN 0 ELSE shown - 1)
      /\ age' = [t \in Typists |-> IF Waiting(t) THEN age[t] + 1 ELSE 0]
      /\ justSaid' = FALSE
      /\ UNCHANGED <<notice, received, said, slowest, disturbed>>
  BY DEF Second
<1>2. /\ typingTime \in 0 .. 6 /\ shown \in 0 .. 4 /\ slowest \in Nat
      /\ \A t \in Typists : age[t] \in 0 .. MaxDelay
  BY DEF TypingInv, TypingTypeOK
<1>3. TypingTypeOK'
  <2>1. typingTime' \in 0 .. NoTime /\ shown' \in 0 .. 4
    BY <1>1, <1>2
  <2>2. age' \in [Typists -> 0 .. MaxDelay]
    BY <1>1, <1>2
  <2>3. justSaid' \in BOOLEAN
    BY <1>1
  <2>4. disturbed' \in BOOLEAN /\ notice' \in [Typists -> {"none", "yes", "no"}]
        /\ received' \in [Typists -> BOOLEAN]
        /\ said' \in {"yes", "no"} /\ slowest' \in 0 .. MaxDelay
    BY <1>1, Zenon DEF TypingInv, TypingTypeOK
  <2>5. QED
    BY <2>1, <2>2, <2>3, <2>4 DEF TypingTypeOK
<1>4. ASSUME ~disturbed PROVE WaitInv' /\ ShownInv'
  <2>1. WaitInv /\ ShownInv
    BY <1>4 DEF TypingInv
  <2>2. ASSUME NEW t \in Typists, notice[t] = "yes"
        PROVE  typingTime' <= age'[t] /\ typingTime' <= Long
    <3>1. age'[t] = age[t] + 1
      BY <1>1, <2>2 DEF Waiting
    <3>2. typingTime <= age[t] /\ typingTime <= Long
      BY <2>1, <2>2 DEF WaitInv
    <3>3. QED
      BY <1>1, <1>2, <3>1, <3>2
  <2>3. ASSUME NEW t \in Typists, notice[t] = "no" PROVE typingTime' = NoTime
    BY <1>1, <2>1, <2>3 DEF WaitInv
  <2>4. WaitInv'
    BY <1>1, <2>1, <2>2, <2>3 DEF WaitInv, Waiting
  <2>5. ASSUME InStep PROVE InStep'
    BY <1>1, <1>2, <2>5 DEF InStep
  <2>6. ShownInv'
    BY <1>1, <2>1, <2>5 DEF ShownInv, Waiting
  <2>7. QED
    BY <2>4, <2>6
<1>5. TypingIsKnown'
  BY <1>1, <1>2 DEF TypingInv, TypingIsKnown, Waiting
<1>6. IdleInv'
  BY <1>1 DEF TypingInv, IdleInv, Waiting
<1>7. QED
  BY <1>1, <1>3, <1>4, <1>5, <1>6 DEF TypingInv

LEMMA StepTypingInv == TypingInv /\ [TypingNext]_typingVars => TypingInv'
<1> SUFFICES ASSUME TypingInv, [TypingNext]_typingVars PROVE TypingInv'
  OBVIOUS
<1>1. ASSUME NEW t \in Typists, NEW typing \in BOOLEAN,
             SaysNothing(t, typing) \/ SendTypingNotice(t, typing)
      PROVE  TypingInv'
  BY <1>1, SaysNothingPreserves, SendPreserves
<1>2. ASSUME NEW t \in Typists, NoticeArrives(t) \/ NoticeAnswered(t) \/ NoticeFails(t)
      PROVE  TypingInv'
  BY <1>2, ArrivesPreserves, AnsweredPreserves, FailsPreserves
<1>3. CASE UNCHANGED typingVars
  <2>1. TypingTypeOK'
    BY <1>3, Zenon DEF TypingInv, TypingTypeOK, typingVars
  <2>2. TypingIsKnown'
    BY <1>3 DEF TypingInv, TypingIsKnown, Waiting, typingVars
  <2>3. ~disturbed' => WaitInv' /\ ShownInv'
    BY <1>3 DEF TypingInv, WaitInv, ShownInv, InStep, Waiting, typingVars
  <2>4. IdleInv'
    BY <1>3 DEF TypingInv, IdleInv, Waiting, typingVars
  <2>5. QED
    BY <2>1, <2>2, <2>3, <2>4 DEF TypingInv
<1>4. QED
  BY <1>1, <1>2, <1>3, SecondPreserves DEF TypingNext

\* Whatever requests typing_notice (room/joined.rs) saves, the server shows
\* what was said last, if no request failed and no two calls met.
THEOREM TypingKnown == TypingSpec => []TypingIsKnown
<1>1. TypingInv => TypingIsKnown
  BY DEF TypingInv
<1>2. QED
  BY <1>1, InitTypingInv, StepTypingInv, PTL DEF TypingSpec

----------------------------------------------------------------------------
(* The whole.                                                              *)

\* A behaviour of the whole is, seen from each of its parts, one of that part:
\* the others leave its variables alone.
THEOREM PartsAreParts ==
  Spec => /\ RequestSpec /\ SessionSpec /\ SetupSpec /\ MembershipSpec /\ EndpointsSpec
          /\ AccountSpec /\ TypingSpec /\ MediaSpec /\ PacingSpec /\ SleepSpec /\ RouteSpec
<1>1. PartsInit =>
        /\ RequestInit /\ SessionInit /\ SetupInit /\ MembershipInit /\ EndpointsInit
        /\ AccountInit /\ TypingInit /\ MediaInit /\ PacingInit /\ SleepInit /\ RouteInit
  BY DEF PartsInit
<1>2. [PartsNext]_partsVars =>
        /\ [RequestNext]_requestVars /\ [SessionNext]_sessionVars /\ [SetupNext]_setupVars
        /\ [MembershipNext]_membershipVars /\ [EndpointsNext]_reported
        /\ [AccountNext]_accountVars /\ [TypingNext]_typingVars /\ [MediaNext]_mediaVars
        /\ [PacingNext]_pacingVars /\ [SleepNext]_sleepVars /\ [RouteNext]_routeVars
  BY DEF PartsNext, partsVars, RequestRuns, SessionRuns, SetupRuns, MembershipRuns, EndpointsRun,
     AccountRuns, TypingRuns, MediaRuns, PacingRuns, SleepRuns, RouteRuns
<1>3. QED
  BY <1>1, <1>2, PTL
     DEF Spec, RequestSpec, SessionSpec, SetupSpec, MembershipSpec, EndpointsSpec, AccountSpec,
         TypingSpec, MediaSpec, PacingSpec, SleepSpec, RouteSpec

\* Every part keeps to its type.
THEOREM PartsTyped == Spec => []PartsTypeOK
<1>1. PacingInv => PacingTypeOK
  BY DEF PacingInv
<1>2. SleepInv => SleepTypeOK
  BY DEF SleepInv
<1>3. TypingInv => TypingTypeOK
  BY DEF TypingInv
<1>4. PacingSpec /\ SleepSpec /\ TypingSpec => [](PacingTypeOK /\ SleepTypeOK /\ TypingTypeOK)
  BY <1>1, <1>2, <1>3, InitPacingInv, StepPacingInv, InitSleepInv, StepSleepInv, InitTypingInv,
     StepTypingInv, PTL DEF PacingSpec, SleepSpec, TypingSpec
<1>5. QED
  BY <1>4, PartsAreParts, RequestTyped, SessionTyped, SetupTyped, MembershipTyped, EndpointsTyped,
     AccountTyped, MediaTyped, RouteTyped, PTL DEF PartsTypeOK

\* And what each of them promises holds in the whole, which is what the run of
\* the parts checks on its small sets.
THEOREM PartsHold ==
  Spec => [](/\ LimitIsExact /\ CheckedCallsAreAuthorised
             /\ TwinsNeedLoss /\ EveryoneIsIn /\ RoomConverges /\ CreateUnwraps
             /\ OneRowPerEndpoint /\ NothingLost /\ TypingIsKnown /\ RemovedIsGone
             /\ SyncsArePaced /\ SleepsAreKept /\ RouteServes)
<1>1. RequestSpec /\ SessionSpec =>
        [](LimitIsExact /\ CheckedCallsAreAuthorised)
  BY AttemptsBounded, CallsAuthorised, PTL
<1>2. SetupSpec /\ MembershipSpec /\ EndpointsSpec =>
        [](TwinsNeedLoss /\ EveryoneIsIn /\ RoomConverges /\ CreateUnwraps /\ OneRowPerEndpoint)
  BY TwinsExplained, AllAreIn, RoomEndsRight, CreateNeverPanics, RowsTellEndpoints, PTL
<1>3. AccountSpec /\ TypingSpec /\ MediaSpec => [](NothingLost /\ TypingIsKnown /\ RemovedIsGone)
  BY EditsSurvive, TypingKnown, RemovedStaysGone, PTL
<1>4. PacingSpec /\ SleepSpec /\ RouteSpec => [](SyncsArePaced /\ SleepsAreKept /\ RouteServes)
  BY ThreeTakeASecond, SleepsKept, RoutesServe, PTL
<1>5. QED
  BY <1>1, <1>2, <1>3, <1>4, PartsAreParts, PTL
=============================================================================

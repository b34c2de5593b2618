---------------------------- MODULE RoomRequests ----------------------------
(***************************************************************************)
(* Deduplication of requests per room (room/common.rs): sync_members asks  *)
(* for the member list and is_encrypted for the encryption state, each     *)
(* only if the store has not synced it, and each through a map from the    *)
(* room to the mutex of the call whose request is in flight.               *)
(*                                                                         *)
(* Several tasks call the methods of one client at once.  A mutex is named *)
(* by the caller that made it: only its latest one can be in the map.  The *)
(* rooms are those whose events are visible; of a member list only whether *)
(* it is synced is kept.  The store is matrix_sdk_base's.                  *)
(***************************************************************************)
EXTENDS Naturals, FiniteSets

CONSTANTS
  Callers,    \* tasks that use the client
  Rooms,
  NoCaller,   \* no mutex
  FaultSets   \* the environments to consider: each a set of FaultKinds

Kinds == {"members", "encryption"}
FaultKinds ==
  { "error",     \* a request, or saving its response, fails
    "busy",      \* the server answers everything with 429 or 5xx for a time
    "gap",       \* a limited sync makes a member list incomplete again
    "encrypt" }  \* someone enables the encryption of a room

ASSUME CallerAssumption == NoCaller \notin Callers
ASSUME FaultAssumption == FaultSets \subseteq SUBSET FaultKinds

VARIABLES
  pc,         \* where a caller is in its call
  call,       \* the method (kind) and room of its latest call
  result,     \* what that call returned
  on,         \* the mutex a waiting caller awaits
  lock,       \* members_request_locks and encryption_state_request_locks
  synced,     \* are_members_synced, is_encryption_state_synced
  encrypted,  \* the encryption event of a room in the client's store
  server,     \* whether the server has an encryption event for a room
  reply,      \* the encryption event in the response a caller received
  failed,     \* history: a request of this kind has failed for this room
  faults,     \* the environment of this run, fixed
  serverBusy  \* whether the server is busy: HttpClient::send then repeats a request

store == <<synced, encrypted>>
world == <<faults, serverBusy>>
vars == <<pc, call, result, on, lock, store, server, reply, failed, world>>

States == {"idle", "look", "insert", "lock", "wait", "woken", "sent", "store", "remove"}
Results == {"none", "error", "nothing", "response", "yes", "no"}
NoCall == [kind |-> "none"]

----------------------------------------------------------------------------
At(c, k, r, s) == pc[c] = s /\ call[c] = [kind |-> k, room |-> r]

\* A caller that holds the mutex it made.
Leads(c, k, r) == \E s \in {"sent", "store", "remove"} : At(c, k, r, s)

Held_Never(k, r) == FALSE

\* The mutex in the map, if any, is locked.
Held(k, r) == lock[k][r] # NoCaller /\ Leads(lock[k][r], k, r)

Waiters(c) == {x \in Callers : pc[x] = "wait" /\ on[x] = c}

Go(c, s) == pc' = [pc EXCEPT ![c] = s]
YesNo(b) == IF b THEN "yes" ELSE "no"

Deduplicated_Unwrapped(k) == IF k = "members" THEN "nothing" ELSE "panic"

\* Ok(None) of a call that awaited another's request.
Deduplicated(k) == IF k = "members" THEN "nothing" ELSE "no"

Return(c, res) == Go(c, "idle") /\ result' = [result EXCEPT ![c] = res]

\* The mutex of c is released: who awaits it may go on.
Release(c, res) ==
  /\ pc' = [x \in Callers |-> IF x = c THEN "idle"
                              ELSE IF x \in Waiters(c) THEN "woken" ELSE pc[x]]
  /\ on' = [x \in Callers |-> IF x \in Waiters(c) THEN NoCaller ELSE on[x]]
  /\ result' = [result EXCEPT ![c] = res]
  /\ reply' = [reply EXCEPT ![c] = FALSE]

----------------------------------------------------------------------------
(* The entry of the methods: nothing to do if the store is synced.         *)

Call(c, k, r) ==
  /\ pc[c] = "idle"
  /\ call' = [call EXCEPT ![c] = [kind |-> k, room |-> r]]
  /\ \/ /\ ~synced[k][r]
        /\ Go(c, "look")
        /\ result' = [result EXCEPT ![c] = "none"]
     \/ /\ synced[k][r]
        /\ Return(c, IF k = "members" THEN "nothing" ELSE YesNo(encrypted[r]))
  /\ UNCHANGED <<on, lock, store, server, reply, failed, world>>

----------------------------------------------------------------------------
(* The lookup.  A locked mutex is awaited, a free one locked and let go.   *)

lookUnchanged == <<call, store, server, reply, failed, world>>

Join(c, k, r) ==
  /\ At(c, k, r, "look")
  /\ lock[k][r] # NoCaller
  /\ \/ /\ Held(k, r)
        /\ Go(c, "wait")
        /\ on' = [on EXCEPT ![c] = lock[k][r]]
     \/ /\ ~Held(k, r)
        /\ Go(c, "woken")
        /\ UNCHANGED on
  /\ UNCHANGED <<lookUnchanged, result, lock>>

\* request_members inserts its locked mutex before it unlocks the map.
LeadMembers_Unchecked(c, r) ==
  /\ At(c, "members", r, "look")
  /\ lock' = [lock EXCEPT !["members"][r] = c]
  /\ Go(c, "sent")
  /\ UNCHANGED <<lookUnchanged, result, on>>

LeadMembers(c, r) ==
  /\ At(c, "members", r, "look")
  /\ lock["members"][r] = NoCaller
  /\ lock' = [lock EXCEPT !["members"][r] = c]
  /\ Go(c, "sent")
  /\ UNCHANGED <<lookUnchanged, result, on>>

\* request_encryption_state looks, inserts and locks one after the other.
LookEncryption(c, r) ==
  /\ At(c, "encryption", r, "look")
  /\ lock["encryption"][r] = NoCaller
  /\ Go(c, "insert")
  /\ UNCHANGED <<lookUnchanged, result, on, lock>>

InsertEncryption(c, r) ==
  /\ At(c, "encryption", r, "insert")
  /\ lock' = [lock EXCEPT !["encryption"][r] = c]
  /\ Go(c, "lock")
  /\ UNCHANGED <<lookUnchanged, result, on>>

LockEncryption(c, r) ==
  /\ At(c, "encryption", r, "lock")
  /\ Go(c, "sent")
  /\ UNCHANGED <<lookUnchanged, result, on, lock>>

Wake(c, k, r) ==
  /\ At(c, k, r, "woken")
  /\ Return(c, Deduplicated(k))
  /\ UNCHANGED <<lookUnchanged, on, lock>>

----------------------------------------------------------------------------
(* The request of the call that leads.                                     *)

Respond(c, k, r) ==
  /\ At(c, k, r, "sent") /\ ~serverBusy
  /\ reply' = [reply EXCEPT ![c] = (k = "encryption" /\ server[r])]
  /\ Go(c, "store")
  /\ UNCHANGED <<call, result, on, lock, store, server, failed, world>>

\* The response is all that counts: an encryption event that a sync brought
\* after the server answered is overwritten.
Store(c, k, r) ==
  /\ At(c, k, r, "store")
  /\ synced' = [synced EXCEPT ![k][r] = TRUE]
  /\ encrypted' = [encrypted EXCEPT ![r] = IF k = "encryption" THEN reply[c] ELSE @]
  /\ Go(c, "remove")
  /\ UNCHANGED <<call, result, on, lock, server, reply, failed, world>>

Remove_KeepsEntry(c, k, r) ==
  /\ At(c, k, r, "remove")
  /\ Release(c, IF k = "members" THEN "response" ELSE YesNo(reply[c]))
  /\ UNCHANGED <<call, lock, store, server, failed, world>>

Remove_KeepsWaiters(c, k, r) ==
  /\ At(c, k, r, "remove")
  /\ lock' = [lock EXCEPT ![k][r] = NoCaller]
  /\ Return(c, IF k = "members" THEN "response" ELSE YesNo(reply[c]))
  /\ UNCHANGED <<call, on, store, server, reply, failed, world>>

\* Whatever mutex the map holds for the room by now is removed.
Remove(c, k, r) ==
  /\ At(c, k, r, "remove")
  /\ lock' = [lock EXCEPT ![k][r] = NoCaller]
  /\ Release(c, IF k = "members" THEN "response" ELSE YesNo(reply[c]))
  /\ UNCHANGED <<call, store, server, failed, world>>

\* `?` on the request or on the store: the guard is dropped, the entry stays.
Fail(c, k, r) ==
  /\ "error" \in faults
  /\ At(c, k, r, "sent") \/ At(c, k, r, "store")
  /\ failed' = [failed EXCEPT ![k][r] = TRUE]
  /\ Release(c, "error")
  /\ UNCHANGED <<call, lock, store, server, world>>

----------------------------------------------------------------------------
(* The sync loop and the other users of the server.                        *)

outside == <<pc, call, result, on, lock, reply, failed, faults>>

Gap(r) ==
  /\ "gap" \in faults
  /\ synced' = [synced EXCEPT !["members"][r] = FALSE]
  /\ UNCHANGED <<outside, encrypted, server, serverBusy>>

ServerEncrypts(r) ==
  /\ "encrypt" \in faults
  /\ server' = [server EXCEPT ![r] = TRUE]
  /\ UNCHANGED <<outside, store, serverBusy>>

SyncEncrypted(r) ==
  /\ server[r]
  /\ encrypted' = [encrypted EXCEPT ![r] = TRUE]
  /\ UNCHANGED <<outside, synced, server, serverBusy>>

ServerTurns ==
  /\ "busy" \in faults
  /\ serverBusy' = ~serverBusy
  /\ UNCHANGED <<outside, store, server>>

----------------------------------------------------------------------------
Init ==
  /\ pc = [c \in Callers |-> "idle"]
  /\ call = [c \in Callers |-> NoCall]
  /\ result = [c \in Callers |-> "none"]
  /\ on = [c \in Callers |-> NoCaller]
  /\ lock = [k \in Kinds |-> [r \in Rooms |-> NoCaller]]
  /\ synced = [k \in Kinds |-> [r \in Rooms |-> FALSE]]
  /\ encrypted = [r \in Rooms |-> FALSE]
  /\ server \in [Rooms -> BOOLEAN]
  /\ reply = [c \in Callers |-> FALSE]
  /\ failed = [k \in Kinds |-> [r \in Rooms |-> FALSE]]
  /\ faults \in FaultSets
  /\ serverBusy = FALSE

LockStep(c, k, r) == Join(c, k, r) \/ Wake(c, k, r) \/ Remove(c, k, r)
RequestStep(c, k, r) == Respond(c, k, r) \/ Store(c, k, r) \/ Fail(c, k, r)
LeadStep(c, r) ==
  \/ LeadMembers(c, r)
  \/ LookEncryption(c, r) \/ InsertEncryption(c, r) \/ LockEncryption(c, r)

\* A step of a call that has begun.
Proceed(c) ==
  \E r \in Rooms :
    \/ LeadStep(c, r)
    \/ \E k \in Kinds : LockStep(c, k, r) \/ RequestStep(c, k, r)

Next ==
  \/ \E c \in Callers : Proceed(c) \/ \E k \in Kinds, r \in Rooms : Call(c, k, r)
  \/ \E r \in Rooms : Gap(r) \/ ServerEncrypts(r) \/ SyncEncrypted(r)
  \/ ServerTurns

Spec == Init /\ [][Next]_vars

\* What a caller does without the server.
OwnStep(c) ==
  \E r \in Rooms :
    LeadStep(c, r) \/ \E k \in Kinds : LockStep(c, k, r) \/ Store(c, k, r)

\* A request is repeated for as long as the server is busy, without a limit.  What
\* the code cannot bring about is assumed: the server never stays busy, and
\* answers a request that it gets again and again.
ServerRecovers ==
  /\ WF_vars(serverBusy /\ ServerTurns)
  /\ \A c \in Callers : SF_vars(\E k \in Kinds, r \in Rooms : Respond(c, k, r))

\* tokio runs the callers.
FairSpec == Spec /\ (\A c \in Callers : WF_vars(OwnStep(c))) /\ ServerRecovers

----------------------------------------------------------------------------
TypeOK ==
  /\ pc \in [Callers -> States]
  /\ call \in [Callers -> [kind : Kinds, room : Rooms] \cup {NoCall}]
  /\ result \in [Callers -> Results]
  /\ on \in [Callers -> Callers \cup {NoCaller}]
  /\ lock \in [Kinds -> [Rooms -> Callers \cup {NoCaller}]]
  /\ synced \in [Kinds -> [Rooms -> BOOLEAN]]
  /\ encrypted \in [Rooms -> BOOLEAN]
  /\ server \in [Rooms -> BOOLEAN]
  /\ reply \in [Callers -> BOOLEAN]
  /\ failed \in [Kinds -> [Rooms -> BOOLEAN]]
  /\ faults \in SUBSET FaultKinds /\ serverBusy \in BOOLEAN

\* sync_members de-duplicates requests: no two of them are in flight for one
\* room at any time, whatever fails and however the member list goes stale.
\* (is_encrypted does not manage this: its lookup and insert are two steps.)
\* It is part of SharesFetches, which the run checks; here it is by itself.
MembersSingleFlight ==
  \A r \in Rooms : \A c, d \in Callers :
    Leads(c, "members", r) /\ Leads(d, "members", r) => c = d

\* A mutex left in a map by no call in progress is the trace of a failure:
\* otherwise each call removes what it inserted, and also where two calls
\* inserted, nothing is left behind that would turn later calls into no-ops.
EntriesHaveOwners ==
  \A k \in Kinds, r \in Rooms :
    lock[k][r] # NoCaller /\ ~failed[k][r] =>
      Leads(lock[k][r], k, r) \/ At(lock[k][r], k, r, "lock")

\* Ok from sync_members: the list is synced, also for the calls that only
\* awaited another's request; given that none failed and no gap came between.
MembersSynced ==
  "gap" \notin faults =>
    \A c \in Callers :
      result[c] \in {"nothing", "response"} /\ ~failed["members"][call[c].room] =>
        synced["members"][call[c].room]

\* What a call of sync_members does, in the words of SharedFetch.
Step(c) ==
  CASE pc[c] = "idle" -> IF result[c] = "error" THEN "error" ELSE "ok"
    [] pc[c] = "look" -> "asking"
    [] pc[c] \in {"sent", "store"} -> "fetching"
    [] pc[c] = "remove" -> "fetched"
    [] pc[c] = "wait" -> IF pc[on[c]] = "remove" THEN "told" ELSE "joined"
    [] OTHER -> "told"

Doing == [c \in Callers |-> IF call[c].kind = "members" THEN <<Step(c), call[c].room>> ELSE <<>>]

Sharing ==
  INSTANCE SharedFetch WITH
    Items <- Rooms, doing <- Doing,
    complete <- {r \in Rooms : synced["members"][r]},
    broken <- {r \in Rooms : failed["members"][r]}

\* sync_members shares requests as SharedFetch promises: a call that finds a
\* request in flight returns only after that very request is over, one that
\* finds none sends its own, and only after a failure do calls do neither.
SharesFetches == Sharing!Spec

\* Given a server that recovers, no call waits for ever: each mutex that is
\* awaited is released, even one that has been replaced in, or removed from, the
\* map in the meantime.
EveryCallReturns == \A c \in Callers : []<>(pc[c] = "idle")

\* "This method will fetch the members from the homeserver if the member list
\* isn't synchronized": where active_members has no error to report, the
\* member list has been synced.
OkMeansSynced ==
  \A c \in Callers :
    result[c] \in {"nothing", "response"} => synced["members"][call[c].room]

\* "Returns true if the room is encrypted, otherwise false": is_encrypted does
\* not say no of a room that has been encrypted all along.
NoMeansUnencrypted ==
  "encrypt" \notin faults =>
    \A c \in Callers : result[c] = "no" => ~server[call[c].room]
============================================================================

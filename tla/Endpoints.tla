------------------------------ MODULE Endpoints ------------------------------
(***************************************************************************)
(* The requests the client can make, by the ids each of them puts in its   *)
(* path, and the name under which send_request (matrix/http_client.rs)     *)
(* reports it to goose.  Goose adds up the requests of one method and name *)
(* in one row of its report.                                               *)
(*                                                                         *)
(* Paths are ruma's, without the prefix they share.  A segment is a word   *)
(* or an id; the first character of an id tells a room, a user or an event *)
(* from one that is anything.                                              *)
(***************************************************************************)
EXTENDS Naturals, Sequences

CONSTANT Ids  \* ids of each kind

Word(text) == [sigil |-> "", text |-> text]
Room(id) == [sigil |-> "!", text |-> id]
User(id) == [sigil |-> "@", text |-> id]
EventId(id) == [sigil |-> "$", text |-> id]
Free(id) == [sigil |-> "?", text |-> id]
Blank == Word("_")

InRoom(r, action) == <<Word("rooms"), Room(r), Word(action)>>
OfUser(u, part) == <<Word("user"), User(u), Word(part)>>
Words(text) == <<Word(text)>>

----------------------------------------------------------------------------
(* What the four programs send.                                            *)

RequestOf(name, type, method, path) ==
  [endpoint |-> <<name, type>>, method |-> method, path |-> path]
Request(name, method, path) == RequestOf(name, "", method, path)

Versions == Request("versions", "GET", Words("versions"))
Login == Request("login", "POST", Words("login"))
Register == Request("register", "POST", Words("register"))
Sync == Request("sync", "GET", Words("sync"))
RefreshToken == Request("refresh", "POST", Words("refresh"))
CreateRoom == Request("create_room", "POST", Words("createRoom"))
Join(r) == Request("join", "POST", InRoom(r, "join"))
Leave(r) == Request("leave", "POST", InRoom(r, "leave"))
Typing(r, u) == Request("typing", "PUT", Append(InRoom(r, "typing"), User(u)))
Receipt(r, e) == Request("receipt", "POST", InRoom(r, "receipt") \o <<Word("m.read"), EventId(e)>>)
PaginateRoom(r) == Request("messages", "GET", InRoom(r, "messages"))
SendEvent(r, type, txn) ==
  RequestOf("send", type, "PUT", InRoom(r, "send") \o <<Word(type), Free(txn)>>)
SendText(r, txn) == SendEvent(r, "m.room.message", txn)
SendReaction(r, txn) == SendEvent(r, "m.reaction", txn)
SetDisplayName(u) ==
  Request("set_display_name", "PUT", <<Word("profile"), User(u), Word("displayname")>>)

ProgramRequests ==
  {Versions, Login, Register, Sync, RefreshToken, CreateRoom}
  \cup (UNION { {Join(a), Leave(a), PaginateRoom(a), SetDisplayName(a)} : a \in Ids })
  \cup (UNION { {Typing(a, b), Receipt(a, b), SendText(a, b), SendReaction(a, b)} : a, b \in Ids })

----------------------------------------------------------------------------
(* What they could send, by the client's other methods.                    *)

GetDisplayName(u) ==
  Request("get_display_name", "GET", <<Word("profile"), User(u), Word("displayname")>>)
GetAvatarUrl(u) == Request("get_avatar_url", "GET", <<Word("profile"), User(u), Word("avatar_url")>>)
SetAvatarUrl(u) == Request("set_avatar_url", "PUT", <<Word("profile"), User(u), Word("avatar_url")>>)
AccountGetProfile(u) == Request("get_profile", "GET", <<Word("profile"), User(u)>>)
GetProfile(u) == AccountGetProfile(u)

AccountRequest(part) == RequestOf("account", part, "POST", <<Word("account"), Word(part)>>)
ChangePassword == AccountRequest("password")
Deactivate == AccountRequest("deactivate")
Whoami == Request("whoami", "GET", <<Word("account"), Word("whoami")>>)
Get3pids == Request("get_3pids", "GET", <<Word("account"), Word("3pid")>>)
ThreePid(part) == RequestOf("3pid", part, "POST", <<Word("account"), Word("3pid"), Word(part)>>)
Add3pid == ThreePid("add")
Delete3pid == ThreePid("delete")
Request3pidEmailToken == ThreePid("email/requestToken")
Request3pidMsisdnToken == ThreePid("msisdn/requestToken")

SetAccountData(u, type) ==
  RequestOf("account_data", type, "PUT", Append(OfUser(u, "account_data"), Word(type)))
UploadFilter(u) == Request("filter", "POST", OfUser(u, "filter"))
Tag(u, r, tag) == OfUser(u, "rooms") \o <<Room(r), Word("tags"), Free(tag)>>
SetTag(u, r, tag) == Request("set_tag", "PUT", Tag(u, r, tag))
RemoveTag(u, r, tag) == Request("remove_tag", "DELETE", Tag(u, r, tag))

BanUser(r) == Request("ban", "POST", InRoom(r, "ban"))
KickUser(r) == Request("kick", "POST", InRoom(r, "kick"))
InviteUserById(r) == Request("invite", "POST", InRoom(r, "invite"))
InviteUserBy3pid(r) == InviteUserById(r)
Forget(r) == Request("forget", "POST", InRoom(r, "forget"))
GetMembers(r) == Request("members", "GET", InRoom(r, "members"))
GetEvent(r, e) == Request("event", "GET", Append(InRoom(r, "event"), EventId(e)))
SendMultipleReceipts(r) == Request("read_markers", "POST", InRoom(r, "read_markers"))
Redact(r, e, txn) ==
  Request("redact", "PUT", InRoom(r, "redact") \o <<EventId(e), Free(txn)>>)

StateEvent(r, type, key) == InRoom(r, "state") \o <<Word(type), key>>
SendStateEvent(r, type) == RequestOf("state", type, "PUT", StateEvent(r, type, Word("")))
SetName(r) == SendStateEvent(r, "m.room.name")
SetRoomTopic(r) == SendStateEvent(r, "m.room.topic")
SetRoomAvatar(r) == SendStateEvent(r, "m.room.avatar")
GetEncryption(r) ==
  Request("get_encryption", "GET", StateEvent(r, "m.room.encryption", Word("")))

JoinByAlias(alias) == Request("join_by_alias", "POST", <<Word("join"), Free(alias)>>)
ResolveRoomAlias(alias) ==
  Request("resolve_room_alias", "GET", <<Word("directory"), Word("room"), Free(alias)>>)
PublicRooms == Request("public_rooms", "GET", Words("publicRooms"))
PublicRoomsFiltered == Request("public_rooms_filtered", "POST", Words("publicRooms"))
SearchUsers == Request("search_users", "POST", <<Word("user_directory"), Word("search")>>)

GetLoginTypes == Request("get_login_types", "GET", Words("login"))
Logout == Request("logout", "POST", Words("logout"))
Devices == Request("devices", "GET", Words("devices"))
DeleteDevices == Request("delete_devices", "POST", Words("delete_devices"))
RenameDevice(d) == Request("rename_device", "PUT", <<Word("devices"), Free(d)>>)
SetPusher == Request("set_pusher", "POST", <<Word("pushers"), Word("set")>>)
DiscoverHomeserver == Request("well_known", "GET", <<Word(".well-known"), Word("matrix")>>)

Upload == Request("upload", "POST", Words("upload"))
Download(media) == Request("download", "GET", <<Word("download"), Free(media)>>)
DownloadThumbnail(media) == Request("thumbnail", "GET", <<Word("thumbnail"), Free(media)>>)

OtherRequests ==
  { ChangePassword, Deactivate, Whoami, Get3pids, Add3pid, Delete3pid,
    Request3pidEmailToken, Request3pidMsisdnToken, PublicRooms, PublicRoomsFiltered,
    SearchUsers, GetLoginTypes, Logout, Devices, DeleteDevices, SetPusher,
    DiscoverHomeserver, Upload }
  \cup (UNION
    { { GetDisplayName(a), GetAvatarUrl(a), SetAvatarUrl(a), AccountGetProfile(a),
        GetProfile(a), SetAccountData(a, "m.direct"), SetAccountData(a, "m.ignored_user_list"),
        UploadFilter(a), BanUser(a), KickUser(a), InviteUserById(a), InviteUserBy3pid(a),
        Forget(a), GetMembers(a), SendMultipleReceipts(a), SetName(a), SetRoomTopic(a),
        SetRoomAvatar(a), GetEncryption(a), JoinByAlias(a), ResolveRoomAlias(a),
        RenameDevice(a), Download(a), DownloadThumbnail(a) } : a \in Ids })
  \cup (UNION
    { { SetTag(a, b, c), RemoveTag(a, b, c), GetEvent(a, b), Redact(a, b, c),
        SendEvent(a, "m.sticker", c) } : a, b, c \in Ids })

Catalogue == ProgramRequests \cup OtherRequests

----------------------------------------------------------------------------
\* The place of the first of these segments, 0 where there is none.
FirstOf(path, segments) ==
  LET places == { i \in 1 .. Len(path) : path[i] \in segments }
  IN  IF places = {} THEN 0 ELSE CHOOSE i \in places : \A j \in places : i <= j

\* Room, user and event ids become blanks: the first of each kind, up to the
\* next slash.
Masked(path) == { FirstOf(path, { s \in {path[i] : i \in 1 .. Len(path)} : s.sigil = sigil })
                  : sigil \in {"!", "@", "$"} }

Mask(path) == [ i \in 1 .. Len(path) |-> IF i \in Masked(path) THEN Blank ELSE path[i] ]

\* The name ends after an event type of a message: a transaction id follows.
CutAfter(path) == FirstOf(path, {Word("m.room.message"), Word("m.reaction")})

EndpointName_NoCut(path) == Mask(path)

\* (The query, which is cut first, is no part of path.)
EndpointName(path) ==
  IF CutAfter(path) = 0 THEN Mask(path) ELSE Append(SubSeq(Mask(path), 1, CutAfter(path)), Blank)

Row(r) == <<r.method, EndpointName(r.path)>>

VARIABLE reported  \* the last request that was reported, as a set: none at first

Report(r) == reported' = {r}

EndpointsInit == reported = {}
EndpointsNext == \E r \in Catalogue : Report(r)

EndpointsSpec == EndpointsInit /\ [][EndpointsNext]_reported

----------------------------------------------------------------------------
\* Endpoints whose paths end in an id that is not masked.
Splitting ==
  { <<name, "">> : name \in { "set_tag", "remove_tag", "redact", "join_by_alias",
      "resolve_room_alias", "rename_device", "download", "thumbnail" } }
  \cup { <<"send", "m.sticker">> }

EndpointsTypeOK == reported \subseteq Catalogue

\* Goose's report has one row for each endpoint that the programs use, however
\* many rooms, users, events and transactions there were, and two endpoints of
\* the client never share one.
OneRowPerEndpoint ==
  \A s \in reported : \A r \in Catalogue :
    /\ Row(r) = Row(s) => r.endpoint = s.endpoint
    /\ r.endpoint = s.endpoint => Row(r) = Row(s) \/ r.endpoint \in Splitting
    /\ r \in ProgramRequests => r.endpoint \notin Splitting
============================================================================

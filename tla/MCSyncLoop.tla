------------------------------ MODULE MCSyncLoop ------------------------------
(* Values for the constants of SyncLoop.                                    *)
EXTENDS SyncLoop, TLC

Ev(section, room, type, flags) ==
  [section |-> section, room |-> room, type |-> type, state |-> "state" \in flags,
   redacted |-> "redacted" \in flags, notifies |-> "notifies" \in flags,
   bad |-> "bad" \in flags, garbled |-> {}]

Message == Ev("Timeline", 1, "message", {"notifies"})

\* A message and a receipt that refers to it; a state event that is redacted, in
\* both sections; a message whose content its typed handler cannot read, and
\* account data; a batch that cannot be read to its end.
MCLogs ==
  { << Ev("EphemeralRoomData", 1, "receipt", {}), Message >>,
    << Ev("State", 1, "member", {"redacted"}), Ev("Timeline", 1, "member", {"state"}) >>,
    << [Message EXCEPT !.garbled = {"OriginalMessageLike"}],
       Ev("GlobalAccountData", NoRoom, "message", {}) >>,
    << Message, Ev("Timeline", 1, "message", {"bad"}) >> }

Key(kind, type, room, needs) ==
  [kind |-> kind, type |-> type, room |-> room, needs |-> needs]

MCRegistrations ==
  { Key("Timeline", NoType, NoRoom, "nothing"),
    Key("OriginalMessageLike", "message", 1, "room"),
    Key("State", "member", NoRoom, "nothing"),
    Key("EphemeralRoomData", NoType, 1, "context"),
    Key("GlobalAccountData", "message", NoRoom, "nothing"),
    Key("GlobalAccountData", NoType, NoRoom, "room") }

MCLists == 1 :> "join"
MCEnvs == {{"errors"}, {"skips"}}
==============================================================================

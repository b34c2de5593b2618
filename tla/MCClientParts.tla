--------------------------- MODULE MCClientParts ---------------------------
EXTENDS ClientParts, TLC

CONSTANTS c1, c2, u1, u2, u3, r1, r2

\* No limit, one attempt, three, and what the builder combines.
MCConfigs ==
  { Default, ShortRetry, DisableRetry(Default), RetryTimeout(Default),
    ForceAuth(RetryTimeout(ShortRetry)) }

\* Two rooms with the same creator and guest, and a user the file lacks.
MCCreator == r1 :> u1 @@ r2 :> u1
MCInvitees == r1 :> {u2} @@ r2 :> {u2}

\* Four servers that may be named, one of them with two members, and an address.
MCServerName == [a1 |-> "a", a2 |-> "a", b1 |-> "b", c1 |-> "c", d1 |-> "d", i1 |-> "ip"]
MCPowers ==
  [a1 |-> {0, 50}, a2 |-> {0}, b1 |-> {0, 100}, c1 |-> {0, 50}, d1 |-> {0}, i1 |-> {100}]
=============================================================================

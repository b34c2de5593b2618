--------------------------- MODULE Endpoints_proofs ---------------------------
(* Proofs about the rows of goose's report (Endpoints), for every set of     *)
(* ids.  A row is worked out in three steps: the ids of a path that are      *)
(* masked, the name of a path of each length, and the endpoint of a name     *)
(* with, where an endpoint has but one row, the row of an endpoint.          *)
EXTENDS Endpoints, SequenceTheorems, TLAPS

----------------------------------------------------------------------------
(* What is masked.                                                           *)

\* The ids that are masked, and the words after which a name is cut.
Sigils == {"!", "@", "$"}
Cuts == {Word("m.room.message"), Word("m.reaction")}
Shown(s) == IF s.sigil \in Sigils THEN Blank ELSE s

\* A path with at most one id of each kind that is masked.
OneOfEach(path) ==
  \A i, j \in 1 .. Len(path) : path[i].sigil = path[j].sigil /\ path[i].sigil \in Sigils => i = j

LEMMA FirstOfOne ==
  ASSUME NEW path, NEW segments, Len(path) \in Nat, NEW i \in 1 .. Len(path), path[i] \in segments,
         \A j \in 1 .. Len(path) : path[j] \in segments => j = i
  PROVE  FirstOf(path, segments) = i
<1> DEFINE places == { j \in 1 .. Len(path) : path[j] \in segments }
<1>1. places = {i}
  OBVIOUS
<1>2. (CHOOSE k \in {i} : \A j \in {i} : k <= j) = i
  OBVIOUS
<1>3. QED
  BY <1>1, <1>2, Zenon DEF FirstOf

LEMMA FirstOfNone ==
  ASSUME NEW path, NEW segments, \A j \in 1 .. Len(path) : path[j] \notin segments
  PROVE  FirstOf(path, segments) = 0
BY DEF FirstOf

\* Of such a path every one of these ids is masked.
LEMMA MaskAll ==
  ASSUME NEW path, Len(path) \in Nat, OneOfEach(path)
  PROVE  Mask(path) = [i \in 1 .. Len(path) |-> Shown(path[i])]
<1> DEFINE With(g) == { s \in {path[i] : i \in 1 .. Len(path)} : s.sigil = g }
<1>1. ASSUME NEW i \in 1 .. Len(path), path[i].sigil \in Sigils PROVE i \in Masked(path)
  <2>1. path[i] \in With(path[i].sigil)
    OBVIOUS
  <2>2. \A j \in 1 .. Len(path) : path[j] \in With(path[i].sigil) => j = i
    BY <1>1 DEF OneOfEach
  <2>3. FirstOf(path, With(path[i].sigil)) = i
    BY <2>1, <2>2, FirstOfOne
  <2>4. QED
    BY <1>1, <2>3 DEF Masked, Sigils
<1>2. ASSUME NEW i \in 1 .. Len(path), i \in Masked(path) PROVE path[i].sigil \in Sigils
  <2>1. PICK g \in Sigils : FirstOf(path, With(g)) = i
    BY <1>2 DEF Masked, Sigils
  <2>2. CASE \E j \in 1 .. Len(path) : path[j] \in With(g)
    <3>1. PICK j \in 1 .. Len(path) : path[j] \in With(g)
      BY <2>2
    <3>2. \A k \in 1 .. Len(path) : path[k] \in With(g) => k = j
      BY <2>1, <3>1 DEF OneOfEach
    <3>3. FirstOf(path, With(g)) = j
      BY <3>1, <3>2, FirstOfOne
    <3>4. QED
      BY <2>1, <3>1, <3>3
  <2>3. CASE \A j \in 1 .. Len(path) : path[j] \notin With(g)
    <3>1. FirstOf(path, With(g)) = 0
      BY <2>3, FirstOfNone
    <3>2. QED
      BY <2>1, <3>1
  <2>4. QED
    BY <2>2, <2>3
<1>3. \A i \in 1 .. Len(path) : (IF i \in Masked(path) THEN Blank ELSE path[i]) = Shown(path[i])
  BY <1>1, <1>2 DEF Shown
<1>4. QED
  BY <1>3 DEF Mask

LEMMA NameUncut ==
  ASSUME NEW path, Len(path) \in Nat, OneOfEach(path), \A i \in 1 .. Len(path) : path[i] \notin Cuts
  PROVE  EndpointName(path) = [i \in 1 .. Len(path) |-> Shown(path[i])]
<1>1. CutAfter(path) = 0
  BY FirstOfNone DEF CutAfter, Cuts
<1>2. QED
  BY <1>1, MaskAll DEF EndpointName


----------------------------------------------------------------------------
(* The names of paths of up to six segments.                                 *)

Ordinary(s) == s \notin Cuts
Apart(s, t) == s.sigil \in Sigils => s.sigil # t.sigil

LEMMA SegmentFacts ==
  /\ \A t, s : Apart(Word(t), s) /\ Apart(Free(t), s)
  /\ \A t : Shown(Word(t)) = Word(t) /\ Shown(Free(t)) = Free(t)
  /\ \A a : Shown(Room(a)) = Blank /\ Shown(User(a)) = Blank /\ Shown(EventId(a)) = Blank
  /\ \A a, t : Apart(Room(a), Word(t)) /\ Apart(User(a), Word(t)) /\ Apart(EventId(a), Word(t))
  /\ \A a, t : Apart(Room(a), Free(t)) /\ Apart(User(a), Free(t)) /\ Apart(EventId(a), Free(t))
  /\ \A a, b : Apart(Room(a), User(b)) /\ Apart(Room(a), EventId(b)) /\ Apart(User(a), Room(b))
  /\ \A t : t \notin {"m.room.message", "m.reaction"} => Ordinary(Word(t))
  /\ \A a : Ordinary(Room(a)) /\ Ordinary(User(a)) /\ Ordinary(EventId(a)) /\ Ordinary(Free(a))
BY DEF Apart, Ordinary, Sigils, Shown, Word, Free, Room, User, EventId, Cuts

LEMMA Name1 ==
  ASSUME NEW s,
         Ordinary(s)
  PROVE  EndpointName(<<s>>) = <<Shown(s)>>
<1> DEFINE path == <<s>>
<1>1. Len(path) = 1 /\ path[1] = s
  OBVIOUS
<1> HIDE DEF path
<1>2. 1 .. Len(path) = {1}
  BY <1>1
<1>3. OneOfEach(path) /\ \A i \in 1 .. Len(path) : path[i] \notin Cuts
  BY <1>1, <1>2 DEF OneOfEach, Apart, Ordinary
<1>4. EndpointName(path) = [i \in 1 .. 1 |-> Shown(path[i])]
  BY <1>1, <1>3, NameUncut
<1>5. QED
  BY <1>1, <1>4 DEF path

LEMMA Name2 ==
  ASSUME NEW s, NEW t,
         Ordinary(s), Ordinary(t),
         Apart(s, t)
  PROVE  EndpointName(<<s, t>>) = <<Shown(s), Shown(t)>>
<1> DEFINE path == <<s, t>>
<1>1. Len(path) = 2 /\ path[1] = s /\ path[2] = t
  OBVIOUS
<1> HIDE DEF path
<1>2. 1 .. Len(path) = {1, 2}
  BY <1>1
<1>3. OneOfEach(path) /\ \A i \in 1 .. Len(path) : path[i] \notin Cuts
  BY <1>1, <1>2 DEF OneOfEach, Apart, Ordinary
<1>4. EndpointName(path) = [i \in 1 .. 2 |-> Shown(path[i])]
  BY <1>1, <1>3, NameUncut
<1>5. QED
  BY <1>1, <1>4 DEF path

LEMMA Name3 ==
  ASSUME NEW s, NEW t, NEW u,
         Ordinary(s), Ordinary(t), Ordinary(u),
         Apart(s, t), Apart(s, u), Apart(t, u)
  PROVE  EndpointName(<<s, t, u>>) = <<Shown(s), Shown(t), Shown(u)>>
<1> DEFINE path == <<s, t, u>>
<1>1. Len(path) = 3 /\ path[1] = s /\ path[2] = t /\ path[3] = u
  OBVIOUS
<1> HIDE DEF path
<1>2. 1 .. Len(path) = {1, 2, 3}
  BY <1>1
<1>3. OneOfEach(path) /\ \A i \in 1 .. Len(path) : path[i] \notin Cuts
  BY <1>1, <1>2 DEF OneOfEach, Apart, Ordinary
<1>4. EndpointName(path) = [i \in 1 .. 3 |-> Shown(path[i])]
  BY <1>1, <1>3, NameUncut
<1>5. QED
  BY <1>1, <1>4 DEF path

LEMMA Name4 ==
  ASSUME NEW s, NEW t, NEW u, NEW v,
         Ordinary(s), Ordinary(t), Ordinary(u), Ordinary(v),
         Apart(s, t), Apart(s, u), Apart(s, v), Apart(t, u), Apart(t, v),
         Apart(u, v)
  PROVE  EndpointName(<<s, t, u, v>>) = <<Shown(s), Shown(t), Shown(u), Shown(v)>>
<1> DEFINE path == <<s, t, u, v>>
<1>1. Len(path) = 4 /\ path[1] = s /\ path[2] = t /\ path[3] = u /\ path[4] = v
  OBVIOUS
<1> HIDE DEF path
<1>2. 1 .. Len(path) = {1, 2, 3, 4}
  BY <1>1
<1>3. OneOfEach(path) /\ \A i \in 1 .. Len(path) : path[i] \notin Cuts
  BY <1>1, <1>2 DEF OneOfEach, Apart, Ordinary
<1>4. EndpointName(path) = [i \in 1 .. 4 |-> Shown(path[i])]
  BY <1>1, <1>3, NameUncut
<1>5. QED
  BY <1>1, <1>4 DEF path

LEMMA Name5 ==
  ASSUME NEW s, NEW t, NEW u, NEW v, NEW w,
         Ordinary(s), Ordinary(t), Ordinary(u), Ordinary(v), Ordinary(w),
         Apart(s, t), Apart(s, u), Apart(s, v), Apart(s, w), Apart(t, u),
         Apart(t, v), Apart(t, w), Apart(u, v), Apart(u, w), Apart(v, w)
  PROVE  EndpointName(<<s, t, u, v, w>>) = <<Shown(s), Shown(t), Shown(u), Shown(v), Shown(w)>>
<1> DEFINE path == <<s, t, u, v, w>>
<1>1. Len(path) = 5 /\ path[1] = s /\ path[2] = t /\ path[3] = u /\ path[4] = v /\ path[5] = w
  OBVIOUS
<1> HIDE DEF path
<1>2. 1 .. Len(path) = {1, 2, 3, 4, 5}
  BY <1>1
<1>3. OneOfEach(path) /\ \A i \in 1 .. Len(path) : path[i] \notin Cuts
  BY <1>1, <1>2 DEF OneOfEach, Apart, Ordinary
<1>4. EndpointName(path) = [i \in 1 .. 5 |-> Shown(path[i])]
  BY <1>1, <1>3, NameUncut
<1>5. QED
  BY <1>1, <1>4 DEF path

LEMMA Name6 ==
  ASSUME NEW s, NEW t, NEW u, NEW v, NEW w, NEW x,
         Ordinary(s), Ordinary(t), Ordinary(u), Ordinary(v), Ordinary(w), Ordinary(x),
         Apart(s, t), Apart(s, u), Apart(s, v), Apart(s, w), Apart(s, x),
         Apart(t, u), Apart(t, v), Apart(t, w), Apart(t, x), Apart(u, v),
         Apart(u, w), Apart(u, x), Apart(v, w), Apart(v, x), Apart(w, x)
  PROVE  EndpointName(<<s, t, u, v, w, x>>)
           = <<Shown(s), Shown(t), Shown(u), Shown(v), Shown(w), Shown(x)>>
<1> DEFINE path == <<s, t, u, v, w, x>>
<1>1. /\ Len(path) = 6 /\ path[1] = s /\ path[2] = t /\ path[3] = u
      /\ path[4] = v /\ path[5] = w /\ path[6] = x
  OBVIOUS
<1> HIDE DEF path
<1>2. 1 .. Len(path) = {1, 2, 3, 4, 5, 6}
  BY <1>1
<1>3. OneOfEach(path) /\ \A i \in 1 .. Len(path) : path[i] \notin Cuts
  BY <1>1, <1>2 DEF OneOfEach, Apart, Ordinary
<1>4. EndpointName(path) = [i \in 1 .. 6 |-> Shown(path[i])]
  BY <1>1, <1>3, NameUncut
<1>5. QED
  BY <1>1, <1>4 DEF path

\* Of a path about a room.
LEMMA RoomName4 ==
  ASSUME NEW a, NEW t, NEW s, Ordinary(Word(t)), Ordinary(s), Apart(Room(a), s)
  PROVE  EndpointName(<<Word("rooms"), Room(a), Word(t), s>>)
           = <<Word("rooms"), Blank, Word(t), Shown(s)>>
<1>1. Ordinary(Word("rooms")) /\ Ordinary(Room(a))
  BY SegmentFacts
<1>2. /\ Apart(Word("rooms"), Room(a)) /\ Apart(Word("rooms"), Word(t)) /\ Apart(Word("rooms"), s)
      /\ Apart(Room(a), Word(t)) /\ Apart(Word(t), s)
  BY SegmentFacts
<1>3. EndpointName(<<Word("rooms"), Room(a), Word(t), s>>)
        = <<Shown(Word("rooms")), Shown(Room(a)), Shown(Word(t)), Shown(s)>>
  BY <1>1, <1>2, Name4
<1>4. QED
  BY <1>3, SegmentFacts

LEMMA RoomName5 ==
  ASSUME NEW a, NEW t, NEW s, NEW u, Ordinary(Word(t)), Ordinary(s), Ordinary(u),
         Apart(Room(a), s), Apart(Room(a), u), Apart(s, u)
  PROVE  EndpointName(<<Word("rooms"), Room(a), Word(t), s, u>>)
           = <<Word("rooms"), Blank, Word(t), Shown(s), Shown(u)>>
<1>1. Ordinary(Word("rooms")) /\ Ordinary(Room(a))
  BY SegmentFacts
<1>2. /\ Apart(Word("rooms"), Room(a)) /\ Apart(Word("rooms"), Word(t)) /\ Apart(Word("rooms"), s)
      /\ Apart(Word("rooms"), u) /\ Apart(Room(a), Word(t)) /\ Apart(Word(t), s) /\ Apart(Word(t), u)
  BY SegmentFacts
<1>3. EndpointName(<<Word("rooms"), Room(a), Word(t), s, u>>)
        = <<Shown(Word("rooms")), Shown(Room(a)), Shown(Word(t)), Shown(s), Shown(u)>>
  BY <1>1, <1>2, Name5
<1>4. QED
  BY <1>3, SegmentFacts

\* How the paths are put together.
LEMMA Joined ==
  ASSUME NEW S, NEW p \in Seq(S), NEW q \in Seq(S)
  PROVE  /\ p \o q \in Seq(S) /\ Len(p \o q) = Len(p) + Len(q)
         /\ \A i \in 1 .. Len(p) : (p \o q)[i] = p[i]
         /\ \A i \in 1 .. Len(q) : (p \o q)[Len(p) + i] = q[i]
<1>1. Len(p) \in Nat /\ Len(q) \in Nat
  OBVIOUS
<1>2. /\ p \o q \in Seq(S) /\ Len(p \o q) = Len(p) + Len(q)
      /\ \A i \in 1 .. Len(p) + Len(q) : (p \o q)[i] = IF i <= Len(p) THEN p[i] ELSE q[i - Len(p)]
  BY ConcatProperties
<1>3. \A i \in 1 .. Len(q) :
        Len(p) + i \in 1 .. Len(p) + Len(q) /\ ~(Len(p) + i <= Len(p)) /\ Len(p) + i - Len(p) = i
  BY <1>1
<1>4. \A i \in 1 .. Len(p) : i \in 1 .. Len(p) + Len(q) /\ i <= Len(p)
  BY <1>1
<1>5. QED
  BY <1>2, <1>3, <1>4

LEMMA Concat32 ==
  ASSUME NEW a, NEW b, NEW c, NEW d, NEW e
  PROVE  <<a, b, c>> \o <<d, e>> = <<a, b, c, d, e>>
<1> DEFINE S == {a, b, c, d, e}
           left == <<a, b, c>>
           right == <<d, e>>
           all == <<a, b, c, d, e>>
<1>1. left \in Seq(S) /\ right \in Seq(S) /\ all \in Seq(S)
  OBVIOUS
<1>2. /\ Len(left) = 3 /\ Len(right) = 2 /\ Len(all) = 5
      /\ left[1] = a /\ left[2] = b /\ left[3] = c
      /\ right[1] = d /\ right[2] = e
      /\ all[1] = a /\ all[2] = b /\ all[3] = c /\ all[4] = d /\ all[5] = e
  OBVIOUS
<1> HIDE DEF S, left, right, all
<1>3. /\ left \o right \in Seq(S) /\ Len(left \o right) = Len(left) + Len(right)
      /\ \A i \in 1 .. Len(left) : (left \o right)[i] = left[i]
      /\ \A i \in 1 .. Len(right) : (left \o right)[Len(left) + i] = right[i]
  BY <1>1, Joined
<1>4. Len(left \o right) = 5 /\ \A i \in 1 .. 5 : (left \o right)[i] = all[i]
  BY <1>2, <1>3
<1>5. left \o right = all
  BY <1>1, <1>2, <1>3, <1>4, SeqEqual
<1>6. QED
  BY <1>5 DEF left, right, all

LEMMA Concat33 ==
  ASSUME NEW a, NEW b, NEW c, NEW d, NEW e, NEW f
  PROVE  <<a, b, c>> \o <<d, e, f>> = <<a, b, c, d, e, f>>
<1> DEFINE S == {a, b, c, d, e, f}
           left == <<a, b, c>>
           right == <<d, e, f>>
           all == <<a, b, c, d, e, f>>
<1>1. left \in Seq(S) /\ right \in Seq(S) /\ all \in Seq(S)
  OBVIOUS
<1>2. /\ Len(left) = 3 /\ Len(right) = 3 /\ Len(all) = 6
      /\ left[1] = a /\ left[2] = b /\ left[3] = c
      /\ right[1] = d /\ right[2] = e /\ right[3] = f
      /\ all[1] = a /\ all[2] = b /\ all[3] = c /\ all[4] = d /\ all[5] = e /\ all[6] = f
  OBVIOUS
<1> HIDE DEF S, left, right, all
<1>3. /\ left \o right \in Seq(S) /\ Len(left \o right) = Len(left) + Len(right)
      /\ \A i \in 1 .. Len(left) : (left \o right)[i] = left[i]
      /\ \A i \in 1 .. Len(right) : (left \o right)[Len(left) + i] = right[i]
  BY <1>1, Joined
<1>4. Len(left \o right) = 6 /\ \A i \in 1 .. 6 : (left \o right)[i] = all[i]
  BY <1>2, <1>3
<1>5. left \o right = all
  BY <1>1, <1>2, <1>3, <1>4, SeqEqual
<1>6. QED
  BY <1>5 DEF left, right, all

LEMMA Append31 ==
  ASSUME NEW a, NEW b, NEW c, NEW d
  PROVE  Append(<<a, b, c>>, d) = <<a, b, c, d>>
<1> DEFINE S == {a, b, c, d}
           left == <<a, b, c>>
           all == <<a, b, c, d>>
<1>1. left \in Seq(S) /\ all \in Seq(S) /\ d \in S
  OBVIOUS
<1>2. /\ Len(left) = 3 /\ Len(all) = 4
      /\ left[1] = a /\ left[2] = b /\ left[3] = c
      /\ all[1] = a /\ all[2] = b /\ all[3] = c /\ all[4] = d
  OBVIOUS
<1> HIDE DEF S, left, all
<1>3. /\ Append(left, d) \in Seq(S) /\ Len(Append(left, d)) = Len(left) + 1
      /\ \A i \in 1 .. Len(left) : Append(left, d)[i] = left[i]
      /\ Append(left, d)[Len(left) + 1] = d
  BY <1>1, AppendProperties
<1>4. \A i \in 1 .. 4 : Append(left, d)[i] = all[i]
  BY <1>2, <1>3
<1>5. Append(left, d) = all
  BY <1>1, <1>2, <1>3, <1>4, SeqEqual
<1>6. QED
  BY <1>5 DEF left, all

LEMMA Append41 ==
  ASSUME NEW a, NEW b, NEW c, NEW d, NEW e
  PROVE  Append(<<a, b, c, d>>, e) = <<a, b, c, d, e>>
<1> DEFINE S == {a, b, c, d, e}
           left == <<a, b, c, d>>
           all == <<a, b, c, d, e>>
<1>1. left \in Seq(S) /\ all \in Seq(S) /\ e \in S
  OBVIOUS
<1>2. /\ Len(left) = 4 /\ Len(all) = 5
      /\ left[1] = a /\ left[2] = b /\ left[3] = c /\ left[4] = d
      /\ all[1] = a /\ all[2] = b /\ all[3] = c /\ all[4] = d /\ all[5] = e
  OBVIOUS
<1> HIDE DEF S, left, all
<1>3. /\ Append(left, e) \in Seq(S) /\ Len(Append(left, e)) = Len(left) + 1
      /\ \A i \in 1 .. Len(left) : Append(left, e)[i] = left[i]
      /\ Append(left, e)[Len(left) + 1] = e
  BY <1>1, AppendProperties
<1>4. \A i \in 1 .. 5 : Append(left, e)[i] = all[i]
  BY <1>2, <1>3
<1>5. Append(left, e) = all
  BY <1>1, <1>2, <1>3, <1>4, SeqEqual
<1>6. QED
  BY <1>5 DEF left, all

\* A message's name ends after its type.
LEMMA NameCut ==
  ASSUME NEW r, NEW type \in {"m.room.message", "m.reaction"}, NEW txn
  PROVE  EndpointName(<<Word("rooms"), Room(r), Word("send"), Word(type), Free(txn)>>)
           = <<Word("rooms"), Blank, Word("send"), Word(type), Blank>>
<1> DEFINE path == <<Word("rooms"), Room(r), Word("send"), Word(type), Free(txn)>>
           name == <<Word("rooms"), Blank, Word("send"), Word(type), Free(txn)>>
           cut == <<Word("rooms"), Blank, Word("send"), Word(type)>>
<1>1. /\ Len(path) = 5 /\ path[1] = Word("rooms") /\ path[2] = Room(r) /\ path[3] = Word("send")
      /\ path[4] = Word(type) /\ path[5] = Free(txn)
      /\ Len(name) = 5 /\ name[1] = Word("rooms") /\ name[2] = Blank /\ name[3] = Word("send")
      /\ name[4] = Word(type) /\ name[5] = Free(txn) /\ DOMAIN name = 1 .. 5
      /\ Len(cut) = 4 /\ cut[1] = Word("rooms") /\ cut[2] = Blank /\ cut[3] = Word("send")
      /\ cut[4] = Word(type)
  OBVIOUS
<1>2. /\ cut \in Seq({cut[1], cut[2], cut[3], cut[4]})
      /\ name = [i \in 1 .. 5 |-> name[i]]
  OBVIOUS
<1>3. Append(cut, Blank) = <<Word("rooms"), Blank, Word("send"), Word(type), Blank>>
  BY Append41
<1> HIDE DEF path, name, cut
<1>4. 1 .. Len(path) = {1, 2, 3, 4, 5}
  BY <1>1
<1>5. /\ Word(type) \in Cuts /\ Word("rooms") \notin Cuts /\ Word("send") \notin Cuts
      /\ Room(r) \notin Cuts /\ Free(txn) \notin Cuts
  BY DEF Cuts, Word, Room, Free
<1>6. CutAfter(path) = 4
  <2>1. \A j \in 1 .. Len(path) : path[j] \in Cuts => j = 4
    BY <1>1, <1>4, <1>5
  <2>2. FirstOf(path, Cuts) = 4
    BY <1>1, <1>5, <2>1, FirstOfOne
  <2>3. QED
    BY <2>2 DEF CutAfter, Cuts
<1>7. OneOfEach(path)
  <2>1. \A t : Word(t).sigil = "" /\ Room(t).sigil = "!" /\ Free(t).sigil = "?"
    BY DEF Word, Room, Free
  <2>2. /\ path[1].sigil = "" /\ path[2].sigil = "!" /\ path[3].sigil = ""
        /\ path[4].sigil = "" /\ path[5].sigil = "?"
    BY <1>1, <2>1
  <2>3. \A i \in 1 .. Len(path) : path[i].sigil \in Sigils => i = 2
    BY <1>4, <2>2 DEF Sigils
  <2>4. QED
    BY <2>3 DEF OneOfEach
<1>8. Mask(path) = name
  <2>1. Len(path) = 5
    BY <1>1
  <2>2. Mask(path) = [i \in 1 .. 5 |-> Shown(path[i])]
    <3>1. Len(path) \in Nat
      BY <2>1
    <3>2. Mask(path) = [i \in 1 .. Len(path) |-> Shown(path[i])]
      BY <1>7, <3>1, MaskAll
    <3>3. QED
      BY <2>1, <3>2
  <2>3. \A i \in 1 .. 5 : Shown(path[i]) = name[i]
    BY <1>1, <1>4, SegmentFacts
  <2>4. QED
    BY <1>2, <2>2, <2>3
<1>9. SubSeq(name, 1, 4) = cut
  <2> DEFINE S == {Word("rooms"), Blank, Word("send"), Word(type)}
  <2>1. \A i \in 1 .. 4 : name[i] \in S
    BY <1>1
  <2>2. /\ SubSeq(name, 1, 4) \in Seq(S) /\ Len(SubSeq(name, 1, 4)) = 4
        /\ \A i \in 1 .. 4 : SubSeq(name, 1, 4)[i] = name[i]
    BY <2>1, SubSeqProperties
  <2>3. cut \in Seq(S) /\ \A i \in 1 .. 4 : cut[i] = name[i]
    BY <1>1, <1>2
  <2>4. QED
    BY <1>1, <2>2, <2>3, SeqEqual
<1>10. EndpointName(path) = Append(cut, Blank)
  <2>1. CutAfter(path) # 0
    BY <1>6
  <2>2. QED
    BY <1>6, <1>8, <1>9, <2>1, Zenon DEF EndpointName
<1>11. QED
  BY <1>3, <1>10 DEF path

----------------------------------------------------------------------------
(* The endpoint of a name, and the row of an endpoint.                       *)

\* The endpoint of a method and a name.
EndpointOf(method, name) ==
  LET first == name[1].text
      action == name[3].text
      detail == name[4].text
      plain(text) == <<text, "">>
      byMethod(get, other) == plain(IF method = "GET" THEN get ELSE other)
  IN  CASE first = "rooms" ->
             IF action = "send" \/ (action = "state" /\ method = "PUT") THEN <<action, detail>>
             ELSE IF action = "state" THEN plain("get_encryption")
             ELSE plain(action)
        [] first = "profile" ->
             IF Len(name) = 2 THEN plain("get_profile")
             ELSE IF action = "displayname" THEN byMethod("get_display_name", "set_display_name")
             ELSE byMethod("get_avatar_url", "set_avatar_url")
        [] first = "account" ->
             IF method = "GET" THEN plain(IF name[2].text = "whoami" THEN "whoami" ELSE "get_3pids")
             ELSE IF Len(name) = 3 THEN <<"3pid", action>>
             ELSE <<"account", name[2].text>>
        [] first = "user" ->
             IF action = "account_data" THEN <<action, detail>>
             ELSE IF action = "filter" THEN plain("filter")
             ELSE plain(IF method = "PUT" THEN "set_tag" ELSE "remove_tag")
        [] first = "login" -> byMethod("get_login_types", "login")
        [] first = "publicRooms" -> byMethod("public_rooms", "public_rooms_filtered")
        [] first = "devices" -> byMethod("devices", "rename_device")
        [] first = "createRoom" -> plain("create_room")
        [] first = "join" -> plain("join_by_alias")
        [] first = "directory" -> plain("resolve_room_alias")
        [] first = "user_directory" -> plain("search_users")
        [] first = "pushers" -> plain("set_pusher")
        [] first = ".well-known" -> plain("well_known")
        [] OTHER -> plain(first)

\* The row of an endpoint that has but one.
RowOf(endpoint) ==
  LET name == endpoint[1]
      type == endpoint[2]
      inRoom == <<Word("rooms"), Blank, Word(name)>>
      ofProfile(part) == <<Word("profile"), Blank, Word(part)>>
  IN  CASE name \in {"versions", "sync", "devices"} -> <<"GET", <<Word(name)>>>>
        [] name \in {"login", "register", "refresh", "logout", "delete_devices", "upload"} ->
             <<"POST", <<Word(name)>>>>
        [] name = "create_room" -> <<"POST", <<Word("createRoom")>>>>
        [] name = "get_login_types" -> <<"GET", <<Word("login")>>>>
        [] name = "public_rooms" -> <<"GET", <<Word("publicRooms")>>>>
        [] name = "public_rooms_filtered" -> <<"POST", <<Word("publicRooms")>>>>
        [] name = "search_users" -> <<"POST", <<Word("user_directory"), Word("search")>>>>
        [] name = "set_pusher" -> <<"POST", <<Word("pushers"), Word("set")>>>>
        [] name = "well_known" -> <<"GET", <<Word(".well-known"), Word("matrix")>>>>
        [] name = "account" -> <<"POST", <<Word("account"), Word(type)>>>>
        [] name = "whoami" -> <<"GET", <<Word("account"), Word("whoami")>>>>
        [] name = "get_3pids" -> <<"GET", <<Word("account"), Word("3pid")>>>>
        [] name = "3pid" -> <<"POST", <<Word("account"), Word("3pid"), Word(type)>>>>
        [] name = "get_profile" -> <<"GET", <<Word("profile"), Blank>>>>
        [] name = "get_display_name" -> <<"GET", ofProfile("displayname")>>
        [] name = "set_display_name" -> <<"PUT", ofProfile("displayname")>>
        [] name = "get_avatar_url" -> <<"GET", ofProfile("avatar_url")>>
        [] name = "set_avatar_url" -> <<"PUT", ofProfile("avatar_url")>>
        [] name = "filter" -> <<"POST", <<Word("user"), Blank, Word("filter")>>>>
        [] name = "account_data" ->
             <<"PUT", <<Word("user"), Blank, Word("account_data"), Word(type)>>>>
        [] name \in {"messages", "members"} -> <<"GET", inRoom>>
        [] name = "typing" -> <<"PUT", <<Word("rooms"), Blank, Word("typing"), Blank>>>>
        [] name = "event" -> <<"GET", <<Word("rooms"), Blank, Word("event"), Blank>>>>
        [] name = "receipt" ->
             <<"POST", <<Word("rooms"), Blank, Word("receipt"), Word("m.read"), Blank>>>>
        [] name = "send" -> <<"PUT", <<Word("rooms"), Blank, Word("send"), Word(type), Blank>>>>
        [] name = "state" ->
             <<"PUT", <<Word("rooms"), Blank, Word("state"), Word(type), Word("")>>>>
        [] name = "get_encryption" ->
             <<"GET", <<Word("rooms"), Blank, Word("state"), Word("m.room.encryption"), Word("")>>>>
        [] OTHER -> <<"POST", inRoom>>

\* The request's row tells its endpoint, and its endpoint the row if it is one
\* that has but one.
Told(r) ==
  /\ EndpointOf(r.method, EndpointName(r.path)) = r.endpoint
  /\ r.endpoint \in Splitting \/ Row(r) = RowOf(r.endpoint)

LEMMA ToldOf ==
  ASSUME NEW name, NEW type, NEW method, NEW path, NEW shown, EndpointName(path) = shown,
         EndpointOf(method, shown) = <<name, type>>,
         <<name, type>> \in Splitting \/ RowOf(<<name, type>>) = <<method, shown>>
  PROVE  Told(RequestOf(name, type, method, path))
<1> DEFINE r == RequestOf(name, type, method, path)
<1>1. r.endpoint = <<name, type>> /\ r.method = method /\ r.path = path
  BY DEF RequestOf
<1> HIDE DEF r
<1>2. Told(r)
  BY <1>1, Zenon DEF Told, Row
<1>3. QED
  BY <1>2 DEF r

LEMMA WordsTold ==
  \A r \in { Versions, Login, Register, Sync, RefreshToken, CreateRoom, PublicRooms,
             PublicRoomsFiltered, GetLoginTypes, Logout, Devices, DeleteDevices, Upload } : Told(r)
<1> DEFINE Rows ==
      { <<"GET", "versions", "versions">>, <<"POST", "login", "login">>,
        <<"POST", "register", "register">>, <<"GET", "sync", "sync">>,
        <<"POST", "refresh", "refresh">>, <<"POST", "create_room", "createRoom">>,
        <<"GET", "public_rooms", "publicRooms">>, <<"POST", "public_rooms_filtered", "publicRooms">>,
        <<"GET", "get_login_types", "login">>, <<"POST", "logout", "logout">>,
        <<"GET", "devices", "devices">>, <<"POST", "delete_devices", "delete_devices">>,
        <<"POST", "upload", "upload">> }
<1>1. ASSUME NEW method, NEW name, NEW text, <<method, name, text>> \in Rows
      PROVE  Told(Request(name, method, Words(text)))
  <2>1. EndpointName(Words(text)) = <<Word(text)>>
    BY <1>1, Name1, SegmentFacts DEF Words
  <2>2. EndpointOf(method, <<Word(text)>>) = <<name, "">>
    BY <1>1 DEF EndpointOf, Word
  <2>3. RowOf(<<name, "">>) = <<method, <<Word(text)>>>>
    BY <1>1 DEF RowOf
  <2>4. QED
    BY <2>1, <2>2, <2>3, ToldOf DEF Request
<1>2. QED
  BY <1>1 DEF Versions, Login, Register, Sync, RefreshToken, CreateRoom, PublicRooms,
     PublicRoomsFiltered, GetLoginTypes, Logout, Devices, DeleteDevices, Upload

LEMMA InRoomTold ==
  \A a : \A r \in { Join(a), Leave(a), PaginateRoom(a), BanUser(a), KickUser(a), InviteUserById(a),
                    InviteUserBy3pid(a), Forget(a), GetMembers(a), SendMultipleReceipts(a) } : Told(r)
<1> DEFINE Rows ==
      { <<"POST", "join">>, <<"POST", "leave">>, <<"GET", "messages">>, <<"POST", "ban">>,
        <<"POST", "kick">>, <<"POST", "invite">>, <<"POST", "forget">>, <<"GET", "members">>,
        <<"POST", "read_markers">> }
<1>1. ASSUME NEW a, NEW method, NEW name, <<method, name>> \in Rows
      PROVE  Told(Request(name, method, InRoom(a, name)))
  <2>1. EndpointName(InRoom(a, name)) = <<Word("rooms"), Blank, Word(name)>>
    BY <1>1, Name3, SegmentFacts DEF InRoom
  <2>2. EndpointOf(method, <<Word("rooms"), Blank, Word(name)>>) = <<name, "">>
    BY <1>1 DEF EndpointOf, Word
  <2>3. RowOf(<<name, "">>) = <<method, <<Word("rooms"), Blank, Word(name)>>>>
    BY <1>1 DEF RowOf
  <2>4. QED
    BY <2>1, <2>2, <2>3, ToldOf DEF Request
<1>2. QED
  BY <1>1 DEF Join, Leave, PaginateRoom, BanUser, KickUser, InviteUserById, InviteUserBy3pid,
     Forget, GetMembers, SendMultipleReceipts

\* Requests about a room that name a user, an event or a type as well.
LEMMA RoomDetailTold ==
  \A a, b, c : \A r \in { Typing(a, b), GetEvent(a, b), Receipt(a, b), SendText(a, b),
                          SendReaction(a, b), SendEvent(a, "m.sticker", c), Redact(a, b, c) } : Told(r)
<1> SUFFICES ASSUME NEW a, NEW b, NEW c
             PROVE  \A r \in { Typing(a, b), GetEvent(a, b), Receipt(a, b), SendText(a, b),
                               SendReaction(a, b), SendEvent(a, "m.sticker", c),
                               Redact(a, b, c) } : Told(r)
  OBVIOUS
<1>1. Told(Typing(a, b))
  <2>1. Append(InRoom(a, "typing"), User(b))
          = <<Word("rooms"), Room(a), Word("typing"), User(b)>>
    BY Append31 DEF InRoom
  <2>2. EndpointName(Append(InRoom(a, "typing"), User(b)))
          = <<Word("rooms"), Blank, Word("typing"), Blank>>
    <3>1. EndpointName(<<Word("rooms"), Room(a), Word("typing"), User(b)>>)
            = <<Word("rooms"), Blank, Word("typing"), Blank>>
      BY RoomName4, SegmentFacts
    <3>2. QED
      BY <2>1, <3>1
  <2>3. EndpointOf("PUT", <<Word("rooms"), Blank, Word("typing"), Blank>>) = <<"typing", "">>
    BY DEF EndpointOf, Word
  <2>4. RowOf(<<"typing", "">>) = <<"PUT", <<Word("rooms"), Blank, Word("typing"), Blank>>>>
    BY DEF RowOf
  <2>5. QED
    BY <2>2, <2>3, <2>4, ToldOf DEF Typing, Request
<1>2. Told(GetEvent(a, b))
  <2>1. Append(InRoom(a, "event"), EventId(b))
          = <<Word("rooms"), Room(a), Word("event"), EventId(b)>>
    BY Append31 DEF InRoom
  <2>2. EndpointName(Append(InRoom(a, "event"), EventId(b)))
          = <<Word("rooms"), Blank, Word("event"), Blank>>
    <3>1. EndpointName(<<Word("rooms"), Room(a), Word("event"), EventId(b)>>)
            = <<Word("rooms"), Blank, Word("event"), Blank>>
      BY RoomName4, SegmentFacts
    <3>2. QED
      BY <2>1, <3>1
  <2>3. EndpointOf("GET", <<Word("rooms"), Blank, Word("event"), Blank>>) = <<"event", "">>
    BY DEF EndpointOf, Word
  <2>4. RowOf(<<"event", "">>) = <<"GET", <<Word("rooms"), Blank, Word("event"), Blank>>>>
    BY DEF RowOf
  <2>5. QED
    BY <2>2, <2>3, <2>4, ToldOf DEF GetEvent, Request
<1>3. Told(Receipt(a, b))
  <2>1. InRoom(a, "receipt") \o <<Word("m.read"), EventId(b)>>
          = <<Word("rooms"), Room(a), Word("receipt"), Word("m.read"), EventId(b)>>
    BY Concat32 DEF InRoom
  <2>2. EndpointName(InRoom(a, "receipt") \o <<Word("m.read"), EventId(b)>>)
          = <<Word("rooms"), Blank, Word("receipt"), Word("m.read"), Blank>>
    <3>1. EndpointName(<<Word("rooms"), Room(a), Word("receipt"), Word("m.read"), EventId(b)>>)
            = <<Word("rooms"), Blank, Word("receipt"), Word("m.read"), Blank>>
      BY RoomName5, SegmentFacts
    <3>2. QED
      BY <2>1, <3>1
  <2>3. EndpointOf("POST", <<Word("rooms"), Blank, Word("receipt"), Word("m.read"), Blank>>)
          = <<"receipt", "">>
    BY DEF EndpointOf, Word
  <2>4. RowOf(<<"receipt", "">>)
          = <<"POST", <<Word("rooms"), Blank, Word("receipt"), Word("m.read"), Blank>>>>
    BY DEF RowOf
  <2>5. QED
    BY <2>2, <2>3, <2>4, ToldOf DEF Receipt, Request
<1>4. ASSUME NEW type PROVE InRoom(a, "send") \o <<Word(type), Free(b)>>
                              = <<Word("rooms"), Room(a), Word("send"), Word(type), Free(b)>>
  BY Concat32 DEF InRoom
<1>5. ASSUME NEW type \in {"m.room.message", "m.reaction"} PROVE Told(SendEvent(a, type, b))
  <2>1. EndpointName(InRoom(a, "send") \o <<Word(type), Free(b)>>)
          = <<Word("rooms"), Blank, Word("send"), Word(type), Blank>>
    BY <1>4, NameCut
  <2>2. EndpointOf("PUT", <<Word("rooms"), Blank, Word("send"), Word(type), Blank>>) = <<"send", type>>
    BY DEF EndpointOf, Word
  <2>3. RowOf(<<"send", type>>)
          = <<"PUT", <<Word("rooms"), Blank, Word("send"), Word(type), Blank>>>>
    BY DEF RowOf
  <2>4. QED
    BY <2>1, <2>2, <2>3, ToldOf DEF SendEvent
<1>6. Told(SendEvent(a, "m.sticker", c))
  <2>1. InRoom(a, "send") \o <<Word("m.sticker"), Free(c)>>
          = <<Word("rooms"), Room(a), Word("send"), Word("m.sticker"), Free(c)>>
    BY Concat32 DEF InRoom
  <2>2. EndpointName(InRoom(a, "send") \o <<Word("m.sticker"), Free(c)>>)
          = <<Word("rooms"), Blank, Word("send"), Word("m.sticker"), Free(c)>>
    <3>1. EndpointName(<<Word("rooms"), Room(a), Word("send"), Word("m.sticker"), Free(c)>>)
            = <<Word("rooms"), Blank, Word("send"), Word("m.sticker"), Free(c)>>
      BY RoomName5, SegmentFacts
    <3>2. QED
      BY <2>1, <3>1
  <2>3. EndpointOf("PUT", <<Word("rooms"), Blank, Word("send"), Word("m.sticker"), Free(c)>>)
          = <<"send", "m.sticker">>
    BY DEF EndpointOf, Word
  <2>4. <<"send", "m.sticker">> \in Splitting
    BY DEF Splitting
  <2>5. QED
    BY <2>2, <2>3, <2>4, ToldOf DEF SendEvent
<1>7. Told(Redact(a, b, c))
  <2>1. InRoom(a, "redact") \o <<EventId(b), Free(c)>>
          = <<Word("rooms"), Room(a), Word("redact"), EventId(b), Free(c)>>
    BY Concat32 DEF InRoom
  <2>2. EndpointName(InRoom(a, "redact") \o <<EventId(b), Free(c)>>)
          = <<Word("rooms"), Blank, Word("redact"), Blank, Free(c)>>
    <3>1. EndpointName(<<Word("rooms"), Room(a), Word("redact"), EventId(b), Free(c)>>)
            = <<Word("rooms"), Blank, Word("redact"), Blank, Free(c)>>
      BY RoomName5, SegmentFacts
    <3>2. QED
      BY <2>1, <3>1
  <2>3. EndpointOf("PUT", <<Word("rooms"), Blank, Word("redact"), Blank, Free(c)>>) = <<"redact", "">>
    BY DEF EndpointOf, Word
  <2>4. <<"redact", "">> \in Splitting
    BY DEF Splitting
  <2>5. QED
    BY <2>2, <2>3, <2>4, ToldOf DEF Redact, Request
<1>8. QED
  BY <1>1, <1>2, <1>3, <1>5, <1>6, <1>7 DEF SendText, SendReaction

LEMMA StateTold ==
  \A a : \A r \in { SetName(a), SetRoomTopic(a), SetRoomAvatar(a), GetEncryption(a) } : Told(r)
<1> DEFINE Rows ==
      { <<"PUT", "state", "m.room.name", "m.room.name">>,
        <<"PUT", "state", "m.room.topic", "m.room.topic">>,
        <<"PUT", "state", "m.room.avatar", "m.room.avatar">>,
        <<"GET", "get_encryption", "", "m.room.encryption">> }
<1>1. ASSUME NEW a, NEW method, NEW name, NEW type, NEW text, <<method, name, type, text>> \in Rows
      PROVE  Told(RequestOf(name, type, method, StateEvent(a, text, Word(""))))
  <2>1. StateEvent(a, text, Word(""))
          = <<Word("rooms"), Room(a), Word("state"), Word(text), Word("")>>
    BY Concat32 DEF StateEvent, InRoom
  <2>2. EndpointName(StateEvent(a, text, Word("")))
          = <<Word("rooms"), Blank, Word("state"), Word(text), Word("")>>
    <3> DEFINE key == Word("")
    <3>1. Ordinary(key) /\ Apart(Room(a), key) /\ Apart(Word(text), key) /\ Shown(key) = key
      BY SegmentFacts
    <3> HIDE DEF key
    <3>2. Ordinary(Word("state")) /\ Ordinary(Word(text)) /\ Apart(Room(a), Word(text))
      BY <1>1, SegmentFacts
    <3>3. EndpointName(<<Word("rooms"), Room(a), Word("state"), Word(text), key>>)
            = <<Word("rooms"), Blank, Word("state"), Shown(Word(text)), Shown(key)>>
      BY <3>1, <3>2, RoomName5
    <3>4. Shown(Word(text)) = Word(text)
      BY SegmentFacts
    <3>5. QED
      BY <2>1, <3>1, <3>3, <3>4 DEF key
  <2>3. EndpointOf(method, <<Word("rooms"), Blank, Word("state"), Word(text), Word("")>>)
          = <<name, type>>
    BY <1>1 DEF EndpointOf, Word
  <2>4. RowOf(<<name, type>>)
          = <<method, <<Word("rooms"), Blank, Word("state"), Word(text), Word("")>>>>
    BY <1>1 DEF RowOf
  <2>5. QED
    BY <2>2, <2>3, <2>4, ToldOf
<1>2. <<"PUT", "state", "m.room.name", "m.room.name">> \in Rows
  OBVIOUS
<1>3. <<"PUT", "state", "m.room.topic", "m.room.topic">> \in Rows
  OBVIOUS
<1>4. <<"PUT", "state", "m.room.avatar", "m.room.avatar">> \in Rows
  OBVIOUS
<1>5. <<"GET", "get_encryption", "", "m.room.encryption">> \in Rows
  OBVIOUS
<1> HIDE DEF Rows
<1>6. \A a : Told(SetName(a))
  BY <1>1, <1>2, Zenon DEF SetName, SendStateEvent
<1>7. \A a : Told(SetRoomTopic(a))
  BY <1>1, <1>3, Zenon DEF SetRoomTopic, SendStateEvent
<1>8. \A a : Told(SetRoomAvatar(a))
  BY <1>1, <1>4, Zenon DEF SetRoomAvatar, SendStateEvent
<1>9. \A a : Told(GetEncryption(a))
  BY <1>1, <1>5, Zenon DEF GetEncryption, Request
<1>10. QED
  BY <1>6, <1>7, <1>8, <1>9

\* The endpoint of a row about a profile, an account or a user.
ProfileEndpoint(method, part) ==
  IF part = "displayname"
  THEN <<IF method = "GET" THEN "get_display_name" ELSE "set_display_name", "">>
  ELSE <<IF method = "GET" THEN "get_avatar_url" ELSE "set_avatar_url", "">>

AccountEndpoint(method, part) ==
  IF method = "GET" THEN <<IF part = "whoami" THEN "whoami" ELSE "get_3pids", "">>
  ELSE <<"account", part>>

UserEndpoint(method, part) ==
  IF part = "filter" THEN <<"filter", "">>
  ELSE <<IF method = "PUT" THEN "set_tag" ELSE "remove_tag", "">>

LEMMA EndpointOfProfile ==
  ASSUME NEW method, NEW row, row[1].text = "profile", Len(row) = 3
  PROVE  EndpointOf(method, row) = ProfileEndpoint(method, row[3].text)
BY DEF EndpointOf, ProfileEndpoint

LEMMA EndpointOfAccount ==
  ASSUME NEW method, NEW row, row[1].text = "account", Len(row) = 2
  PROVE  EndpointOf(method, row) = AccountEndpoint(method, row[2].text)
BY DEF EndpointOf, AccountEndpoint

LEMMA EndpointOfUser ==
  ASSUME NEW method, NEW row, row[1].text = "user", row[3].text # "account_data"
  PROVE  EndpointOf(method, row) = UserEndpoint(method, row[3].text)
BY DEF EndpointOf, UserEndpoint

LEMMA ProfileTold ==
  \A a : \A r \in { SetDisplayName(a), GetDisplayName(a), GetAvatarUrl(a), SetAvatarUrl(a),
                    AccountGetProfile(a), GetProfile(a) } : Told(r)
<1> DEFINE Rows ==
      { <<"GET", "get_display_name", "displayname">>, <<"PUT", "set_display_name", "displayname">>,
        <<"GET", "get_avatar_url", "avatar_url">>, <<"PUT", "set_avatar_url", "avatar_url">> }
<1>1. ASSUME NEW a, NEW method, NEW name, NEW part, <<method, name, part>> \in Rows
      PROVE  Told(Request(name, method, <<Word("profile"), User(a), Word(part)>>))
  <2>1. EndpointName(<<Word("profile"), User(a), Word(part)>>) = <<Word("profile"), Blank, Word(part)>>
    BY <1>1, Name3, SegmentFacts
  <2>2. EndpointOf(method, <<Word("profile"), Blank, Word(part)>>) = <<name, "">>
    <3> DEFINE row == <<Word("profile"), Blank, Word(part)>>
    <3>1. row[1].text = "profile" /\ row[3].text = part /\ Len(row) = 3
      BY DEF Word
    <3> HIDE DEF row
    <3>2. EndpointOf(method, row) = ProfileEndpoint(method, part)
      BY <3>1, EndpointOfProfile
    <3>3. ProfileEndpoint(method, part) = <<name, "">>
      BY <1>1 DEF ProfileEndpoint
    <3>4. QED
      BY <3>2, <3>3 DEF row
  <2>3. RowOf(<<name, "">>) = <<method, <<Word("profile"), Blank, Word(part)>>>>
    BY <1>1 DEF RowOf
  <2>4. QED
    BY <2>1, <2>2, <2>3, ToldOf DEF Request
<1>2. ASSUME NEW a PROVE Told(AccountGetProfile(a))
  <2>1. EndpointName(<<Word("profile"), User(a)>>) = <<Word("profile"), Blank>>
    BY Name2, SegmentFacts
  <2>2. EndpointOf("GET", <<Word("profile"), Blank>>) = <<"get_profile", "">>
    BY DEF EndpointOf, Word
  <2>3. RowOf(<<"get_profile", "">>) = <<"GET", <<Word("profile"), Blank>>>>
    BY DEF RowOf
  <2>4. QED
    BY <2>1, <2>2, <2>3, ToldOf DEF AccountGetProfile, Request
<1>3. QED
  BY <1>1, <1>2 DEF SetDisplayName, GetDisplayName, GetAvatarUrl, SetAvatarUrl, GetProfile

LEMMA AccountTold ==
  \A r \in { ChangePassword, Deactivate, Whoami, Get3pids, Add3pid, Delete3pid,
             Request3pidEmailToken, Request3pidMsisdnToken } : Told(r)
<1> DEFINE Rows ==
      { <<"POST", "account", "password", "password">>,
        <<"POST", "account", "deactivate", "deactivate">>,
        <<"GET", "whoami", "", "whoami">>, <<"GET", "get_3pids", "", "3pid">> }
    Parts == {"add", "delete", "email/requestToken", "msisdn/requestToken"}
<1>1. ASSUME NEW method, NEW name, NEW type, NEW part, <<method, name, type, part>> \in Rows
      PROVE  Told(RequestOf(name, type, method, <<Word("account"), Word(part)>>))
  <2>1. EndpointName(<<Word("account"), Word(part)>>) = <<Word("account"), Word(part)>>
    BY <1>1, Name2, SegmentFacts
  <2>2. EndpointOf(method, <<Word("account"), Word(part)>>) = <<name, type>>
    <3> DEFINE row == <<Word("account"), Word(part)>>
    <3>1. row[1].text = "account" /\ row[2].text = part /\ Len(row) = 2
      BY DEF Word
    <3> HIDE DEF row
    <3>2. EndpointOf(method, row) = AccountEndpoint(method, part)
      BY <3>1, EndpointOfAccount
    <3>3. AccountEndpoint(method, part) = <<name, type>>
      BY <1>1 DEF AccountEndpoint
    <3>4. QED
      BY <3>2, <3>3 DEF row
  <2>3. RowOf(<<name, type>>) = <<method, <<Word("account"), Word(part)>>>>
    BY <1>1 DEF RowOf
  <2>4. QED
    BY <2>1, <2>2, <2>3, ToldOf
<1>2. ASSUME NEW part \in Parts PROVE Told(ThreePid(part))
  <2>1. EndpointName(<<Word("account"), Word("3pid"), Word(part)>>)
          = <<Word("account"), Word("3pid"), Word(part)>>
    BY <1>2, Name3, SegmentFacts
  <2>2. EndpointOf("POST", <<Word("account"), Word("3pid"), Word(part)>>) = <<"3pid", part>>
    BY <1>2 DEF EndpointOf, Word
  <2>3. RowOf(<<"3pid", part>>) = <<"POST", <<Word("account"), Word("3pid"), Word(part)>>>>
    BY <1>2 DEF RowOf
  <2>4. QED
    BY <2>1, <2>2, <2>3, ToldOf DEF ThreePid
<1>3. <<"POST", "account", "password", "password">> \in Rows
  OBVIOUS
<1>4. <<"POST", "account", "deactivate", "deactivate">> \in Rows
  OBVIOUS
<1>5. <<"GET", "whoami", "", "whoami">> \in Rows
  OBVIOUS
<1>6. <<"GET", "get_3pids", "", "3pid">> \in Rows
  OBVIOUS
<1> HIDE DEF Rows
<1>7. Told(ChangePassword)
  BY <1>1, <1>3, Zenon DEF ChangePassword, AccountRequest
<1>8. Told(Deactivate)
  BY <1>1, <1>4, Zenon DEF Deactivate, AccountRequest
<1>9. Told(Whoami)
  BY <1>1, <1>5, Zenon DEF Whoami, Request
<1>10. Told(Get3pids)
  BY <1>1, <1>6, Zenon DEF Get3pids, Request
<1>11. QED
  BY <1>2, <1>7, <1>8, <1>9, <1>10
     DEF Add3pid, Delete3pid, Request3pidEmailToken, Request3pidMsisdnToken

\* Requests about a user's data, filters and tags.
LEMMA UserTold ==
  \A a, b, c : \A r \in { SetAccountData(a, "m.direct"), SetAccountData(a, "m.ignored_user_list"),
                          UploadFilter(a), SetTag(a, b, c), RemoveTag(a, b, c) } : Told(r)
<1>1. ASSUME NEW a, NEW type \in {"m.direct", "m.ignored_user_list"}
      PROVE  Told(SetAccountData(a, type))
  <2> DEFINE path == <<Word("user"), User(a), Word("account_data"), Word(type)>>
             row == <<Word("user"), Blank, Word("account_data"), Word(type)>>
  <2>1. Append(OfUser(a, "account_data"), Word(type)) = path
    BY Append31 DEF OfUser
  <2>2. EndpointName(path) = row
    <3>1. /\ Ordinary(Word("user")) /\ Ordinary(User(a)) /\ Ordinary(Word("account_data"))
          /\ Ordinary(Word(type))
      BY <1>1, SegmentFacts
    <3>2. /\ Apart(Word("user"), User(a)) /\ Apart(Word("user"), Word("account_data"))
          /\ Apart(Word("user"), Word(type)) /\ Apart(User(a), Word("account_data"))
          /\ Apart(User(a), Word(type)) /\ Apart(Word("account_data"), Word(type))
      BY SegmentFacts
    <3>3. EndpointName(path) = <<Shown(Word("user")), Shown(User(a)), Shown(Word("account_data")),
                                 Shown(Word(type))>>
      BY <3>1, <3>2, Name4
    <3>4. QED
      BY <3>3, SegmentFacts
  <2>3. EndpointOf("PUT", row) = <<"account_data", type>>
    BY DEF EndpointOf, Word
  <2>4. RowOf(<<"account_data", type>>) = <<"PUT", row>>
    BY DEF RowOf
  <2> HIDE DEF path, row
  <2>5. QED
    BY <2>1, <2>2, <2>3, <2>4, ToldOf DEF SetAccountData
<1>2. ASSUME NEW a PROVE Told(UploadFilter(a))
  <2>1. EndpointName(OfUser(a, "filter")) = <<Word("user"), Blank, Word("filter")>>
    BY Name3, SegmentFacts DEF OfUser
  <2>2. EndpointOf("POST", <<Word("user"), Blank, Word("filter")>>) = <<"filter", "">>
    BY DEF EndpointOf, Word
  <2>3. RowOf(<<"filter", "">>) = <<"POST", <<Word("user"), Blank, Word("filter")>>>>
    BY DEF RowOf
  <2>4. QED
    BY <2>1, <2>2, <2>3, ToldOf DEF UploadFilter, Request
<1>3. ASSUME NEW a, NEW b, NEW c PROVE Told(SetTag(a, b, c)) /\ Told(RemoveTag(a, b, c))
  <2> DEFINE path == <<Word("user"), User(a), Word("rooms"), Room(b), Word("tags"), Free(c)>>
             row == <<Word("user"), Blank, Word("rooms"), Blank, Word("tags"), Free(c)>>
  <2>1. Tag(a, b, c) = path
    BY Concat33 DEF Tag, OfUser
  <2>2. EndpointName(path) = row
    <3>1. /\ Ordinary(Word("user")) /\ Ordinary(User(a)) /\ Ordinary(Word("rooms"))
          /\ Ordinary(Room(b)) /\ Ordinary(Word("tags")) /\ Ordinary(Free(c))
      BY SegmentFacts
    <3>2. /\ Apart(Word("user"), User(a)) /\ Apart(Word("user"), Word("rooms"))
          /\ Apart(Word("user"), Room(b)) /\ Apart(Word("user"), Word("tags"))
          /\ Apart(Word("user"), Free(c))
          /\ Apart(User(a), Word("rooms")) /\ Apart(User(a), Room(b))
          /\ Apart(User(a), Word("tags")) /\ Apart(User(a), Free(c))
          /\ Apart(Word("rooms"), Room(b)) /\ Apart(Word("rooms"), Word("tags"))
          /\ Apart(Word("rooms"), Free(c)) /\ Apart(Room(b), Word("tags"))
          /\ Apart(Room(b), Free(c)) /\ Apart(Word("tags"), Free(c))
      BY SegmentFacts
    <3>3. EndpointName(path) = <<Shown(Word("user")), Shown(User(a)), Shown(Word("rooms")),
                                 Shown(Room(b)), Shown(Word("tags")), Shown(Free(c))>>
      BY <3>1, <3>2, Name6
    <3>4. QED
      BY <3>3, SegmentFacts
  <2>3. row[1].text = "user" /\ row[3].text = "rooms"
    BY DEF Word
  <2> HIDE DEF path, row
  <2>4. \A method : EndpointOf(method, row) = UserEndpoint(method, "rooms")
    BY <2>3, EndpointOfUser
  <2>5. UserEndpoint("PUT", "rooms") = <<"set_tag", "">>
    BY DEF UserEndpoint
  <2>6. UserEndpoint("DELETE", "rooms") = <<"remove_tag", "">>
    BY DEF UserEndpoint
  <2>7. <<"set_tag", "">> \in Splitting /\ <<"remove_tag", "">> \in Splitting
    BY DEF Splitting
  <2>8. Told(SetTag(a, b, c))
    BY <2>1, <2>2, <2>4, <2>5, <2>7, ToldOf DEF SetTag, Request
  <2>9. Told(RemoveTag(a, b, c))
    BY <2>1, <2>2, <2>4, <2>6, <2>7, ToldOf DEF RemoveTag, Request
  <2>10. QED
    BY <2>8, <2>9
<1>4. QED
  BY <1>1, <1>2, <1>3

\* The other requests, of two words, and those whose path ends in any text.
LEMMA RestTold ==
  \A a : \A r \in { SearchUsers, SetPusher, DiscoverHomeserver, JoinByAlias(a), ResolveRoomAlias(a),
                    RenameDevice(a), Download(a), DownloadThumbnail(a) } : Told(r)
<1> DEFINE Pairs ==
      { <<"POST", "search_users", "user_directory", "search">>,
        <<"POST", "set_pusher", "pushers", "set">>,
        <<"GET", "well_known", ".well-known", "matrix">> }
    Ends ==
      { <<"POST", "join_by_alias", "join">>, <<"PUT", "rename_device", "devices">>,
        <<"GET", "download", "download">>, <<"GET", "thumbnail", "thumbnail">> }
<1>1. ASSUME NEW method, NEW name, NEW first, NEW second, <<method, name, first, second>> \in Pairs
      PROVE  Told(Request(name, method, <<Word(first), Word(second)>>))
  <2>1. EndpointName(<<Word(first), Word(second)>>) = <<Word(first), Word(second)>>
    BY <1>1, Name2, SegmentFacts
  <2>2. EndpointOf(method, <<Word(first), Word(second)>>) = <<name, "">>
    BY <1>1 DEF EndpointOf, Word
  <2>3. RowOf(<<name, "">>) = <<method, <<Word(first), Word(second)>>>>
    BY <1>1 DEF RowOf
  <2>4. QED
    BY <2>1, <2>2, <2>3, ToldOf DEF Request
<1>2. ASSUME NEW method, NEW name, NEW first, NEW a, <<method, name, first>> \in Ends
      PROVE  Told(Request(name, method, <<Word(first), Free(a)>>))
  <2>1. EndpointName(<<Word(first), Free(a)>>) = <<Word(first), Free(a)>>
    BY <1>2, Name2, SegmentFacts
  <2>2. EndpointOf(method, <<Word(first), Free(a)>>) = <<name, "">>
    BY <1>2 DEF EndpointOf, Word
  <2>3. <<name, "">> \in Splitting
    BY <1>2 DEF Splitting
  <2>4. QED
    BY <2>1, <2>2, <2>3, ToldOf DEF Request
<1>3. ASSUME NEW a PROVE Told(ResolveRoomAlias(a))
  <2>1. EndpointName(<<Word("directory"), Word("room"), Free(a)>>)
          = <<Word("directory"), Word("room"), Free(a)>>
    BY Name3, SegmentFacts
  <2>2. EndpointOf("GET", <<Word("directory"), Word("room"), Free(a)>>) = <<"resolve_room_alias", "">>
    BY DEF EndpointOf, Word
  <2>3. <<"resolve_room_alias", "">> \in Splitting
    BY DEF Splitting
  <2>4. QED
    BY <2>1, <2>2, <2>3, ToldOf DEF ResolveRoomAlias, Request
<1>4. Told(SearchUsers) /\ Told(SetPusher) /\ Told(DiscoverHomeserver)
  BY <1>1 DEF SearchUsers, SetPusher, DiscoverHomeserver
<1>5. \A a : /\ Told(JoinByAlias(a)) /\ Told(RenameDevice(a))
              /\ Told(Download(a)) /\ Told(DownloadThumbnail(a))
  BY <1>2 DEF JoinByAlias, RenameDevice, Download, DownloadThumbnail
<1>6. QED
  BY <1>3, <1>4, <1>5

LEMMA CatalogueTold == \A r \in Catalogue : Told(r)
<1>1. \A r \in ProgramRequests : Told(r)
  BY WordsTold, InRoomTold, RoomDetailTold, ProfileTold DEF ProgramRequests
<1>2. \A r \in OtherRequests : Told(r)
  BY WordsTold, InRoomTold, RoomDetailTold, StateTold, ProfileTold, AccountTold, UserTold, RestTold
     DEF OtherRequests
<1>3. QED
  BY <1>1, <1>2 DEF Catalogue

\* No endpoint that the programs use is split.
LEMMA ProgramsWhole == \A r \in ProgramRequests : r.endpoint \notin Splitting
<1> DEFINE plain == {"versions", "login", "register", "sync", "refresh", "create_room", "join", "leave",
                     "messages", "set_display_name", "typing", "receipt"}
           whole == {<<name, "">> : name \in plain}
                    \cup {<<"send", "m.room.message">>, <<"send", "m.reaction">>}
<1>1. \A name, type, method, path : RequestOf(name, type, method, path).endpoint = <<name, type>>
  BY DEF RequestOf
<1>2. \A name \in plain : \A method, path : Request(name, method, path).endpoint \in whole
  <2>1. \A name \in plain : <<name, "">> \in whole
    OBVIOUS
  <2> HIDE DEF plain, whole
  <2>2. QED
    BY <1>1, <2>1 DEF Request
<1>3. \A r, txn : SendText(r, txn).endpoint \in whole /\ SendReaction(r, txn).endpoint \in whole
  BY <1>1 DEF SendText, SendReaction, SendEvent
<1>4. \A e \in whole : e \notin Splitting
  <2> DEFINE split == {"set_tag", "remove_tag", "redact", "join_by_alias", "resolve_room_alias",
                       "rename_device", "download", "thumbnail"}
  <2>1. plain \cap split = {} /\ "send" \notin plain /\ "send" \notin split
    OBVIOUS
  <2> HIDE DEF plain, split
  <2>2. ASSUME NEW e \in whole PROVE e[1] \in plain \/ (e[1] = "send" /\ e[2] # "m.sticker")
    <3>1. CASE \E name \in plain : e = <<name, "">>
      <4>1. PICK name \in plain : e = <<name, "">>
        BY <3>1
      <4>2. e[1] = name
        BY <4>1
      <4>3. QED
        BY <4>1, <4>2
    <3>2. CASE e = <<"send", "m.room.message">>
      BY <3>2
    <3>3. CASE e = <<"send", "m.reaction">>
      BY <3>3
    <3>4. QED
      BY <3>1, <3>2, <3>3
  <2>3. ASSUME NEW e \in Splitting PROVE e[1] \in split \/ (e[1] = "send" /\ e[2] = "m.sticker")
    <3>1. e = <<"send", "m.sticker">> \/ \E name \in split : e = <<name, "">>
      BY DEF Splitting, split
    <3>2. CASE e = <<"send", "m.sticker">>
      BY <3>2
    <3>3. CASE \E name \in split : e = <<name, "">>
      <4>1. PICK name \in split : e = <<name, "">>
        BY <3>3
      <4>2. e[1] = name
        BY <4>1
      <4>3. QED
        BY <4>1, <4>2
    <3>4. QED
      BY <3>1, <3>2, <3>3
  <2>4. QED
    BY <2>1, <2>2, <2>3
<1>5. /\ Versions.endpoint \in whole /\ Login.endpoint \in whole /\ Register.endpoint \in whole
      /\ Sync.endpoint \in whole /\ RefreshToken.endpoint \in whole /\ CreateRoom.endpoint \in whole
  BY <1>2 DEF Versions, Login, Register, Sync, RefreshToken, CreateRoom
<1>6. \A a, b : /\ Join(a).endpoint \in whole /\ Leave(a).endpoint \in whole
               /\ PaginateRoom(a).endpoint \in whole /\ SetDisplayName(a).endpoint \in whole
               /\ Typing(a, b).endpoint \in whole /\ Receipt(a, b).endpoint \in whole
  BY <1>2 DEF Join, Leave, PaginateRoom, SetDisplayName, Typing, Receipt
<1> HIDE DEF plain, whole
<1>7. \A r \in ProgramRequests : r.endpoint \in whole
  BY <1>3, <1>5, <1>6 DEF ProgramRequests
<1>8. QED
  BY <1>4, <1>7

----------------------------------------------------------------------------
(* The report.                                                               *)

\* What is reported are requests that the client can make.
THEOREM EndpointsTyped == EndpointsSpec => []EndpointsTypeOK
<1>1. EndpointsInit => EndpointsTypeOK
  BY DEF EndpointsInit, EndpointsTypeOK
<1>2. EndpointsTypeOK /\ [EndpointsNext]_reported => EndpointsTypeOK'
  BY DEF EndpointsNext, Report, EndpointsTypeOK
<1>3. QED
  BY <1>1, <1>2, PTL DEF EndpointsSpec

\* Goose's report has one row for each endpoint that the programs use and no
\* row for two endpoints of the client, whatever the ids of rooms, users,
\* events and transactions: the row of a request tells its endpoint, and its
\* endpoint the row, unless it is one of those that end in an unmasked id.
THEOREM RowsTellEndpoints == EndpointsSpec => []OneRowPerEndpoint
<1>1. ASSUME EndpointsTypeOK PROVE OneRowPerEndpoint
  <2>1. SUFFICES ASSUME NEW s \in reported, NEW r \in Catalogue
                 PROVE  /\ Row(r) = Row(s) => r.endpoint = s.endpoint
                        /\ r.endpoint = s.endpoint => Row(r) = Row(s) \/ r.endpoint \in Splitting
                        /\ r \in ProgramRequests => r.endpoint \notin Splitting
    BY DEF OneRowPerEndpoint
  <2>2. Told(r) /\ Told(s)
    BY <1>1, CatalogueTold DEF EndpointsTypeOK
  <2>3. ASSUME Row(r) = Row(s) PROVE r.endpoint = s.endpoint
    <3>1. r.method = s.method /\ EndpointName(r.path) = EndpointName(s.path)
      BY <2>3 DEF Row
    <3>2. QED
      BY <2>2, <3>1 DEF Told
  <2>4. r.endpoint = s.endpoint => Row(r) = Row(s) \/ r.endpoint \in Splitting
    BY <2>2, Zenon DEF Told
  <2>5. QED
    BY <2>3, <2>4, ProgramsWhole
<1>2. QED
  BY <1>1, EndpointsTyped, PTL
=============================================================================

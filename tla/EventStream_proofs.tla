------------------------- MODULE EventStream_proofs -------------------------
(***************************************************************************)
(* Theorems about EventStream, for any subscribers, page size and bounds:  *)
(* a resumed stream of replays and live events is a feed without a gap or  *)
(* a repeat.                                                               *)
(***************************************************************************)
EXTENDS EventStream, TLAPS

-----------------------------------------------------------------------------
(* Sequences *)

\* A sequence of small numbers is one of larger ones.
LEMMA SeqOfMore ==
    ASSUME NEW m \in Nat, NEW n \in Nat, m <= n, NEW q \in Seq(1..m)
    PROVE  q \in Seq(1..n)
  <1>1. 1..m \subseteq 1..n
    OBVIOUS
  <1> QED
    BY <1>1

\* What the tail of a sequence holds.
LEMMA TailOfSequence ==
    ASSUME NEW S, NEW q \in Seq(S), q # <<>>
    PROVE  /\ Tail(q) \in Seq(S)
           /\ Len(Tail(q)) = Len(q) - 1
           /\ Len(q) \in Nat \ {0}
           /\ Head(q) = q[1] /\ q[1] \in S
           /\ \A i \in 1..Len(Tail(q)) : Tail(q)[i] = q[i + 1]
  OBVIOUS

\* What appending to a sequence makes.
LEMMA AppendToSequence ==
    ASSUME NEW S, NEW q \in Seq(S), NEW e \in S
    PROVE  /\ Append(q, e) \in Seq(S)
           /\ Append(q, e) # <<>>
           /\ Len(Append(q, e)) = Len(q) + 1
           /\ Append(q, e)[Len(q) + 1] = e
           /\ \A i \in 1..Len(q) : Append(q, e)[i] = q[i]
  OBVIOUS

\* Every element of a sequence is in its range.
LEMMA ElementsOfSequence ==
    ASSUME NEW S, NEW q \in Seq(S)
    PROVE  /\ Len(q) \in Nat /\ DOMAIN q = 1..Len(q)
           /\ \A i \in 1..Len(q) : q[i] \in S
  OBVIOUS

\* Appending an event above all others to an ordered queue.
LEMMA OrderedAppend ==
    ASSUME NEW m \in Nat, NEW a \in Nat, NEW q \in Seq(1..m), a + 1 \in 1..m,
           \A i \in 1..Len(q) : q[i] <= a,
           \A i, j \in 1..Len(q) : i < j => q[i] < q[j]
    PROVE  LET longer == Append(q, a + 1)
           IN  /\ \A i \in 1..Len(longer) : longer[i] <= a + 1
               /\ \A i, j \in 1..Len(longer) : i < j => longer[i] < longer[j]
               /\ Elements(longer) = Elements(q) \cup {a + 1}
  <1> DEFINE longer == Append(q, a + 1)
  <1>1. /\ Len(longer) = Len(q) + 1 /\ Len(q) \in Nat
        /\ longer[Len(q) + 1] = a + 1
        /\ \A i \in 1..Len(q) : longer[i] = q[i]
        /\ longer \in Seq(1..m)
    BY AppendToSequence
  <1>2. \A i \in 1..Len(q) : q[i] \in Nat
    BY ElementsOfSequence
  <1>3. DOMAIN q = 1..Len(q) /\ DOMAIN longer = 1..Len(longer)
    BY <1>1, ElementsOfSequence
  <1> HIDE DEF longer
  <1>4. \A i \in 1..Len(longer) : i \in 1..Len(q) \/ i = Len(q) + 1
    BY <1>1
  <1>5. ASSUME NEW i \in 1..Len(longer) PROVE longer[i] <= a + 1
    <2>1. CASE i \in 1..Len(q)
      <3>1. longer[i] = q[i] /\ q[i] \in Nat /\ q[i] <= a
        BY <1>1, <1>2, <2>1
      <3> QED
        BY <3>1
    <2>2. CASE i = Len(q) + 1
      BY <1>1, <2>2
    <2> QED
      BY <1>4, <2>1, <2>2
  <1>6. ASSUME NEW i \in 1..Len(longer), NEW j \in 1..Len(longer), i < j
        PROVE  longer[i] < longer[j]
    <2>1. i \in 1..Len(q) /\ longer[i] = q[i] /\ q[i] \in Nat /\ q[i] <= a
      BY <1>1, <1>2, <1>6
    <2>2. CASE j \in 1..Len(q)
      BY <1>1, <1>6, <2>1, <2>2
    <2>3. CASE j = Len(q) + 1
      BY <1>1, <2>1, <2>3
    <2> QED
      BY <1>4, <2>2, <2>3
  <1>7. Elements(longer) = Elements(q) \cup {a + 1}
    BY <1>1, <1>3, <1>4 DEF Elements
  <1> QED
    BY <1>5, <1>6, <1>7 DEF longer

\* The lengths of a replay and of the page after it.
LEMMA LengthsAddUp ==
    ASSUME NEW c \in Nat, NEW m \in Nat, NEW n \in Nat, NEW end \in Nat,
           n = (end + 1) - (c + m + 1)
    PROVE  c + (m + n) = end
  OBVIOUS

\* A page continues a replay that ends where the page begins.
LEMMA PageContinues ==
    ASSUME NEW c \in Nat, NEW end \in Nat, NEW bound \in Nat, end <= bound,
           NEW q \in Seq(1..bound), c + Len(q) <= end,
           \A i \in 1..Len(q) : q[i] = c + i
    PROVE  LET longer == q \o Span(c + Len(q) + 1, end)
           IN  c + Len(longer) = end /\ \A i \in 1..Len(longer) : longer[i] = c + i
  <1> DEFINE first == c + Len(q) + 1
             page == Span(first, end)
  <1>1. Len(q) \in Nat /\ first \in Nat /\ (end + 1) - first \in Nat
    OBVIOUS
  <1>2. page \in Seq(1..bound) /\ Len(page) = (end + 1) - first
    BY <1>1 DEF Span
  <1>3. \A i \in 1..Len(page) : page[i] = (first + i) - 1
    BY <1>1, <1>2 DEF Span
  <1>4. q \o page \in Seq(1..bound) /\ Len(q \o page) = Len(q) + Len(page)
    BY <1>2
  <1>5. ASSUME NEW i \in 1..Len(q \o page)
        PROVE  (q \o page)[i] = c + i
    <2>1. CASE i <= Len(q)
      BY <1>2, <1>4, <2>1
    <2>2. CASE i > Len(q)
      <3>1. i - Len(q) \in 1..Len(page)
        BY <1>1, <1>2, <1>4, <2>2
      <3>2. (q \o page)[i] = page[i - Len(q)]
        BY <1>2, <1>4, <2>2
      <3> QED
        BY <1>1, <1>3, <3>1, <3>2
    <2> QED
      BY <1>1, <1>4, <2>1, <2>2
  <1>6. c + Len(q \o page) = end
    <2>1. Len(page) = (end + 1) - (c + Len(q) + 1) /\ Len(page) \in Nat
      BY <1>1, <1>2
    <2> HIDE DEF page, first
    <2> QED
      BY <1>1, <1>4, <2>1, LengthsAddUp
  <1> QED
    BY <1>4, <1>5, <1>6

\* A page is a sequence of events of the log.
LEMMA SpanInLog ==
    ASSUME NEW last \in Nat, NEW end \in Nat, NEW bound \in Nat, last <= end, end <= bound
    PROVE  Span(last + 1, end) \in Seq(1..bound)
  <1>1. (end + 1) - (last + 1) \in Nat
    OBVIOUS
  <1>2. \A i \in 1..((end + 1) - (last + 1)) : ((last + 1) + i) - 1 \in 1..bound
    OBVIOUS
  <1> QED
    BY <1>1, <1>2 DEF Span

\* A page ends at the end of the log or is full.
LEMMA PageEnds ==
    ASSUME head \in Nat, NEW last \in 0..head
    PROVE  /\ PageEnd(last) \in last..head
           /\ PageEnd(last) < last + PageSize => PageEnd(last) = head
  BY StreamAssumption DEF PageEnd

-----------------------------------------------------------------------------
(* The invariant *)

\* What a server has read for s and not handed over follows the cursor.
ReplayFollows(s) ==
    (client[s] \in {"reading", "read"} \/ feed[s].replay # <<>>) =>
        /\ feed[s].last = cursor[s] + Len(feed[s].replay)
        /\ \A i \in 1..Len(feed[s].replay) : feed[s].replay[i] = cursor[s] + i

\* When it has handed over everything, the cursor is at the end of the replay
\* or past it.
ReplayIsBehind(s) ==
    client[s] = "serving" /\ feed[s].replay = <<>> => feed[s].last <= cursor[s]

\* The live queue holds announced events, in order.
QueueIsOrdered(s) ==
    LET queue == feed[s].queue
    IN  /\ \A i \in 1..Len(queue) : queue[i] <= announced
        /\ \A i, j \in 1..Len(queue) : i < j => queue[i] < queue[j]

\* From the end of the last page on, no announced event is outside the queue.
QueueCovers(s) ==
    client[s] \in {"read", "serving"} =>
        \A n \in (feed[s].last + 1)..announced :
            n <= cursor[s] \/ n \in withheld \/ n \in Elements(feed[s].queue)

\* The cursor of the client is where its consumer is.
CursorIsPosition(s) == cursor[s] = Feed!Position(s)

FeedInv(s) ==
    /\ CursorIsPosition(s)
    /\ ~Subscribed(s) => feed[s] = FeedFrom(0)
    /\ ReplayFollows(s) \/ ~Subscribed(s)
    /\ ReplayIsBehind(s)
    /\ QueueIsOrdered(s)
    /\ QueueCovers(s)

StreamInv == TypeOK /\ \A s \in Subscribers : FeedInv(s)

-----------------------------------------------------------------------------
(* Types *)

\* The initial state has its shape.
LEMMA InitTypeOK == Init => TypeOK
  BY StreamAssumption DEF Init, TypeOK, FeedFrom

\* When the client considers an event of the log, its cursor stays in the log.
LEMMA ConsiderTypes ==
    ASSUME TypeOK, NEW s \in Subscribers, NEW n \in 1..head, Consider(s, n)
    PROVE  /\ cursor' \in [Subscribers -> 0..head]
           /\ received' \in [Subscribers -> Seq(1..head)]
  <1>1. received[s] \in Seq(1..head) /\ head \in Nat
    BY DEF TypeOK
  <1>2. Append(received[s], n) \in Seq(1..head)
    BY <1>1, AppendToSequence
  <1>3. CASE n <= cursor[s]
    BY <1>3 DEF TypeOK, Consider
  <1>4. CASE ~(n <= cursor[s])
    <2>1. /\ cursor' = [cursor EXCEPT ![s] = n]
          /\ received' = [received EXCEPT ![s] = Append(received[s], n)]
      BY <1>4 DEF Consider
    <2>2. n \in 0..head /\ cursor \in [Subscribers -> 0..head]
          /\ received \in [Subscribers -> Seq(1..head)]
      BY <1>1 DEF TypeOK
    <2> QED
      BY <1>2, <2>1, <2>2
  <1> QED
    BY <1>3, <1>4

\* The feed of a subscription, and its parts.
LEMMA FeedTypes ==
    ASSUME TypeOK, NEW s \in Subscribers
    PROVE  /\ feed[s] \in [last : 0..head, replay : Seq(1..head), queue : Seq(1..head)]
           /\ feed[s].last \in 0..head
           /\ feed[s].replay \in Seq(1..head)
           /\ feed[s].queue \in Seq(1..head)
           /\ cursor[s] \in 0..head /\ start[s] \in 0..head
           /\ received[s] \in Seq(1..head)
           /\ head \in Nat /\ announced \in 0..head
  BY DEF TypeOK

\* A page ends in the log.
LEMMA ReadPageTypes ==
    ASSUME TypeOK, NEW s \in Subscribers
    PROVE  LET last == feed[s].last
               end == PageEnd(last)
           IN  end \in 0..head /\ feed[s].replay \o Span(last + 1, end) \in Seq(1..head)
  <1> DEFINE last == feed[s].last
             end == PageEnd(last)
  <1>1. last \in 0..head /\ head \in Nat /\ feed[s].replay \in Seq(1..head)
    BY FeedTypes
  <1>2. end \in last..head
    BY <1>1, PageEnds
  <1>3. Span(last + 1, end) \in Seq(1..head)
    BY <1>1, <1>2, SpanInLog
  <1> QED
    BY <1>1, <1>2, <1>3

\* Every step keeps the shape of the variables.
LEMMA NextTypeOK == TypeOK /\ [Next]_vars => TypeOK'
  <1> SUFFICES ASSUME TypeOK, [Next]_vars PROVE TypeOK'
    OBVIOUS
  <1> USE StreamAssumption
  <1>1. CASE Commit
    <2>1. \A q : q \in Seq(1..head) => q \in Seq(1..head')
      BY <1>1, SeqOfMore DEF Commit, TypeOK
    <2>2. head' \in 0..MaxEvents /\ 0..head \subseteq 0..head' /\ announced' \in 0..head'
      BY <1>1 DEF Commit, TypeOK
    <2>3. received' \in [Subscribers -> Seq(1..head')]
      BY <1>1, <2>1 DEF Commit, TypeOK
    <2>4. feed' \in [Subscribers ->
                        [last : 0..head', replay : Seq(1..head'), queue : Seq(1..head')]]
      BY <1>1, <2>1, <2>2 DEF Commit, TypeOK
    <2> QED
      BY <1>1, <2>2, <2>3, <2>4 DEF Commit, TypeOK
  <1>2. CASE Publish
    <2>1. announced + 1 \in 1..head /\ announced' \in 0..head'
      BY <1>2 DEF Publish, TypeOK
    <2>2. ASSUME NEW s \in Subscribers
          PROVE  Append(feed[s].queue, announced + 1) \in Seq(1..head)
      BY <2>1, FeedTypes, AppendToSequence
    <2>3. feed' \in [Subscribers ->
                        [last : 0..head', replay : Seq(1..head'), queue : Seq(1..head')]]
      BY ZenonT(40), <1>2, <2>2 DEF Publish, TypeOK
    <2>4. withheld' \subseteq 1..announced'
      BY <1>2 DEF Publish, TypeOK
    <2> QED
      BY <1>2, <2>1, <2>3, <2>4 DEF Publish, TypeOK
  <1>3. CASE LosePublish
    BY <1>3 DEF LosePublish, TypeOK
  <1>4. CASE Restart
    BY <1>4 DEF Restart, Fault, FeedFrom, Subscribed, TypeOK
  <1>5. ASSUME NEW s \in Subscribers, Open(s) PROVE TypeOK'
    BY <1>5 DEF Open, engine, TypeOK
  <1>6. ASSUME NEW s \in Subscribers, Close(s) PROVE TypeOK'
    BY <1>6 DEF Close, engine, FeedFrom, TypeOK
  <1>7. ASSUME NEW s \in Subscribers, Disconnect(s) PROVE TypeOK'
    BY <1>7 DEF Disconnect, Fault, engine, FeedFrom, TypeOK
  <1>8. ASSUME NEW s \in Subscribers, ReadFails(s) PROVE TypeOK'
    BY <1>8 DEF ReadFails, Fault, engine, FeedFrom, TypeOK
  <1>9. ASSUME NEW s \in Subscribers, Subscribe(s) PROVE TypeOK'
    BY <1>9 DEF Subscribe, engine, FeedFrom, TypeOK
  <1>10. ASSUME NEW s \in Subscribers, ReadPage(s) PROVE TypeOK'
    <2> DEFINE last == feed[s].last
               end == PageEnd(last)
    <2>1. end \in 0..head /\ feed[s].replay \o Span(last + 1, end) \in Seq(1..head)
      BY ReadPageTypes
    <2> QED
      BY <1>10, <2>1 DEF ReadPage, engine, TypeOK
  <1>11. ASSUME NEW s \in Subscribers, Serve(s) PROVE TypeOK'
    BY <1>11 DEF Serve, engine, TypeOK
  <1>12. ASSUME NEW s \in Subscribers, TakeReplayed(s) PROVE TypeOK'
    <2>1. Head(feed[s].replay) \in 1..head /\ Tail(feed[s].replay) \in Seq(1..head)
      BY ZenonT(40), <1>12, FeedTypes, TailOfSequence DEF TakeReplayed
    <2>2. cursor' \in [Subscribers -> 0..head] /\ received' \in [Subscribers -> Seq(1..head)]
      BY <1>12, <2>1, ConsiderTypes DEF TakeReplayed
    <2> QED
      BY <1>12, <2>1, <2>2 DEF TakeReplayed, engine, TypeOK
  <1>13. ASSUME NEW s \in Subscribers, TakeLive(s) PROVE TypeOK'
    <2>1. Head(feed[s].queue) \in 1..head /\ Tail(feed[s].queue) \in Seq(1..head)
      BY <1>13, FeedTypes, TailOfSequence DEF TakeLive
    <2>2. cursor' \in [Subscribers -> 0..head] /\ received' \in [Subscribers -> Seq(1..head)]
      BY <1>13, <2>1, ConsiderTypes DEF TakeLive, TypeOK
    <2> QED
      BY <1>13, <2>1, <2>2 DEF TakeLive, engine, TypeOK
  <1>14. CASE UNCHANGED vars
    BY <1>14 DEF vars, TypeOK
  <1> QED
    BY <1>1, <1>2, <1>3, <1>4, <1>5, <1>6, <1>7, <1>8, <1>9, <1>10, <1>11, <1>12, <1>13,
       <1>14 DEF Next, Server

\* Every variable of the stream keeps its shape, and no cursor leaves the log.
THEOREM TypeCorrect == Spec => []TypeOK
  BY InitTypeOK, NextTypeOK, PTL DEF Spec

-----------------------------------------------------------------------------
(* The invariant is inductive *)

\* A subscription that is not touched keeps its part of the invariant.
LEMMA Untouched ==
    ASSUME NEW t \in Subscribers, FeedInv(t),
           UNCHANGED <<announced, client[t], start[t], cursor[t], received[t], feed[t]>>,
           withheld' = withheld
    PROVE  FeedInv(t)'
  BY DEF FeedInv, CursorIsPosition, Feed!Position, Subscribed, FeedFrom, ReplayFollows,
         ReplayIsBehind, QueueIsOrdered, QueueCovers

\* A subscription whose server is gone has an empty feed and nothing to keep.
LEMMA Unsubscribed ==
    ASSUME NEW t \in Subscribers, (client[t] \in {"closed", "waiting", "failed"})',
           (feed[t] = FeedFrom(0))', CursorIsPosition(t)'
    PROVE  FeedInv(t)'
  BY DEF FeedInv, Subscribed, FeedFrom, ReplayIsBehind, QueueIsOrdered, QueueCovers

\* The position of a consumer depends on what it received and where it started.
LEMMA PositionKept ==
    ASSUME NEW t \in Subscribers, CursorIsPosition(t),
           UNCHANGED <<cursor[t], start[t], received[t]>>
    PROVE  CursorIsPosition(t)'
  BY DEF CursorIsPosition, Feed!Position

\* An event above the cursor is the position of the consumer that takes it.
LEMMA ConsiderKeepsPosition ==
    ASSUME TypeOK, NEW s \in Subscribers, CursorIsPosition(s), NEW n \in 1..head,
           Consider(s, n), start' = start
    PROVE  CursorIsPosition(s)'
  <1>1. CASE n <= cursor[s]
    BY <1>1, PositionKept DEF Consider
  <1>2. CASE ~(n <= cursor[s])
    <2>1. cursor'[s] = n /\ received'[s] = Append(received[s], n)
      BY <1>2 DEF Consider, TypeOK
    <2>2. /\ Append(received[s], n) # <<>>
          /\ Append(received[s], n)[Len(Append(received[s], n))] = n
      <3>1. received[s] \in Seq(1..head)
        BY FeedTypes
      <3> QED
        BY <3>1, AppendToSequence
    <2> QED
      BY <2>1, <2>2 DEF CursorIsPosition, Feed!Position
  <1> QED
    BY <1>1, <1>2

\* Initially no subscription has a server.
LEMMA InitStreamInv == Init => StreamInv
  <1>1. Init => TypeOK
    BY InitTypeOK
  <1>2. ASSUME Init, NEW s \in Subscribers PROVE FeedInv(s)
    BY <1>2 DEF Init, FeedInv, CursorIsPosition, Feed!Position, Subscribed, FeedFrom,
                ReplayIsBehind, QueueIsOrdered, QueueCovers
  <1> QED
    BY <1>1, <1>2 DEF StreamInv

\* A published event joins every queue behind the ones announced before it.
LEMMA PublishKeepsFeed ==
    ASSUME TypeOK, Publish, NEW t \in Subscribers, FeedInv(t)
    PROVE  FeedInv(t)'
  <1>1. /\ announced' = announced + 1
        /\ UNCHANGED <<withheld, client, start, cursor, received>>
    BY DEF Publish
  <1>2. CursorIsPosition(t)'
    BY <1>1, PositionKept DEF FeedInv
  <1>3. CASE ~Subscribed(t)
    <2>1. feed'[t] = FeedFrom(0) /\ client'[t] \in {"closed", "waiting", "failed"}
      BY <1>1, <1>3 DEF FeedInv, Publish, Subscribed, TypeOK
    <2> QED
      BY <1>2, <2>1, Unsubscribed
  <1>4. CASE Subscribed(t)
    <2> DEFINE queue == feed[t].queue
               longer == Append(queue, announced + 1)
    <2>1. /\ feed'[t].last = feed[t].last
          /\ feed'[t].replay = feed[t].replay
          /\ feed'[t].queue = longer
      BY <1>4, FeedTypes DEF Publish
    <2>2. queue \in Seq(1..head) /\ announced + 1 \in 1..head
      BY FeedTypes DEF Publish
    <2>3. /\ \A i \in 1..Len(queue) : queue[i] <= announced
          /\ \A i, j \in 1..Len(queue) : i < j => queue[i] < queue[j]
      BY DEF FeedInv, QueueIsOrdered
    <2>4. announced \in Nat /\ head \in Nat
      BY FeedTypes
    <2>5. /\ \A i \in 1..Len(longer) : longer[i] <= announced + 1
          /\ \A i, j \in 1..Len(longer) : i < j => longer[i] < longer[j]
          /\ Elements(longer) = Elements(queue) \cup {announced + 1}
      <3> HIDE DEF queue
      <3> QED
        BY <2>2, <2>3, <2>4, OrderedAppend DEF longer
    <2>6. QueueIsOrdered(t)' /\ QueueCovers(t)'
      <3>1. QueueIsOrdered(t)'
        BY <1>1, <2>1, <2>5 DEF QueueIsOrdered
      <3>2. ASSUME client[t] \in {"read", "serving"},
                   NEW n \in (feed[t].last + 1)..(announced + 1),
                   ~(n <= cursor[t]), n \notin withheld
            PROVE  n \in Elements(longer)
        <4>1. n = announced + 1 \/ n \in (feed[t].last + 1)..announced
          BY <2>4, FeedTypes
        <4>2. n = announced + 1 \/ n \in Elements(queue)
          BY <3>2, <4>1 DEF FeedInv, QueueCovers
        <4> QED
          BY <2>5, <4>2
      <3>3. QueueCovers(t)'
        BY <1>1, <2>1, <3>2 DEF QueueCovers
      <3> QED
        BY <3>1, <3>3
    <2>7. ReplayFollows(t)' /\ ReplayIsBehind(t)'
      BY <1>1, <1>4, <2>1 DEF FeedInv, ReplayFollows, ReplayIsBehind
    <2>8. Subscribed(t)'
      BY <1>1, <1>4 DEF Subscribed
    <2> QED
      BY <1>2, <2>6, <2>7, <2>8 DEF FeedInv
  <1> QED
    BY <1>3, <1>4

\* A page read continues the replay; the last one reaches the end of the log.
LEMMA ReadPageKeepsFeed ==
    ASSUME TypeOK, NEW s \in Subscribers, FeedInv(s), ReadPage(s)
    PROVE  FeedInv(s)'
  <1> DEFINE last == feed[s].last
             end == PageEnd(last)
             replay == feed[s].replay
             longer == replay \o Span(last + 1, end)
  <1>1. /\ client[s] = "reading" /\ client'[s] \in {"reading", "read"}
        /\ client'[s] = "read" => end = head
        /\ feed'[s].last = end /\ feed'[s].replay = longer
        /\ feed'[s].queue = feed[s].queue
        /\ UNCHANGED <<head, announced, withheld, start, cursor, received>>
    <2>1. last \in 0..head /\ head \in Nat
      BY FeedTypes
    <2>2. end < last + PageSize => end = head
      BY <2>1, PageEnds
    <2>3. client \in [Subscribers -> {"closed", "waiting", "reading", "read", "serving", "failed"}]
          /\ s \in DOMAIN feed /\ feed[s].last = last
          /\ feed[s] \in [last : 0..head, replay : Seq(1..head), queue : Seq(1..head)]
      BY FeedTypes DEF TypeOK
    <2> QED
      BY <2>2, <2>3 DEF ReadPage, engine
  <1>2. CursorIsPosition(s)'
    BY <1>1, PositionKept DEF FeedInv
  <1>3. last = cursor[s] + Len(replay) /\ \A i \in 1..Len(replay) : replay[i] = cursor[s] + i
    BY <1>1 DEF FeedInv, ReplayFollows, Subscribed
  <1>4. /\ cursor[s] \in Nat /\ last \in 0..head /\ head \in Nat /\ end \in last..head
        /\ replay \in Seq(1..head) /\ announced \in 0..head
    <2>1. /\ cursor[s] \in 0..head /\ last \in 0..head /\ head \in Nat
          /\ replay \in Seq(1..head) /\ announced \in 0..head
      BY FeedTypes
    <2> HIDE DEF last, replay
    <2>2. end \in last..head
      BY <2>1, PageEnds
    <2> QED
      BY <2>1, <2>2
  <1>5. end = cursor[s] + Len(longer) /\ \A i \in 1..Len(longer) : longer[i] = cursor[s] + i
    <2> DEFINE c == cursor[s]
    <2>1. c \in Nat
      BY <1>4
    <2>2. end \in Nat
      BY <1>4
    <2>3. head \in Nat
      BY <1>4
    <2>4. end <= head
      BY <1>4
    <2>5. replay \in Seq(1..head)
      BY <1>4
    <2>6. c + Len(replay) <= end
      BY <1>3, <1>4
    <2>7. \A i \in 1..Len(replay) : replay[i] = c + i
      BY <1>3
    <2>8. longer = replay \o Span(c + Len(replay) + 1, end)
      BY <1>3
    <2> HIDE DEF last, end, replay, longer, c
    <2>9. LET continued == replay \o Span(c + Len(replay) + 1, end)
          IN  c + Len(continued) = end
              /\ \A i \in 1..Len(continued) : continued[i] = c + i
      BY <2>1, <2>2, <2>3, <2>4, <2>5, <2>6, <2>7, PageContinues, ZenonT(30)
    <2> QED
      BY <2>8, <2>9 DEF c
  <1>6. ReplayFollows(s)' /\ ReplayIsBehind(s)'
    BY <1>1, <1>5 DEF ReplayFollows, ReplayIsBehind
  <1>7. QueueIsOrdered(s)'
    BY <1>1 DEF FeedInv, QueueIsOrdered
  <1>8. QueueCovers(s)'
    <2>1. client'[s] = "read" => (end + 1)..announced = {}
      BY <1>1, <1>4
    <2> QED
      BY <1>1, <2>1 DEF QueueCovers
  <1>9. Subscribed(s)'
    BY <1>1 DEF Subscribed
  <1> QED
    BY <1>2, <1>6, <1>7, <1>8, <1>9 DEF FeedInv

\* The head of a replay is the event after the cursor.
LEMMA ReplayedIsNext ==
    ASSUME TypeOK, NEW s \in Subscribers, FeedInv(s), TakeReplayed(s)
    PROVE  /\ Head(feed[s].replay) = cursor[s] + 1 /\ cursor[s] + 1 \in 1..head
           /\ cursor' = [cursor EXCEPT ![s] = cursor[s] + 1]
           /\ received' = [received EXCEPT ![s] = Append(received[s], cursor[s] + 1)]
  <1>1. feed[s].replay # <<>> /\ feed[s].replay \in Seq(1..head) /\ cursor[s] \in Nat
    BY FeedTypes DEF TakeReplayed
  <1>2. Head(feed[s].replay) = feed[s].replay[1] /\ 1 \in 1..Len(feed[s].replay)
        /\ Head(feed[s].replay) \in 1..head
    <2> DEFINE q == feed[s].replay
    <2> HIDE DEF q
    <2>1. q # <<>> /\ q \in Seq(1..head)
      BY <1>1 DEF q
    <2>2. Head(q) = q[1] /\ Len(q) \in Nat \ {0} /\ q[1] \in 1..head
      BY <2>1, TailOfSequence
    <2> QED
      BY <2>2 DEF q
  <1>3. Head(feed[s].replay) = cursor[s] + 1
    BY <1>1, <1>2 DEF FeedInv, ReplayFollows, Subscribed, TakeReplayed
  <1> QED
    BY <1>1, <1>2, <1>3 DEF TakeReplayed, Consider

\* Handing over the head of a replay.
LEMMA TakeReplayedKeepsFeed ==
    ASSUME TypeOK, NEW s \in Subscribers, FeedInv(s), TakeReplayed(s)
    PROVE  FeedInv(s)'
  <1> DEFINE replay == feed[s].replay
             rest == Tail(replay)
  <1>1. /\ client[s] = "serving" /\ client' = client
        /\ feed'[s].last = feed[s].last /\ feed'[s].replay = rest
        /\ feed'[s].queue = feed[s].queue
        /\ UNCHANGED <<head, announced, withheld, start>>
    BY FeedTypes DEF TakeReplayed, engine, TypeOK
  <1>2. cursor'[s] = cursor[s] + 1 /\ cursor[s] \in Nat
    <2>1. cursor' = [cursor EXCEPT ![s] = cursor[s] + 1]
      BY ReplayedIsNext
    <2>2. cursor \in [Subscribers -> 0..head]
      BY DEF TypeOK
    <2>3. cursor[s] \in Nat
      BY FeedTypes
    <2> QED
      BY <2>1, <2>2, <2>3
  <1>3. replay # <<>> /\ replay \in Seq(1..head)
    BY FeedTypes DEF TakeReplayed
  <1>4. feed[s].last = cursor[s] + Len(replay) /\ \A i \in 1..Len(replay) : replay[i] = cursor[s] + i
    BY <1>1, <1>3 DEF FeedInv, ReplayFollows, Subscribed
  <1> HIDE DEF replay
  <1>5. /\ Len(rest) = Len(replay) - 1 /\ Len(replay) \in Nat \ {0}
        /\ \A i \in 1..Len(rest) : rest[i] = replay[i + 1]
        /\ rest \in Seq(1..head)
    BY <1>3, TailOfSequence
  <1> HIDE DEF rest
  <1>6. /\ feed[s].last = cursor'[s] + Len(rest)
        /\ \A i \in 1..Len(rest) : rest[i] = cursor'[s] + i
    <2>1. feed[s].last = cursor'[s] + Len(rest)
      BY <1>2, <1>4, <1>5
    <2>2. ASSUME NEW i \in 1..Len(rest) PROVE rest[i] = cursor'[s] + i
      <3>1. i + 1 \in 1..Len(replay) /\ i \in Nat
        BY <1>5
      <3>2. rest[i] = cursor[s] + (i + 1)
        BY <1>4, <1>5, <3>1
      <3> QED
        BY <1>2, <3>1, <3>2
    <2> QED
      BY <2>1, <2>2
  <1>7. CursorIsPosition(s)'
    <2>1. Consider(s, Head(feed[s].replay)) /\ Head(feed[s].replay) \in 1..head
      BY ReplayedIsNext DEF TakeReplayed
    <2> QED
      BY <1>1, <2>1, ConsiderKeepsPosition DEF FeedInv
  <1>8. ReplayFollows(s)'
    BY <1>1, <1>6 DEF ReplayFollows
  <1>9. ReplayIsBehind(s)'
    <2>1. CASE rest = <<>>
      <3>1. feed[s].last = cursor'[s]
        BY <1>2, <1>6, <2>1
      <3> QED
        BY <1>1, <1>2, <3>1 DEF ReplayIsBehind
    <2>2. CASE rest # <<>>
      BY <1>1, <2>2 DEF ReplayIsBehind
    <2> QED
      BY <2>1, <2>2
  <1>10. QueueIsOrdered(s)'
    BY <1>1 DEF FeedInv, QueueIsOrdered
  <1>11. QueueCovers(s)'
    <2>1. \A n \in (feed[s].last + 1)..announced : n <= cursor[s] => n <= cursor'[s]
      BY <1>2, FeedTypes
    <2> QED
      BY <1>1, <2>1 DEF FeedInv, QueueCovers
  <1>12. Subscribed(s)'
    BY <1>1 DEF Subscribed
  <1> QED
    BY <1>7, <1>8, <1>9, <1>10, <1>11, <1>12 DEF FeedInv

\* What considering a live event leaves of the queue still covers the log.
LEMMA TakeLiveKeepsFeed ==
    ASSUME TypeOK, NEW s \in Subscribers, FeedInv(s), TakeLive(s)
    PROVE  FeedInv(s)'
  <1> DEFINE queue == feed[s].queue
             rest == Tail(queue)
             n == Head(queue)
             last == feed[s].last
  <1>1. /\ client[s] = "serving" /\ client' = client
        /\ feed[s].replay = <<>> /\ feed'[s].replay = <<>>
        /\ feed'[s].last = last /\ feed'[s].queue = rest
        /\ UNCHANGED <<head, announced, withheld, start>>
    BY FeedTypes DEF TakeLive, engine, TypeOK
  <1>2. queue # <<>> /\ queue \in Seq(1..head) /\ last \in Nat /\ cursor[s] \in Nat
    BY FeedTypes DEF TakeLive
  <1>3. last <= cursor[s]
    BY <1>1 DEF FeedInv, ReplayIsBehind
  <1>4. /\ \A i \in 1..Len(queue) : queue[i] <= announced
        /\ \A i, j \in 1..Len(queue) : i < j => queue[i] < queue[j]
    BY DEF FeedInv, QueueIsOrdered
  <1>5. \/ n > last /\ Consider(s, n)
        \/ ~(n > last) /\ UNCHANGED <<cursor, received>>
    BY DEF TakeLive
  <1> HIDE DEF queue
  <1>6. /\ Len(rest) = Len(queue) - 1 /\ Len(queue) \in Nat \ {0}
        /\ n = queue[1] /\ n \in 1..head
        /\ \A i \in 1..Len(rest) : rest[i] = queue[i + 1]
        /\ rest \in Seq(1..head)
    BY <1>2, TailOfSequence
  <1>7. DOMAIN queue = 1..Len(queue) /\ DOMAIN rest = 1..Len(rest)
    BY <1>2, <1>6, ElementsOfSequence
  <1> HIDE DEF rest, n
  <1>8. cursor'[s] \in Nat /\ cursor[s] <= cursor'[s] /\ n <= cursor'[s]
    <2>1. CASE n > last /\ ~(n <= cursor[s])
      <3>1. cursor'[s] = n
        BY <1>5, <2>1 DEF Consider, TypeOK
      <3> QED
        BY <1>2, <1>6, <2>1, <3>1
    <2>2. CASE n <= cursor[s]
      <3>1. cursor'[s] = cursor[s]
        BY <1>5, <2>2 DEF Consider
      <3> QED
        BY <1>2, <2>2, <3>1
    <2>3. CASE ~(n > last)
      <3>1. n <= cursor[s]
        BY <1>2, <1>3, <1>6, <2>3
      <3> QED
        BY <2>2, <3>1
    <2> QED
      BY <2>1, <2>2, <2>3
  <1>9. CursorIsPosition(s)'
    BY <1>1, <1>5, <1>6, ConsiderKeepsPosition, PositionKept DEF FeedInv
  <1>10. ReplayFollows(s)' /\ ReplayIsBehind(s)'
    BY <1>1, <1>2, <1>3, <1>8 DEF ReplayFollows, ReplayIsBehind
  <1>11. QueueIsOrdered(s)'
    <2>1. ASSUME NEW i \in 1..Len(rest)
          PROVE  i + 1 \in 1..Len(queue) /\ rest[i] = queue[i + 1]
      BY <1>6
    <2>2. \A i \in 1..Len(rest) : rest[i] <= announced
      BY <1>4, <2>1
    <2>3. ASSUME NEW i \in 1..Len(rest), NEW j \in 1..Len(rest), i < j
          PROVE  rest[i] < rest[j]
      <3>1. i + 1 < j + 1
        BY <1>6, <2>3
      <3> QED
        BY <1>4, <2>1, <3>1
    <2> QED
      BY <1>1, <2>2, <2>3 DEF QueueIsOrdered
  <1>12. QueueCovers(s)'
    <2> SUFFICES ASSUME NEW m \in (last + 1)..announced, ~(m <= cursor'[s]), m \notin withheld
                 PROVE  m \in Elements(rest)
      BY <1>1 DEF QueueCovers
    <2>1. m \in Nat /\ ~(m <= cursor[s]) /\ m # n
      <3>1. m \in Nat /\ announced \in Nat
        BY <1>2, FeedTypes
      <3> QED
        BY <1>2, <1>6, <1>8, <3>1
    <2>2. m \in Elements(queue)
      BY <1>1, <2>1 DEF FeedInv, QueueCovers, queue
    <2>3. PICK i \in 1..Len(queue) : queue[i] = m
      BY <1>7, <2>2 DEF Elements
    <2>4. i # 1
      BY <1>6, <2>1, <2>3
    <2>5. i - 1 \in 1..Len(rest) /\ rest[i - 1] = queue[(i - 1) + 1] /\ (i - 1) + 1 = i
      BY <1>6, <2>4
    <2> QED
      BY <1>7, <2>3, <2>5 DEF Elements
  <1>13. Subscribed(s)'
    BY <1>1 DEF Subscribed
  <1> QED
    BY <1>9, <1>10, <1>11, <1>12, <1>13 DEF FeedInv

\* An event that is passed over leaves every queue alone and is accounted for.
LEMMA LosePublishKeepsFeed ==
    ASSUME TypeOK, LosePublish, NEW t \in Subscribers, FeedInv(t)
    PROVE  FeedInv(t)'
  <1>1. /\ announced' = announced + 1 /\ withheld' = withheld \cup {announced + 1}
        /\ UNCHANGED <<client, start, cursor, received, feed>>
    BY DEF LosePublish
  <1>2. CursorIsPosition(t)'
    BY <1>1, PositionKept DEF FeedInv
  <1>3. QueueIsOrdered(t)'
    <2>1. announced \in Nat /\ feed[t].queue \in Seq(1..head)
      BY FeedTypes
    <2>2. \A i \in 1..Len(feed[t].queue) :
              feed[t].queue[i] \in Nat /\ feed[t].queue[i] <= announced
      <3> DEFINE queue == feed[t].queue
      <3>1. \A i \in 1..Len(queue) : queue[i] <= announced
        BY DEF FeedInv, QueueIsOrdered
      <3> HIDE DEF queue
      <3>2. \A i \in 1..Len(queue) : queue[i] \in 1..head
        BY <2>1, ElementsOfSequence DEF queue
      <3> QED
        BY <2>1, <3>1, <3>2 DEF queue
    <2>3. \A i \in 1..Len(feed[t].queue) : feed[t].queue[i] <= announced + 1
      BY <2>1, <2>2
    <2> QED
      BY <1>1, <2>3 DEF FeedInv, QueueIsOrdered
  <1>4. QueueCovers(t)'
    <2> SUFFICES ASSUME client[t] \in {"read", "serving"},
                        NEW n \in (feed[t].last + 1)..(announced + 1),
                        ~(n <= cursor[t]), n \notin withheld \cup {announced + 1}
                 PROVE  n \in Elements(feed[t].queue)
      BY <1>1 DEF QueueCovers
    <2>1. n \in (feed[t].last + 1)..announced
      BY FeedTypes
    <2> QED
      BY <2>1 DEF FeedInv, QueueCovers
  <1> QED
    BY <1>1, <1>2, <1>3, <1>4
       DEF FeedInv, Subscribed, FeedFrom, ReplayFollows, ReplayIsBehind

\* A restart takes every server down.
LEMMA RestartKeepsFeed ==
    ASSUME TypeOK, Restart, NEW t \in Subscribers, FeedInv(t)
    PROVE  FeedInv(t)'
  <1>1. client'[t] \in {"closed", "waiting", "failed"} /\ feed'[t] = FeedFrom(0)
    BY DEF Restart, Subscribed, TypeOK
  <1>2. CursorIsPosition(t)'
    BY PositionKept DEF Restart, FeedInv
  <1> QED
    BY <1>1, <1>2, Unsubscribed

\* A subscription that is opened has received nothing.
LEMMA OpenKeepsFeed ==
    ASSUME TypeOK, NEW s \in Subscribers, FeedInv(s), Open(s)
    PROVE  FeedInv(s)'
  <1>1. client'[s] = "waiting" /\ feed'[s] = FeedFrom(0)
    BY DEF Open, FeedInv, Subscribed, TypeOK
  <1>2. CursorIsPosition(s)'
    <2>1. cursor'[s] = start'[s] /\ received'[s] = <<>>
      BY DEF Open, TypeOK
    <2> QED
      BY <2>1 DEF CursorIsPosition, Feed!Position
  <1> QED
    BY <1>1, <1>2, Unsubscribed

\* A stream that ends, or whose read fails, leaves the client at its position.
LEMMA EndKeepsFeed ==
    ASSUME TypeOK, NEW s \in Subscribers, FeedInv(s),
           Close(s) \/ Disconnect(s) \/ ReadFails(s)
    PROVE  FeedInv(s)'
  <1>1. client'[s] \in {"closed", "waiting", "failed"} /\ feed'[s] = FeedFrom(0)
    BY DEF Close, Disconnect, ReadFails, TypeOK
  <1>2. CursorIsPosition(s)'
    BY PositionKept DEF Close, Disconnect, ReadFails, FeedInv
  <1> QED
    BY <1>1, <1>2, Unsubscribed

\* A server that subscribes has read up to the cursor and holds nothing.
LEMMA SubscribeKeepsFeed ==
    ASSUME TypeOK, NEW s \in Subscribers, FeedInv(s), Subscribe(s)
    PROVE  FeedInv(s)'
  <1>1. /\ client'[s] = "reading" /\ feed'[s] = FeedFrom(cursor[s])
        /\ UNCHANGED <<head, announced, withheld, start, cursor, received>>
    BY DEF Subscribe, engine, TypeOK
  <1>2. CursorIsPosition(s)'
    BY <1>1, PositionKept DEF FeedInv
  <1>3. cursor[s] \in Nat
    BY FeedTypes
  <1> QED
    BY <1>1, <1>2, <1>3 DEF FeedInv, Subscribed, FeedFrom, ReplayFollows, ReplayIsBehind,
                            QueueIsOrdered, QueueCovers

\* The last page reached the end of the log: whatever is above is in the queue.
LEMMA ServeKeepsFeed ==
    ASSUME TypeOK, NEW s \in Subscribers, FeedInv(s), Serve(s)
    PROVE  FeedInv(s)'
  <1>1. /\ client[s] = "read" /\ client'[s] = "serving"
        /\ UNCHANGED <<head, announced, withheld, start, cursor, received, feed>>
    BY DEF Serve, engine, TypeOK
  <1>2. CursorIsPosition(s)'
    BY <1>1, PositionKept DEF FeedInv
  <1>3. ReplayFollows(s)
    BY <1>1 DEF FeedInv, Subscribed
  <1>4. ReplayIsBehind(s)'
    <2>1. feed[s].replay = <<>> => feed[s].last = cursor[s] + 0 /\ cursor[s] \in Nat
      BY <1>1, <1>3, FeedTypes DEF ReplayFollows
    <2> QED
      BY <1>1, <2>1 DEF ReplayIsBehind
  <1> QED
    BY <1>1, <1>2, <1>3, <1>4 DEF FeedInv, Subscribed, ReplayFollows, QueueIsOrdered, QueueCovers

\* The steps of one subscription leave the others alone.
LEMMA OthersUntouched ==
    ASSUME TypeOK, NEW s \in Subscribers, NEW t \in Subscribers, s # t, FeedInv(t),
           \/ Open(s) \/ Close(s) \/ Disconnect(s) \/ ReadFails(s) \/ Subscribe(s)
           \/ ReadPage(s) \/ Serve(s) \/ TakeReplayed(s) \/ TakeLive(s)
    PROVE  FeedInv(t)'
  <1>1. /\ announced' = announced /\ withheld' = withheld
        /\ client'[t] = client[t] /\ start'[t] = start[t] /\ feed'[t] = feed[t]
    BY DEF Open, Close, Disconnect, ReadFails, Subscribe, ReadPage, Serve, TakeReplayed,
           TakeLive, engine, TypeOK
  <1>2. cursor'[t] = cursor[t] /\ received'[t] = received[t]
    BY DEF Open, Close, Disconnect, ReadFails, Subscribe, ReadPage, Serve, TakeReplayed,
           TakeLive, Consider, engine, TypeOK
  <1> QED
    BY <1>1, <1>2, Untouched

\* Every step keeps the invariant.
LEMMA NextStreamInv == StreamInv /\ [Next]_vars => StreamInv'
  <1> SUFFICES ASSUME StreamInv, [Next]_vars PROVE StreamInv'
    OBVIOUS
  <1>1. TypeOK /\ TypeOK'
    BY NextTypeOK DEF StreamInv
  <1>2. ASSUME NEW t \in Subscribers PROVE FeedInv(t)'
    <2>1. FeedInv(t)
      BY DEF StreamInv
    <2>2. CASE Commit
      BY <2>1, <2>2, Untouched DEF Commit
    <2>3. CASE Publish
      BY <1>1, <2>1, <2>3, PublishKeepsFeed
    <2>4. CASE LosePublish
      BY <1>1, <2>1, <2>4, LosePublishKeepsFeed
    <2>5. CASE Restart
      BY <1>1, <2>1, <2>5, RestartKeepsFeed
    <2>6. ASSUME NEW s \in Subscribers,
                 \/ Open(s) \/ Close(s) \/ Disconnect(s) \/ ReadFails(s) \/ Subscribe(s)
                 \/ ReadPage(s) \/ Serve(s) \/ TakeReplayed(s) \/ TakeLive(s)
          PROVE  FeedInv(t)'
      <3>1. CASE s # t
        BY <1>1, <2>1, <2>6, <3>1, OthersUntouched
      <3>2. CASE s = t
        BY <1>1, <2>1, <2>6, <3>2, OpenKeepsFeed, EndKeepsFeed, SubscribeKeepsFeed,
           ReadPageKeepsFeed, ServeKeepsFeed, TakeReplayedKeepsFeed, TakeLiveKeepsFeed
      <3> QED
        BY <3>1, <3>2
    <2>7. CASE UNCHANGED vars
      BY <2>1, <2>7, Untouched DEF vars
    <2> QED
      BY <2>2, <2>3, <2>4, <2>5, <2>6, <2>7 DEF Next, Server
  <1> QED
    BY <1>1, <1>2 DEF StreamInv

-----------------------------------------------------------------------------
(* The refinement *)

\* A replayed event is the next one of the feed.
LEMMA TakeReplayedDelivers ==
    ASSUME TypeOK, NEW s \in Subscribers, FeedInv(s), TakeReplayed(s)
    PROVE  Feed!Deliver(s, cursor[s] + 1)
  <1>1. /\ cursor[s] + 1 \in 1..head /\ cursor[s] \in Nat
        /\ received' = [received EXCEPT ![s] = Append(received[s], cursor[s] + 1)]
        /\ cursor[s] = Feed!Position(s)
        /\ UNCHANGED <<head, withheld, start>>
    <2>1. /\ cursor[s] + 1 \in 1..head
          /\ received' = [received EXCEPT ![s] = Append(received[s], cursor[s] + 1)]
      BY ReplayedIsNext
    <2>2. cursor[s] \in Nat
      BY FeedTypes
    <2>3. cursor[s] = Feed!Position(s)
      BY DEF FeedInv, CursorIsPosition
    <2>4. UNCHANGED <<head, withheld, start>>
      BY DEF TakeReplayed, engine
    <2> QED
      BY <2>1, <2>2, <2>3, <2>4
  <1>2. cursor[s] + 1 \in (cursor[s] + 1)..head /\ (cursor[s] + 1)..((cursor[s] + 1) - 1) = {}
    BY <1>1
  <1> QED
    BY <1>1, <1>2 DEF Feed!Deliver

\* A live event is dropped, or it is the next announced one of the feed.
LEMMA TakeLiveDelivers ==
    ASSUME TypeOK, NEW s \in Subscribers, FeedInv(s), TakeLive(s)
    PROVE  \/ UNCHANGED <<head, withheld, start, received>>
           \/ Feed!Deliver(s, Head(feed[s].queue)) /\ Head(feed[s].queue) \in 0..head
  <1> DEFINE queue == feed[s].queue
             n == Head(queue)
             last == feed[s].last
  <1>1. client[s] = "serving" /\ feed[s].replay = <<>> /\ UNCHANGED <<head, withheld, start>>
    BY DEF TakeLive, engine
  <1>2. /\ queue # <<>> /\ queue \in Seq(1..head) /\ last \in Nat /\ cursor[s] \in Nat
        /\ head \in Nat /\ announced \in Nat
    BY FeedTypes DEF TakeLive
  <1>3. last <= cursor[s]
    BY <1>1 DEF FeedInv, ReplayIsBehind
  <1>4. /\ \A i \in 1..Len(queue) : queue[i] <= announced
        /\ \A i, j \in 1..Len(queue) : i < j => queue[i] < queue[j]
        /\ \A m \in (last + 1)..announced :
              m <= cursor[s] \/ m \in withheld \/ m \in Elements(queue)
    BY <1>1 DEF FeedInv, QueueIsOrdered, QueueCovers
  <1>5. \/ Consider(s, n)
        \/ UNCHANGED <<cursor, received>>
    BY DEF TakeLive
  <1> HIDE DEF queue
  <1>6. Len(queue) \in Nat \ {0} /\ n = queue[1] /\ n \in 1..head
    BY <1>2, TailOfSequence
  <1>7. DOMAIN queue = 1..Len(queue) /\ \A i \in 1..Len(queue) : queue[i] \in 1..head
    BY <1>2, ElementsOfSequence
  <1>8. CASE received' = received
    BY <1>1, <1>8
  <1>9. CASE Consider(s, n) /\ ~(n <= cursor[s])
    <2>1. received' = [received EXCEPT ![s] = Append(received[s], n)]
      BY <1>9 DEF Consider
    <2> HIDE DEF n, last
    <2>2. n <= announced
      BY <1>4, <1>6
    <2>3. ASSUME NEW m \in (cursor[s] + 1)..(n - 1) PROVE m \in withheld
      <3>1. m \in Nat /\ m < n /\ ~(m <= cursor[s]) /\ m \in (last + 1)..announced
        BY <1>2, <1>3, <1>6, <2>2
      <3>2. m \notin Elements(queue)
        <4> SUFFICES ASSUME NEW i \in 1..Len(queue), queue[i] = m PROVE FALSE
          BY <1>7 DEF Elements
        <4>1. CASE i = 1
          BY <1>6, <3>1, <4>1
        <4>2. CASE 1 < i
          <5>1. queue[1] < queue[i]
            BY <1>4, <1>6, <4>2
          <5> QED
            BY <1>6, <3>1, <5>1
        <4> QED
          BY <1>6, <4>1, <4>2
      <3> QED
        BY <1>4, <3>1, <3>2
    <2>4. n \in (cursor[s] + 1)..head /\ n \in 0..head /\ cursor[s] = Feed!Position(s)
      BY <1>2, <1>6, <1>9 DEF FeedInv, CursorIsPosition
    <2>5. Feed!Deliver(s, n)
      BY <1>1, <2>1, <2>3, <2>4 DEF Feed!Deliver
    <2> QED
      BY <2>4, <2>5 DEF n, queue
  <1> QED
    BY <1>5, <1>8, <1>9 DEF Consider

\* The initial states are those of a feed.
LEMMA InitIsFeed == Init => Feed!Init
  BY DEF Init, Feed!Init

\* Every step of a stream is a step of a feed or leaves it alone.
LEMMA NextIsFeed == StreamInv /\ [Next]_vars => [Feed!Next]_(Feed!feedVars)
  <1> SUFFICES ASSUME StreamInv, [Next]_vars PROVE [Feed!Next]_(Feed!feedVars)
    OBVIOUS
  <1>1. TypeOK
    BY DEF StreamInv
  <1>2. CASE Commit
    BY <1>2 DEF Commit, Feed!Next, Feed!Commit
  <1>3. CASE Publish
    BY <1>3 DEF Publish, Feed!feedVars
  <1>4. CASE LosePublish
    <2>1. announced + 1 \in 1..head
      BY <1>1, <1>4 DEF LosePublish, TypeOK
    <2>2. {announced + 1} = (announced + 1)..(announced + 1)
      BY <1>1 DEF TypeOK
    <2>3. Feed!Withhold(announced + 1, announced + 1)
      BY <1>4, <2>1, <2>2 DEF LosePublish, Feed!Withhold
    <2> QED
      BY <2>1, <2>3 DEF Feed!Next
  <1>5. CASE Restart
    BY <1>5 DEF Restart, Feed!feedVars
  <1>6. ASSUME NEW s \in Subscribers, Open(s) PROVE Feed!Next
    <2>1. PICK n \in 0..head : start' = [start EXCEPT ![s] = n]
      BY <1>6 DEF Open
    <2>2. Feed!Open(s, n)
      BY <1>6, <2>1 DEF Open, engine, Feed!Open
    <2> QED
      BY <2>2 DEF Feed!Next
  <1>7. ASSUME NEW s \in Subscribers,
               \/ Close(s) \/ Disconnect(s) \/ ReadFails(s) \/ Subscribe(s)
               \/ ReadPage(s) \/ Serve(s)
        PROVE  UNCHANGED Feed!feedVars
    BY <1>7 DEF Close, Disconnect, ReadFails, Subscribe, ReadPage, Serve, engine, Feed!feedVars
  <1>8. ASSUME NEW s \in Subscribers, TakeReplayed(s) PROVE Feed!Next
    <2>1. FeedInv(s) /\ cursor[s] + 1 \in 0..head
      BY <1>1, <1>8, ReplayedIsNext DEF StreamInv
    <2>2. Feed!Deliver(s, cursor[s] + 1)
      BY <1>1, <1>8, <2>1, TakeReplayedDelivers
    <2> QED
      BY <2>1, <2>2 DEF Feed!Next
  <1>9. ASSUME NEW s \in Subscribers, TakeLive(s) PROVE [Feed!Next]_(Feed!feedVars)
    <2>1. FeedInv(s)
      BY DEF StreamInv
    <2>2. CASE UNCHANGED <<head, withheld, start, received>>
      BY <2>2 DEF Feed!feedVars
    <2>3. CASE Feed!Deliver(s, Head(feed[s].queue)) /\ Head(feed[s].queue) \in 0..head
      BY <2>3 DEF Feed!Next
    <2> QED
      BY <1>1, <1>9, <2>1, <2>2, <2>3, TakeLiveDelivers
  <1>10. CASE UNCHANGED vars
    BY <1>10 DEF vars, Feed!feedVars
  <1> QED
    BY <1>2, <1>3, <1>4, <1>5, <1>6, <1>7, <1>8, <1>9, <1>10 DEF Next, Server

\* A resumed stream is a feed: across the seam of replay and live, page
\* boundaries, transport failures and restarts, its consumer is handed every
\* announced event of the log once and in order.
THEOREM StreamImplementsEventFeed == Spec => ImplementsEventFeed
  <1>1. Init => StreamInv
    BY InitStreamInv
  <1>2. StreamInv /\ [Next]_vars => StreamInv'
    BY NextStreamInv
  <1>3. Init => Feed!Init
    BY InitIsFeed
  <1>4. StreamInv /\ [Next]_vars => [Feed!Next]_(Feed!feedVars)
    BY NextIsFeed
  <1> QED
    BY <1>1, <1>2, <1>3, <1>4, PTL DEF Spec, ImplementsEventFeed, Feed!Spec

-----------------------------------------------------------------------------
(* What the event feed is worth *)

\* What the consumer of s was handed goes up from where it started, and leaves
\* out nothing but withheld events.
InFull(s) ==
    /\ \A i \in 1..Len(received[s]) : received[s][i] > start[s]
    /\ \A i, j \in 1..Len(received[s]) : i < j => received[s][i] < received[s][j]
    /\ \A n \in (start[s] + 1)..Feed!Position(s) : n \in Elements(received[s]) \/ n \in withheld

ReceivedInFull == \A s \in Subscribers : InFull(s)

FeedTypeOK ==
    /\ head \in Nat
    /\ start \in [Subscribers -> 0..head]
    /\ received \in [Subscribers -> Seq(1..head)]

\* Once a server has read the log to its end, every event announced since the
\* stream was opened has been handed over, or is in the replay or in the queue.
StreamHoldsRest ==
    \A s \in Subscribers :
        client[s] \in {"read", "serving"} =>
            \A n \in (start[s] + 1)..announced :
                n \in withheld \/ n \in Elements(received[s])
                    \/ n \in Elements(feed[s].replay) \/ n \in Elements(feed[s].queue)

\* The guards of Server: whether the stream of s has something to do.
CanServe(s) ==
    \/ client[s] \in {"waiting", "reading", "read"}
    \/ client[s] = "serving" /\ (feed[s].replay # <<>> \/ feed[s].queue # <<>>)

\* An open stream that has nothing to do has handed over everything announced.
StreamRestsDelivered ==
    \A s \in Subscribers :
        client[s] \notin {"closed", "failed"} /\ ~CanServe(s) =>
            \A n \in (start[s] + 1)..announced : n \in Elements(received[s]) \/ n \in withheld

\* The steps a server has to take at most, by where the stream is: reading an
\* event of the log costs two, handing it over one.
StepsOf(h, at, last, replay, queue) ==
    CASE at = "waiting" -> 2 * h + 3 + Len(queue)
      [] at = "reading" -> 2 * (h - last) + Len(replay) + 2 + Len(queue)
      [] at = "read"    -> Len(replay) + 1 + Len(queue)
      [] at = "serving" -> Len(replay) + Len(queue)
      [] OTHER -> 0

StepsLeft(s) == StepsOf(head, client[s], feed[s].last, feed[s].replay, feed[s].queue)

\* Every step of a server leaves its stream less to do, and the others as much as
\* before.
StreamsGetOn ==
    \A s \in Subscribers :
        Server(s) =>
            /\ StepsLeft(s) \in Nat /\ StepsLeft(s)' < StepsLeft(s)
            /\ \A t \in Subscribers \ {s} : StepsLeft(t)' = StepsLeft(t)

\* The position of a consumer is the last and the highest it has.
LEMMA PositionIsLast ==
    ASSUME FeedTypeOK, NEW s \in Subscribers, InFull(s)
    PROVE  /\ Feed!Position(s) \in 0..head /\ Feed!Position(s) >= start[s]
           /\ \A i \in 1..Len(received[s]) : received[s][i] <= Feed!Position(s)
  <1> DEFINE got == received[s]
             from == start[s]
  <1>1. /\ head \in Nat /\ from \in 0..head /\ got \in Seq(1..head)
        /\ \A i \in 1..Len(got) : got[i] > from
        /\ \A i, j \in 1..Len(got) : i < j => got[i] < got[j]
    BY DEF FeedTypeOK, InFull
  <1>2. Feed!Position(s) = IF got = <<>> THEN from ELSE got[Len(got)]
    BY DEF Feed!Position
  <1> HIDE DEF got, from
  <1>3. Len(got) \in Nat /\ \A i \in 1..Len(got) : got[i] \in 1..head
    BY <1>1, ElementsOfSequence
  <1>4. CASE got = <<>>
    BY <1>1, <1>2, <1>4 DEF got, from
  <1>5. CASE got # <<>>
    <2>1. Len(got) \in 1..Len(got)
      BY <1>1, <1>5
    <2>2. got[Len(got)] \in 1..head /\ got[Len(got)] > from
      BY <1>1, <1>3, <2>1
    <2>3. ASSUME NEW i \in 1..Len(got) PROVE got[i] <= got[Len(got)]
      <3>1. i = Len(got) \/ i < Len(got)
        BY <1>3
      <3>2. got[i] \in Nat /\ got[Len(got)] \in Nat
        BY <1>3, <2>1
      <3> QED
        BY <1>1, <2>1, <3>1, <3>2
    <2> QED
      BY <1>1, <1>2, <1>5, <2>2, <2>3 DEF got, from
  <1> QED
    BY <1>4, <1>5

LEMMA FeedTypesKept == FeedTypeOK /\ [Feed!Next]_(Feed!feedVars) => FeedTypeOK'
  <1> SUFFICES ASSUME FeedTypeOK, [Feed!Next]_(Feed!feedVars) PROVE FeedTypeOK'
    OBVIOUS
  <1>1. CASE Feed!Commit
    <2>1. 0..head \subseteq 0..(head + 1) /\ head \in Nat /\ head + 1 \in Nat /\ head <= head + 1
      BY DEF FeedTypeOK
    <2>2. \A s \in Subscribers : received[s] \in Seq(1..(head + 1))
      BY <2>1, SeqOfMore DEF FeedTypeOK
    <2> QED
      BY <1>1, <2>1, <2>2 DEF FeedTypeOK, Feed!Commit
  <1>2. ASSUME NEW a \in 1..head, NEW b \in 1..head, Feed!Withhold(a, b) PROVE FeedTypeOK'
    BY <1>2 DEF FeedTypeOK, Feed!Withhold
  <1>3. ASSUME NEW s \in Subscribers, NEW n \in 0..head, Feed!Open(s, n) PROVE FeedTypeOK'
    <2>1. <<>> \in Seq(1..head)
      OBVIOUS
    <2> QED
      BY <1>3, <2>1 DEF FeedTypeOK, Feed!Open
  <1>4. ASSUME NEW s \in Subscribers, NEW n \in 0..head, Feed!Deliver(s, n) PROVE FeedTypeOK'
    <2>1. n \in 1..head
      <3>1. n # 0
        <4>1. Feed!Position(s) \in Nat
          <5>1. /\ head \in Nat /\ start[s] \in 0..head /\ received[s] \in Seq(1..head)
            BY DEF FeedTypeOK
          <5> DEFINE got == received[s]
          <5>2. got \in Seq(1..head)
            BY <5>1
          <5>3. Feed!Position(s) = IF got = <<>> THEN start[s] ELSE got[Len(got)]
            BY DEF Feed!Position
          <5> HIDE DEF got
          <5>4. Len(got) \in Nat /\ \A i \in 1..Len(got) : got[i] \in 1..head
            BY <5>2, ElementsOfSequence
          <5>5. got # <<>> => Len(got) \in Nat \ {0}
            BY <5>2, TailOfSequence
          <5>6. got # <<>> => got[Len(got)] \in 1..head
            BY <5>4, <5>5
          <5> QED
            BY <5>1, <5>3, <5>6
        <4>2. n \in (Feed!Position(s) + 1)..head
          BY <1>4 DEF Feed!Deliver
        <4> QED
          BY <4>1, <4>2
      <3> QED
        BY <3>1 DEF FeedTypeOK
    <2>2. Append(received[s], n) \in Seq(1..head)
      BY <2>1, AppendToSequence DEF FeedTypeOK
    <2> QED
      BY <1>4, <2>2 DEF FeedTypeOK, Feed!Deliver
  <1>5. CASE UNCHANGED Feed!feedVars
    BY <1>5 DEF FeedTypeOK, Feed!feedVars
  <1> QED
    BY <1>1, <1>2, <1>3, <1>4, <1>5 DEF Feed!Next

\* Delivering the next event that is not withheld leaves none out.
LEMMA DeliverInFull ==
    ASSUME FeedTypeOK, NEW s \in Subscribers, InFull(s), NEW n \in 0..head, Feed!Deliver(s, n)
    PROVE  InFull(s)'
  <1> DEFINE got == received[s]
             more == Append(got, n)
             at == Feed!Position(s)
             from == start[s]
  <1>1. /\ head \in Nat /\ from \in 0..head /\ got \in Seq(1..head)
        /\ \A i \in 1..Len(got) : got[i] > from
        /\ \A i, j \in 1..Len(got) : i < j => got[i] < got[j]
        /\ \A m \in (from + 1)..at : m \in Elements(got) \/ m \in withheld
        /\ at \in 0..head /\ at >= from
        /\ \A i \in 1..Len(got) : got[i] <= at
        /\ n \in (at + 1)..head
        /\ ((at + 1)..(n - 1)) \subseteq withheld
    BY PositionIsLast DEF FeedTypeOK, InFull, Feed!Deliver
  <1>2. received'[s] = more /\ start'[s] = from /\ withheld' = withheld
    BY DEF Feed!Deliver, FeedTypeOK
  <1> HIDE DEF got, from, at
  <1>3. n \in 1..head /\ at \in Nat /\ n \in Nat /\ from \in Nat /\ n > at /\ n > from
    BY <1>1
  <1>4. /\ more # <<>> /\ Len(more) = Len(got) + 1 /\ more[Len(got) + 1] = n
        /\ \A i \in 1..Len(got) : more[i] = got[i]
        /\ more \in Seq(1..head) /\ Len(got) \in Nat
        /\ \A i \in 1..Len(got) : got[i] \in 1..head
    BY <1>1, <1>3, AppendToSequence, ElementsOfSequence
  <1>5. DOMAIN got = 1..Len(got) /\ DOMAIN more = 1..(Len(got) + 1)
    BY <1>1, <1>4, ElementsOfSequence
  <1> HIDE DEF more
  <1>6. \A i \in 1..Len(more) : i \in 1..Len(got) \/ i = Len(got) + 1
    BY <1>4
  <1>7. ASSUME NEW i \in 1..Len(more) PROVE more[i] > from
    BY <1>1, <1>3, <1>4, <1>6
  <1>8. ASSUME NEW i \in 1..Len(more), NEW j \in 1..Len(more), i < j PROVE more[i] < more[j]
    <2>1. i \in 1..Len(got) /\ more[i] = got[i] /\ got[i] \in Nat /\ got[i] <= at
      <3>1. i \in 1..Len(got)
        BY <1>4, <1>6, <1>8
      <3> QED
        BY SMTT(30), <1>1, <1>4, <3>1
    <2>2. CASE j \in 1..Len(got)
      BY <1>1, <1>4, <1>8, <2>1, <2>2
    <2>3. CASE j = Len(got) + 1
      BY <1>3, <1>4, <2>1, <2>3
    <2> QED
      BY <1>6, <2>2, <2>3
  <1>9. Elements(more) = Elements(got) \cup {n}
    BY <1>4, <1>5, <1>6 DEF Elements
  <1>10. (Feed!Position(s))' = n
    BY <1>2, <1>4 DEF Feed!Position
  <1>11. ASSUME NEW m \in (from + 1)..n PROVE m \in Elements(more) \/ m \in withheld
    <2>1. m \in (from + 1)..at \/ m \in (at + 1)..(n - 1) \/ m = n
      BY <1>3
    <2> QED
      BY <1>1, <1>9, <2>1
  <1> QED
    BY <1>2, <1>7, <1>8, <1>10, <1>11 DEF InFull

LEMMA FeedInFullKept ==
    FeedTypeOK /\ ReceivedInFull /\ [Feed!Next]_(Feed!feedVars) => ReceivedInFull'
  <1> SUFFICES ASSUME FeedTypeOK, ReceivedInFull, [Feed!Next]_(Feed!feedVars),
                      NEW t \in Subscribers
               PROVE  InFull(t)'
    BY DEF ReceivedInFull
  <1>1. InFull(t)
    BY DEF ReceivedInFull
  <1>2. ASSUME start'[t] = start[t], received'[t] = received[t], withheld \subseteq withheld'
        PROVE  InFull(t)'
    BY <1>1, <1>2 DEF InFull, Feed!Position
  <1>3. CASE Feed!Commit \/ UNCHANGED Feed!feedVars
    BY <1>2, <1>3 DEF Feed!Commit, Feed!feedVars
  <1>4. ASSUME NEW a \in 1..head, NEW b \in 1..head, Feed!Withhold(a, b) PROVE InFull(t)'
    BY <1>2, <1>4 DEF Feed!Withhold
  <1>5. ASSUME NEW s \in Subscribers, NEW n \in 0..head, Feed!Open(s, n) PROVE InFull(t)'
    <2>1. CASE s # t
      BY <1>2, <1>5, <2>1 DEF Feed!Open, FeedTypeOK
    <2>2. CASE s = t
      <3>1. start'[t] = n /\ received'[t] = <<>> /\ n \in Nat
        BY <1>5, <2>2 DEF Feed!Open, FeedTypeOK
      <3>2. (Feed!Position(t))' = n
        BY <3>1 DEF Feed!Position
      <3>3. (n + 1)..n = {} /\ 1..Len(<<>>) = {}
        BY <3>1
      <3> QED
        BY <3>1, <3>2, <3>3 DEF InFull
    <2> QED
      BY <2>1, <2>2
  <1>6. ASSUME NEW s \in Subscribers, NEW n \in 0..head, Feed!Deliver(s, n) PROVE InFull(t)'
    <2>1. CASE s # t
      BY <1>2, <1>6, <2>1 DEF Feed!Deliver, FeedTypeOK
    <2>2. CASE s = t
      BY <1>1, <1>6, <2>2, DeliverInFull
    <2> QED
      BY <2>1, <2>2
  <1> QED
    BY <1>3, <1>4, <1>5, <1>6 DEF Feed!Next

LEMMA FeedInit == Feed!Init => FeedTypeOK /\ ReceivedInFull
  <1> SUFFICES ASSUME Feed!Init PROVE FeedTypeOK /\ ReceivedInFull
    OBVIOUS
  <1>1. FeedTypeOK
    BY DEF Feed!Init, FeedTypeOK
  <1>2. ASSUME NEW s \in Subscribers PROVE InFull(s)
    <2>1. start[s] = 0 /\ received[s] = <<>>
      BY DEF Feed!Init
    <2>2. Feed!Position(s) = 0 /\ (0 + 1)..0 = {} /\ 1..Len(<<>>) = {}
      BY <2>1 DEF Feed!Position
    <2> QED
      BY <2>1, <2>2 DEF InFull
  <1> QED
    BY <1>1, <1>2 DEF ReceivedInFull

\* What EventFeed promises, whoever implements it: its consumers are handed the
\* events from where they started in ascending order, each once, and all of them
\* but the withheld.
THEOREM FeedsAreInFull == Feed!Spec => []ReceivedInFull
  BY FeedInit, FeedTypesKept, FeedInFullKept, PTL DEF Feed!Spec

\* "With no gap and no duplicate" (rpc.test.ts:659): a resumed stream implements
\* EventFeed and inherits its promise.
THEOREM StreamsHaveNoGap == Spec => []ReceivedInFull
  <1>1. Spec => Feed!Spec
    BY StreamImplementsEventFeed DEF ImplementsEventFeed
  <1> QED
    BY <1>1, FeedsAreInFull

-----------------------------------------------------------------------------
(* An open stream delivers, as far as that is a matter of safety *)

\* Whatever the consumer lacks is on its way to it.
LEMMA RestIsHeld ==
    ASSUME StreamInv, NEW s \in Subscribers, InFull(s), client[s] \in {"read", "serving"},
           NEW n \in (start[s] + 1)..announced
    PROVE  \/ n \in withheld \/ n \in Elements(received[s])
           \/ n \in Elements(feed[s].replay) \/ n \in Elements(feed[s].queue)
  <1> DEFINE c == cursor[s]
             last == feed[s].last
             replay == feed[s].replay
  <1>1. /\ c \in Nat /\ last \in Nat /\ n \in Nat /\ announced \in Nat /\ n <= announced
        /\ start[s] \in Nat /\ n > start[s] /\ replay \in Seq(1..head)
    <2>1. /\ cursor[s] \in 0..head /\ head \in Nat /\ announced \in 0..head /\ start[s] \in 0..head
          /\ feed[s].last \in 0..head /\ feed[s].replay \in Seq(1..head)
      BY FeedTypes DEF StreamInv, TypeOK
    <2> QED
      BY <2>1
  <1>2. FeedInv(s) /\ c = Feed!Position(s)
    BY DEF StreamInv, FeedInv, CursorIsPosition
  <1>3. CASE n <= c
    <2>1. n \in (start[s] + 1)..Feed!Position(s)
      BY <1>1, <1>2, <1>3
    <2> QED
      BY <2>1 DEF InFull
  <1>4. CASE n > c /\ n > last
    <2>1. n \in (last + 1)..announced /\ ~(n <= c)
      BY <1>1, <1>4
    <2> QED
      BY <1>2, <2>1 DEF FeedInv, QueueCovers
  <1>5. CASE n > c /\ n <= last
    <2>1. client[s] = "read" \/ replay # <<>>
      BY <1>1, <1>2, <1>5 DEF FeedInv, ReplayIsBehind
    <2>2. last = c + Len(replay) /\ \A i \in 1..Len(replay) : replay[i] = c + i
      BY <1>2, <2>1 DEF FeedInv, ReplayFollows, Subscribed
    <2> HIDE DEF c, last, replay
    <2>3. Len(replay) \in Nat /\ DOMAIN replay = 1..Len(replay)
      BY <1>1, ElementsOfSequence
    <2>4. n - c \in 1..Len(replay) /\ c + (n - c) = n
      BY <1>1, <1>5, <2>2, <2>3
    <2>5. n \in Elements(replay)
      BY <2>2, <2>3, <2>4 DEF Elements
    <2> QED
      BY <2>5 DEF replay
  <1> QED
    BY <1>1, <1>3, <1>4, <1>5

\* No announced event is lost between the replay, the live queue and the
\* consumer: with the log read to its end, each of them is in one of the three.
THEOREM StreamsHoldTheRest == Spec => []StreamHoldsRest
  <1>1. StreamInv /\ ReceivedInFull => StreamHoldsRest
    BY RestIsHeld DEF StreamHoldsRest, ReceivedInFull
  <1> QED
    BY <1>1, InitStreamInv, NextStreamInv, StreamsHaveNoGap, PTL DEF Spec

\* A stream that rests has delivered: it is behind with nothing announced.
THEOREM StreamsRestDelivered == Spec => []StreamRestsDelivered
  <1>1. StreamInv /\ ReceivedInFull => StreamRestsDelivered
    <2> SUFFICES ASSUME StreamInv, ReceivedInFull, NEW s \in Subscribers,
                        client[s] \notin {"closed", "failed"}, ~CanServe(s),
                        NEW n \in (start[s] + 1)..announced
                 PROVE  n \in Elements(received[s]) \/ n \in withheld
      BY DEF StreamRestsDelivered
    <2>1. client[s] = "serving" /\ feed[s].replay = <<>> /\ feed[s].queue = <<>>
      BY DEF CanServe, StreamInv, TypeOK
    <2>2. Elements(<<>>) = {}
      BY DEF Elements
    <2> QED
      BY <2>1, <2>2, RestIsHeld DEF ReceivedInFull
  <1> QED
    BY <1>1, InitStreamInv, NextStreamInv, StreamsHaveNoGap, PTL DEF Spec

LEMMA StepsIs ==
    ASSUME NEW h, NEW last, NEW replay, NEW queue
    PROVE  /\ StepsOf(h, "waiting", last, replay, queue) = 2 * h + 3 + Len(queue)
           /\ StepsOf(h, "reading", last, replay, queue)
                 = 2 * (h - last) + Len(replay) + 2 + Len(queue)
           /\ StepsOf(h, "read", last, replay, queue) = Len(replay) + 1 + Len(queue)
           /\ StepsOf(h, "serving", last, replay, queue) = Len(replay) + Len(queue)
  BY DEF StepsOf

\* The steps left before and after a step that leaves the log alone.
LEMMA StepsLeftIs ==
    ASSUME NEW s \in Subscribers, NEW at, NEW last, NEW replay, NEW queue
    PROVE  /\ client[s] = at /\ feed[s].last = last /\ feed[s].replay = replay
              /\ feed[s].queue = queue
              => StepsLeft(s) = StepsOf(head, at, last, replay, queue)
           /\ client'[s] = at /\ feed'[s].last = last /\ feed'[s].replay = replay
              /\ feed'[s].queue = queue /\ head' = head
              => StepsLeft(s)' = StepsOf(head, at, last, replay, queue)
  BY DEF StepsLeft

LEMMA StepsAreNat ==
    ASSUME TypeOK, NEW s \in Subscribers
    PROVE  StepsLeft(s) \in Nat
  <1> DEFINE n == Len(feed[s].replay)
             m == Len(feed[s].queue)
             d == head - feed[s].last
  <1>1. n \in Nat /\ m \in Nat /\ d \in Nat /\ head \in Nat
    <2>1. /\ feed[s].last \in 0..head /\ feed[s].replay \in Seq(1..head) /\ head \in Nat
          /\ feed[s].queue \in Seq(1..head)
      BY FeedTypes DEF TypeOK
    <2> QED
      BY <2>1
  <1>2. StepsLeft(s) \in {2 * head + 3 + m, 2 * d + n + 2 + m, n + 1 + m, n + m, 0}
    BY Zenon DEF StepsLeft, StepsOf
  <1> HIDE DEF n, m, d
  <1> QED
    BY <1>1, <1>2

LEMMA ServerGetsOn ==
    ASSUME StreamInv, NEW s \in Subscribers, Server(s)
    PROVE  /\ StepsLeft(s) \in Nat /\ StepsLeft(s)' < StepsLeft(s)
           /\ \A t \in Subscribers \ {s} : StepsLeft(t)' = StepsLeft(t)
  <1>1. TypeOK /\ FeedInv(s)
    BY DEF StreamInv
  <1>2. StepsLeft(s) \in Nat
    BY <1>1, StepsAreNat
  <1> DEFINE replay == feed[s].replay
             queue == feed[s].queue
             last == feed[s].last
  <1>3. /\ head \in Nat /\ last \in 0..head /\ cursor[s] \in 0..head
        /\ replay \in Seq(1..head) /\ queue \in Seq(1..head)
        /\ feed \in [Subscribers -> [last : 0..head, replay : Seq(1..head), queue : Seq(1..head)]]
        /\ client \in [Subscribers -> {"closed", "waiting", "reading", "read", "serving", "failed"}]
    BY <1>1, FeedTypes DEF TypeOK
  <1>4. Len(replay) \in Nat /\ Len(queue) \in Nat
    BY <1>3, ElementsOfSequence
  <1>5. ASSUME Subscribe(s) \/ ReadPage(s) \/ Serve(s) \/ TakeReplayed(s) \/ TakeLive(s),
               NEW t \in Subscribers \ {s}
        PROVE  StepsLeft(t)' = StepsLeft(t)
    <2>1. head' = head
      BY <1>5 DEF Subscribe, ReadPage, Serve, TakeReplayed, TakeLive, engine
    <2>2. client'[t] = client[t]
      BY <1>3, <1>5 DEF Subscribe, ReadPage, Serve, TakeReplayed, TakeLive
    <2>3. feed'[t] = feed[t]
      BY <1>3, <1>5 DEF Subscribe, ReadPage, Serve, TakeReplayed, TakeLive
    <2> QED
      BY <2>1, <2>2, <2>3 DEF StepsLeft
  <1>6. ASSUME Subscribe(s) PROVE StepsLeft(s)' < StepsLeft(s)
    <2>1. /\ client[s] = "waiting" /\ client'[s] = "reading" /\ head' = head
          /\ feed'[s] = FeedFrom(cursor[s])
      BY <1>3, <1>6 DEF Subscribe, engine
    <2>2. feed'[s].last = cursor[s] /\ feed'[s].replay = <<>> /\ feed'[s].queue = <<>>
      BY <2>1 DEF FeedFrom
    <2>3. StepsLeft(s) = 2 * head + 3 + Len(queue)
      BY <2>1, StepsIs DEF StepsLeft
    <2>4. StepsLeft(s)' = 2 * (head - cursor[s]) + Len(<<>>) + 2 + Len(<<>>)
      BY <2>1, <2>2, StepsIs DEF StepsLeft
    <2>5. Len(<<>>) = 0
      OBVIOUS
    <2> HIDE DEF queue
    <2> QED
      BY <1>3, <1>4, <2>3, <2>4, <2>5
  <1>7. ASSUME ReadPage(s) PROVE StepsLeft(s)' < StepsLeft(s)
    <2> DEFINE end == PageEnd(last)
               page == Span(last + 1, end)
               longer == replay \o page
    <2>1. /\ client[s] = "reading" /\ head' = head
          /\ client'[s] = IF end < last + PageSize THEN "read" ELSE "reading"
      BY <1>3, <1>7 DEF ReadPage, engine
    <2>2. feed' = [feed EXCEPT ![s].last = end, ![s].replay = longer]
      BY <1>7 DEF ReadPage
    <2>3. feed'[s].last = end /\ feed'[s].replay = longer /\ feed'[s].queue = queue
      <3> HIDE DEF end, longer
      <3> QED
        BY <1>3, <2>2
    <2>4. /\ end \in last..head /\ page \in Seq(1..head) /\ PageSize \in Nat \ {0}
      BY <1>3, PageEnds, SpanInLog, StreamAssumption
    <2>5. Len(page) = end - last
      <3>1. (end + 1) - (last + 1) = end - last /\ end - last \in Nat
        BY <1>3, <2>4
      <3> HIDE DEF end, last
      <3> QED
        BY <3>1 DEF Span
    <2>6. Len(longer) = Len(replay) + (end - last)
      <3>1. Len(longer) = Len(replay) + Len(page)
        <4> HIDE DEF replay, page
        <4> QED
          BY <1>3, <2>4
      <3> QED
        BY <2>5, <3>1
    <2>7. StepsLeft(s) = 2 * (head - last) + Len(replay) + 2 + Len(queue)
      <3>1. StepsLeft(s) = StepsOf(head, "reading", last, replay, queue)
        BY <2>1, StepsLeftIs
      <3> HIDE DEF replay, queue, last
      <3> QED
        BY <3>1, StepsIs
    <2> HIDE DEF end, page, replay, queue, last, longer
    <2>8. CASE end < last + PageSize
      <3>1. StepsLeft(s)' = StepsOf(head, "read", end, longer, queue)
        BY <2>1, <2>3, <2>8, StepsLeftIs
      <3>2. StepsLeft(s)' = Len(longer) + 1 + Len(queue)
        BY <3>1, StepsIs
      <3> QED
        BY <1>3, <1>4, <2>4, <2>6, <2>7, <3>2
    <2>9. CASE ~(end < last + PageSize)
      <3>1. StepsLeft(s)' = StepsOf(head, "reading", end, longer, queue)
        BY <2>1, <2>3, <2>9, StepsLeftIs
      <3>2. StepsLeft(s)' = 2 * (head - end) + Len(longer) + 2 + Len(queue)
        BY <3>1, StepsIs
      <3>3. end > last
        BY <1>3, <2>4, <2>9
      <3> QED
        BY <1>3, <1>4, <2>4, <2>6, <2>7, <3>2, <3>3
    <2> QED
      BY <2>8, <2>9
  <1>8. ASSUME Serve(s) PROVE StepsLeft(s)' < StepsLeft(s)
    <2>1. /\ client[s] = "read" /\ client'[s] = "serving" /\ UNCHANGED <<feed, head>>
      BY <1>3, <1>8 DEF Serve, engine
    <2>2. /\ StepsLeft(s) = StepsOf(head, "read", last, replay, queue)
          /\ StepsLeft(s)' = StepsOf(head, "serving", last, replay, queue)
      BY <2>1, StepsLeftIs
    <2> HIDE DEF replay, queue, last
    <2>3. StepsLeft(s) = Len(replay) + 1 + Len(queue) /\ StepsLeft(s)' = Len(replay) + Len(queue)
      BY <2>2, StepsIs
    <2> QED
      BY <1>4, <2>3
  <1>9. ASSUME TakeReplayed(s) \/ TakeLive(s) PROVE StepsLeft(s)' < StepsLeft(s)
    <2>1. client[s] = "serving" /\ client'[s] = "serving" /\ head' = head
      BY <1>9 DEF TakeReplayed, TakeLive, engine
    <2> DEFINE replay2 == feed'[s].replay
               queue2 == feed'[s].queue
               last2 == feed'[s].last
    <2>2. Len(replay2) + Len(queue2) < Len(replay) + Len(queue)
      <3>1. CASE TakeReplayed(s)
        <4>1. replay # <<>> /\ feed' = [feed EXCEPT ![s].replay = Tail(replay)]
          BY <3>1 DEF TakeReplayed
        <4>2. replay2 = Tail(replay) /\ queue2 = queue
          BY <1>3, <4>1
        <4>3. Len(Tail(replay)) = Len(replay) - 1
          <5> HIDE DEF replay
          <5> QED
            BY <1>3, <4>1, TailOfSequence
        <4> HIDE DEF replay, queue, replay2, queue2
        <4> QED
          BY <1>4, <4>2, <4>3
      <3>2. CASE TakeLive(s)
        <4>1. queue # <<>> /\ feed' = [feed EXCEPT ![s].queue = Tail(queue)]
          BY <3>2 DEF TakeLive
        <4>2. queue2 = Tail(queue) /\ replay2 = replay
          BY <1>3, <4>1
        <4>3. Len(Tail(queue)) = Len(queue) - 1
          <5> HIDE DEF queue
          <5> QED
            BY <1>3, <4>1, TailOfSequence
        <4> HIDE DEF replay, queue, replay2, queue2
        <4> QED
          BY <1>4, <4>2, <4>3
      <3> QED
        BY <1>9, <3>1, <3>2
    <2>3. /\ StepsLeft(s) = StepsOf(head, "serving", last, replay, queue)
          /\ StepsLeft(s)' = StepsOf(head, "serving", last2, replay2, queue2)
      BY <2>1, StepsLeftIs
    <2> HIDE DEF replay, queue, last, replay2, queue2, last2
    <2>4. StepsLeft(s) = Len(replay) + Len(queue) /\ StepsLeft(s)' = Len(replay2) + Len(queue2)
      BY <2>3, StepsIs
    <2> QED
      BY <2>2, <2>4
  <1> QED
    BY <1>2, <1>5, <1>6, <1>7, <1>8, <1>9 DEF Server

\* A stream that steps gets on: no server reads or hands over for ever unless
\* events are committed or a stream is opened again.  With StreamsRestDelivered
\* this is StreamDelivers, but for the fairness.
THEOREM StreamsAlwaysGetOn == Spec => [][StreamsGetOn]_vars
  <1>1. StreamInv /\ [Next]_vars => [StreamsGetOn]_vars
    BY ServerGetsOn DEF StreamsGetOn
  <1> QED
    BY <1>1, InitStreamInv, NextStreamInv, PTL DEF Spec
=============================================================================

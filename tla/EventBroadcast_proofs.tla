------------------------ MODULE EventBroadcast_proofs ------------------------
(***************************************************************************)
(* Theorems about EventBroadcast, for any subscriptions, requests, page    *)
(* size and bounds: what one shared channel still promises to each of its  *)
(* listeners.                                                              *)
(***************************************************************************)
EXTENDS EventBroadcast, TLAPS

-----------------------------------------------------------------------------
(* Sequences *)

LEMMA SeqOfMore ==
    ASSUME NEW m \in Nat, NEW n \in Nat, m <= n
    PROVE  Seq(1..m) \subseteq Seq(1..n)
  <1>1. 1..m \subseteq 1..n
    OBVIOUS
  <1> QED
    BY <1>1

LEMMA TailHolds ==
    ASSUME NEW S, NEW q \in Seq(S), q # <<>>
    PROVE  /\ Tail(q) \in Seq(S) /\ Head(q) \in S
           /\ Elements(q) = Elements(Tail(q)) \cup {Head(q)}
  <1>1. /\ Tail(q) \in Seq(S) /\ Head(q) = q[1] /\ q[1] \in S
        /\ Len(Tail(q)) = Len(q) - 1 /\ Len(q) \in Nat \ {0}
        /\ DOMAIN q = 1..Len(q) /\ DOMAIN Tail(q) = 1..Len(Tail(q))
        /\ \A i \in 1..Len(Tail(q)) : Tail(q)[i] = q[i + 1]
    OBVIOUS
  <1>2. \A i \in 1..Len(q) : i = 1 \/ (i - 1 \in 1..(Len(q) - 1) /\ (i - 1) + 1 = i)
    BY <1>1
  <1>3. \A i \in 1..(Len(q) - 1) : i + 1 \in 1..Len(q)
    BY <1>1
  <1>4. 1 \in 1..Len(q)
    BY <1>1
  <1>5. Elements(q) \subseteq Elements(Tail(q)) \cup {Head(q)}
    <2> SUFFICES ASSUME NEW i \in 1..Len(q) PROVE q[i] \in Elements(Tail(q)) \cup {Head(q)}
      BY <1>1 DEF Elements
    <2>1. CASE i = 1
      BY <1>1, <2>1
    <2>2. CASE i - 1 \in 1..(Len(q) - 1)
      <3>1. Tail(q)[i - 1] = q[i]
        BY <1>1, <2>2
      <3> QED
        BY <1>1, <2>2, <3>1 DEF Elements
    <2> QED
      BY <1>2, <2>1, <2>2
  <1>6. Elements(Tail(q)) \subseteq Elements(q)
    BY <1>1, <1>3 DEF Elements
  <1> QED
    BY <1>1, <1>4, <1>5, <1>6 DEF Elements

LEMMA AppendHolds ==
    ASSUME NEW S, NEW q \in Seq(S), NEW e \in S
    PROVE  /\ Append(q, e) \in Seq(S)
           /\ Elements(Append(q, e)) = Elements(q) \cup {e}
  <1>1. /\ Append(q, e) \in Seq(S) /\ Len(q) \in Nat
        /\ DOMAIN q = 1..Len(q) /\ DOMAIN Append(q, e) = 1..(Len(q) + 1)
        /\ Append(q, e)[Len(q) + 1] = e
        /\ \A i \in 1..Len(q) : Append(q, e)[i] = q[i]
    OBVIOUS
  <1>2. \A i \in 1..(Len(q) + 1) : i \in 1..Len(q) \/ i = Len(q) + 1
    BY <1>1
  <1>3. Len(q) + 1 \in 1..(Len(q) + 1) /\ \A i \in 1..Len(q) : i \in 1..(Len(q) + 1)
    BY <1>1
  <1> QED
    BY <1>1, <1>2, <1>3 DEF Elements

LEMMA ConcatIsSequence ==
    ASSUME NEW S, NEW p \in Seq(S), NEW q \in Seq(S)
    PROVE  p \o q \in Seq(S) /\ Len(p \o q) = Len(p) + Len(q)
  OBVIOUS

\* A page of the store behind what a replay has read.
LEMMA PageHolds ==
    ASSUME NEW h \in Nat, NEW last \in 0..h, NEW end \in last..h, NEW q \in Seq(1..h)
    PROVE  /\ q \o Span(last + 1, end) \in Seq(1..h)
           /\ Elements(q) \cup (last + 1)..end \subseteq Elements(q \o Span(last + 1, end))
  <1> DEFINE page == Span(last + 1, end)
             n == end - last
  <1>1. n \in Nat /\ (end + 1) - (last + 1) = n /\ last \in Nat /\ end \in Nat
    OBVIOUS
  <1>2. page = [i \in 1..n |-> (last + 1 + i) - 1]
    BY <1>1 DEF Span
  <1>3. /\ page \in Seq(1..h) /\ Len(page) = n /\ DOMAIN page = 1..n
        /\ \A i \in 1..n : page[i] = last + i
    <2>1. \A i \in 1..n : (last + 1 + i) - 1 = last + i /\ last + i \in 1..h
      BY <1>1
    <2> HIDE DEF n
    <2> QED
      BY <1>1, <1>2, <2>1
  <1>4. \A e \in (last + 1)..end : e - last \in 1..n /\ last + (e - last) = e
    BY <1>1
  <1> HIDE DEF n, page
  <1>5. /\ q \o page \in Seq(1..h) /\ Len(q \o page) = Len(q) + n /\ Len(q) \in Nat
        /\ DOMAIN (q \o page) = 1..(Len(q) + n) /\ DOMAIN q = 1..Len(q)
        /\ \A i \in 1..Len(q) : (q \o page)[i] = q[i]
        /\ \A i \in 1..n : (q \o page)[Len(q) + i] = page[i]
    <2>1. Len(q) \in Nat /\ DOMAIN q = 1..Len(q) /\ page \in Seq(1..h)
      BY <1>3
    <2>2. q \o page \in Seq(1..h) /\ Len(q \o page) = Len(q) + n
      BY <1>3, <2>1, ConcatIsSequence
    <2>3. DOMAIN (q \o page) = 1..(Len(q) + n)
      BY <2>2
    <2>4. \A i \in 1..(Len(q) + n) :
             (q \o page)[i] = IF i <= Len(q) THEN q[i] ELSE page[i - Len(q)]
      BY <1>3, <2>1
    <2>5. \A i \in 1..Len(q) : i \in 1..(Len(q) + n) /\ i <= Len(q)
      BY <1>1, <2>1
    <2>6. \A i \in 1..n : /\ Len(q) + i \in 1..(Len(q) + n) /\ ~(Len(q) + i <= Len(q))
                           /\ (Len(q) + i) - Len(q) = i
      BY <1>1, <2>1
    <2> QED
      BY <2>1, <2>2, <2>3, <2>4, <2>5, <2>6
  <1>6. \A i \in 1..Len(q) : i \in 1..(Len(q) + n)
    BY <1>1, <1>5
  <1>7. \A i \in 1..n : Len(q) + i \in 1..(Len(q) + n)
    BY <1>1, <1>5
  <1>8. Elements(q) \subseteq Elements(q \o page)
    BY <1>5, <1>6 DEF Elements
  <1>9. ASSUME NEW e \in (last + 1)..end PROVE e \in Elements(q \o page)
    <2>1. (q \o page)[Len(q) + (e - last)] = e
      BY <1>3, <1>4, <1>5
    <2> QED
      BY <1>4, <1>5, <1>7, <2>1 DEF Elements
  <1> QED
    BY <1>5, <1>8, <1>9 DEF page

-----------------------------------------------------------------------------
(* Types *)

ReplayType(h) ==
    [at : {"unused", "reading", "pushing", "failed"}, last : 0..h, rest : Seq(1..h)]

TypeInv ==
    /\ head \in 0..MaxEvents /\ announced \in 0..head
    /\ live \in Seq(1..announced)
    /\ replays \in [Requests -> ReplayType(head)]
    /\ listener \in [Subscribers -> {"closed", "asking", "listening", "waiting"}]
    /\ request \in [Subscribers -> SUBSET Requests]
    /\ start \in [Subscribers -> 0..head]
    /\ from \in [Subscribers -> 0..head]
    /\ cursor \in [Subscribers -> 0..head]
    /\ pushed \in [Subscribers -> SUBSET (1..head)]
    /\ received \in [Subscribers -> Seq(1..head)]
    /\ faults \in 0..MaxFaults

LEMMA TypesGrow ==
    ASSUME NEW m \in Nat, NEW n \in Nat, m <= n
    PROVE  /\ ReplayType(m) \subseteq ReplayType(n)
           /\ 0..m \subseteq 0..n /\ 1..m \subseteq 1..n
           /\ Seq(1..m) \subseteq Seq(1..n)
  BY SeqOfMore DEF ReplayType

LEMMA Numbers ==
    ASSUME TypeInv
    PROVE  /\ head \in Nat /\ announced \in Nat /\ announced <= head
           /\ \A s \in Subscribers : cursor[s] \in 0..head /\ cursor[s] \in Nat
                                     /\ from[s] \in 0..head /\ from[s] \in Nat
           /\ \A r \in Requests : replays[r] \in ReplayType(head)
  <1>1. head \in Nat
    BY BroadcastAssumption DEF TypeInv
  <1> QED
    BY <1>1 DEF TypeInv

LEMMA TypeInvInit == Init => TypeInv
  BY BroadcastAssumption DEF Init, TypeInv, ReplayType, Unused

\* A push moves each cursor forward, or leaves it.
LEMMA PushTypes ==
    ASSUME TypeInv, NEW n \in 1..head, Push(n)
    PROVE  /\ cursor' \in [Subscribers -> 0..head]
           /\ pushed' \in [Subscribers -> SUBSET (1..head)]
           /\ received' \in [Subscribers -> Seq(1..head)]
  <1>1. n \in 0..head
    BY Numbers
  <1>2. cursor' \in [Subscribers -> 0..head]
    BY <1>1 DEF Push, TypeInv
  <1>3. pushed' \in [Subscribers -> SUBSET (1..head)]
    BY DEF Push, TypeInv
  <1>4. \A s \in Subscribers : Append(received[s], n) \in Seq(1..head)
    BY DEF TypeInv
  <1>5. received' \in [Subscribers -> Seq(1..head)]
    BY <1>4 DEF Push, TypeInv
  <1> QED
    BY <1>2, <1>3, <1>5

LEMMA TypeInvEngine ==
    ASSUME TypeInv
    PROVE  /\ Commit => TypeInv'
           /\ Publish => TypeInv'
  <1>1. CASE Commit
    <2>1. head' \in 0..MaxEvents /\ announced \in 0..head' /\ head <= head' /\ head' \in Nat
      BY <1>1, Numbers, BroadcastAssumption DEF Commit, TypeInv
    <2>2. /\ ReplayType(head) \subseteq ReplayType(head') /\ 0..head \subseteq 0..head'
          /\ 1..head \subseteq 1..head' /\ Seq(1..head) \subseteq Seq(1..head')
      BY <2>1, Numbers, TypesGrow
    <2>3. UNCHANGED <<announced, shell, window, faults>>
      BY <1>1 DEF Commit
    <2> QED
      BY <2>1, <2>2, <2>3 DEF TypeInv, shell, window
  <1>2. CASE Publish
    <2>1. announced + 1 \in 0..head /\ announced + 1 \in 1..(announced + 1) /\ announced \in Nat
      BY <1>2, Numbers DEF Publish
    <2>2. live \in Seq(1..(announced + 1))
      BY <2>1, SeqOfMore DEF TypeInv
    <2>3. live' \in Seq(1..(announced + 1))
      <3>1. Append(live, announced + 1) \in Seq(1..(announced + 1))
        BY <2>1, <2>2
      <3> QED
        BY <1>2, <2>2, <3>1 DEF Publish
    <2> QED
      BY <1>2, <2>1, <2>3 DEF Publish, TypeInv, window
  <1> QED
    BY <1>1, <1>2

\* The answer to an events request starts a replay.
LEMMA ForkTypes ==
    ASSUME TypeInv, NEW s \in Subscribers, NEW r \in Requests, Fork(s, r)
    PROVE  replays' \in [Requests -> ReplayType(head)] /\ UNCHANGED live
  <1>1. replays[r] \in ReplayType(head) /\ from[s] \in 0..head
    BY Numbers
  <1>2. [replays[r] EXCEPT !.at = "reading", !.last = from[s]] \in ReplayType(head)
    BY <1>1 DEF ReplayType
  <1> QED
    BY <1>2 DEF Fork, TypeInv

LEMMA TypeInvWindow ==
    ASSUME TypeInv, NEW s \in Subscribers
    PROVE  /\ Open(s) => TypeInv'
           /\ Close(s) => TypeInv'
           /\ Resume(s) => TypeInv'
           /\ Request(s) => TypeInv'
           /\ RequestFails(s) => TypeInv'
  <1>1. CASE Open(s)
    <2>1. PICK n \in 0..head : /\ Register(s, n)
                               /\ start' = [start EXCEPT ![s] = n]
                               /\ cursor' = [cursor EXCEPT ![s] = n]
      BY <1>1 DEF Open
    <2>2. UNCHANGED <<head, announced, live, replays, request, received, faults>>
      BY <1>1 DEF Open, engine, shell
    <2> QED
      BY <2>1, <2>2 DEF Register, TypeInv
  <1>2. CASE Close(s)
    <2>1. 0 \in 0..head /\ <<>> \in Seq(1..head)
      BY Numbers
    <2> QED
      BY <1>2, <2>1 DEF Close, TypeInv, engine, shell
  <1>3. CASE Resume(s)
    <2>1. Register(s, cursor[s]) /\ cursor[s] \in 0..head
      BY <1>3, Numbers DEF Resume
    <2>2. UNCHANGED <<head, announced, live, replays, request, start, cursor, received, faults>>
      BY <1>3 DEF Resume, engine, shell
    <2> QED
      BY <2>1, <2>2 DEF Register, TypeInv
  <1>4. CASE Request(s)
    <2>1. PICK r \in Requests : Fork(s, r) /\ request' = [request EXCEPT ![s] = {r}]
      BY <1>4 DEF Request
    <2>2. replays' \in [Requests -> ReplayType(head)] /\ UNCHANGED live
      BY <2>1, ForkTypes
    <2> QED
      BY <1>4, <2>1, <2>2 DEF Request, TypeInv, engine
  <1>5. CASE RequestFails(s)
    <2>1. replays' \in [Requests -> ReplayType(head)] /\ UNCHANGED live
      BY <1>5, ForkTypes DEF RequestFails, shell, TypeInv
    <2>2. faults' \in 0..MaxFaults
      BY <1>5, BroadcastAssumption DEF RequestFails, Fault, TypeInv
    <2> QED
      BY <1>5, <2>1, <2>2 DEF RequestFails, TypeInv, engine
  <1> QED
    BY <1>1, <1>2, <1>3, <1>4, <1>5

\* What the next page of a replay is.
LEMMA PageEnds ==
    ASSUME TypeInv, NEW r \in Requests
    PROVE  LET last == replays[r].last
               end == PageEnd(last)
           IN  /\ last \in 0..head /\ end \in last..head
               /\ end < last + PageSize => end = head
  <1> DEFINE last == replays[r].last
  <1>1. last \in 0..head /\ head \in Nat /\ PageSize \in Nat \ {0}
    BY Numbers, BroadcastAssumption DEF ReplayType
  <1> QED
    BY <1>1 DEF PageEnd

LEMMA TypeInvFibers ==
    ASSUME TypeInv
    PROVE  /\ PushLive => TypeInv'
           /\ \A r \in Requests : ReadPage(r) => TypeInv'
           /\ \A r \in Requests : ReplayFails(r) => TypeInv'
           /\ \A r \in Requests : PushReplayed(r) => TypeInv'
  <1>1. CASE PushLive
    <2>1. Tail(live) \in Seq(1..announced) /\ Head(live) \in 1..announced
      BY <1>1, TailHolds DEF PushLive, TypeInv
    <2>2. Head(live) \in 1..head
      BY <2>1, Numbers
    <2> QED
      BY <1>1, <2>1, <2>2, PushTypes DEF PushLive, TypeInv, engine
  <1>2. ASSUME NEW r \in Requests, ReadPage(r) PROVE TypeInv'
    <2> DEFINE last == replays[r].last
               end == PageEnd(last)
               read == [at |-> IF end < last + PageSize THEN "pushing" ELSE "reading",
                        last |-> end, rest |-> replays[r].rest \o Span(last + 1, end)]
    <2>1. last \in 0..head /\ end \in last..head
      BY PageEnds
    <2>2. replays[r].rest \in Seq(1..head) /\ head \in Nat
      BY Numbers DEF ReplayType
    <2>3. read.rest \in Seq(1..head)
      BY <2>1, <2>2, PageHolds
    <2>4. end \in 0..head
      BY <2>1, <2>2
    <2> HIDE DEF end, last
    <2>5. read \in ReplayType(head)
      BY <2>3, <2>4 DEF ReplayType
    <2>6. replays' = [replays EXCEPT ![r] = read]
      BY <1>2 DEF ReadPage, end, last
    <2> HIDE DEF read
    <2> QED
      BY <1>2, <2>5, <2>6 DEF ReadPage, TypeInv, engine, window
  <1>3. ASSUME NEW r \in Requests, ReplayFails(r) PROVE TypeInv'
    <2>1. [replays[r] EXCEPT !.at = "failed", !.rest = <<>>] \in ReplayType(head)
      <3>1. replays[r] \in ReplayType(head) /\ <<>> \in Seq(1..head)
        BY Numbers
      <3> QED
        BY <3>1 DEF ReplayType
    <2>2. faults' \in 0..MaxFaults
      BY <1>3, BroadcastAssumption DEF ReplayFails, Fault, TypeInv
    <2> QED
      BY <1>3, <2>1, <2>2 DEF ReplayFails, TypeInv, engine, window
  <1>4. ASSUME NEW r \in Requests, PushReplayed(r) PROVE TypeInv'
    <2>1. replays[r].rest \in Seq(1..head) /\ replays[r] \in ReplayType(head)
      BY Numbers DEF ReplayType
    <2>2. Tail(replays[r].rest) \in Seq(1..head) /\ Head(replays[r].rest) \in 1..head
      BY <1>4, <2>1, TailHolds DEF PushReplayed
    <2>3. [replays[r] EXCEPT !.rest = Tail(replays[r].rest)] \in ReplayType(head)
      BY <2>1, <2>2 DEF ReplayType
    <2> QED
      BY <1>4, <2>2, <2>3, PushTypes DEF PushReplayed, TypeInv, engine
  <1> QED
    BY <1>1, <1>2, <1>3, <1>4

LEMMA TypeInvStep == TypeInv /\ [Next]_vars => TypeInv'
  <1> SUFFICES ASSUME TypeInv, [Next]_vars PROVE TypeInv'
    OBVIOUS
  <1>1. CASE UNCHANGED vars
    BY <1>1 DEF vars, engine, shell, window, TypeInv
  <1> QED
    BY <1>1, TypeInvEngine, TypeInvWindow, TypeInvFibers DEF Next

FlagInv == pusher \in BOOLEAN

LEMMA FlagInvStep == FlagInv /\ [Next]_vars => FlagInv'
  BY Zenon DEF FlagInv, Next, Commit, Publish, PushLive, Open, Close, Resume, Request, RequestFails,
    Fork, ReadPage, ReplayFails, PushReplayed, vars, shell

\* Every variable has its shape, and no cursor is past the end of the log.
THEOREM TypeCorrect == Spec => []TypeOK
  <1>1. Init => TypeInv /\ FlagInv
    BY TypeInvInit DEF Init, FlagInv
  <1>2. TypeInv /\ FlagInv /\ [Next]_vars => TypeInv' /\ FlagInv'
    BY TypeInvStep, FlagInvStep
  <1>3. TypeInv /\ FlagInv => TypeOK
    <2>1. TypeInv => replays \in [Requests -> [at : {"unused", "reading", "pushing", "failed"},
                                              last : 0..head, rest : Seq(1..head)]]
      BY DEF TypeInv, ReplayType
    <2> QED
      BY <2>1, Zenon DEF TypeInv, TypeOK, FlagInv
  <1> QED
    BY <1>1, <1>2, <1>3, PTL DEF Spec

-----------------------------------------------------------------------------
(* The order of what a consumer is handed *)

OrderInv ==
    \A s \in Subscribers :
        /\ \A i \in 1..Len(received[s]) : received[s][i] <= cursor[s]
        /\ \A i, j \in 1..Len(received[s]) : i < j => received[s][i] < received[s][j]

LEMMA OrderInvPush ==
    ASSUME TypeInv, OrderInv, NEW n \in 1..head, Push(n)
    PROVE  OrderInv'
  <1> SUFFICES ASSUME NEW s \in Subscribers
               PROVE  /\ \A i \in 1..Len(received'[s]) : received'[s][i] <= cursor'[s]
                      /\ \A i, j \in 1..Len(received'[s]) :
                            i < j => received'[s][i] < received'[s][j]
    BY DEF OrderInv
  <1> DEFINE old == received[s]
             longer == Append(old, n)
  <1>1. /\ \A i \in 1..Len(old) : old[i] <= cursor[s]
        /\ \A i, j \in 1..Len(old) : i < j => old[i] < old[j]
    BY DEF OrderInv
  <1>2. n \in Nat /\ cursor[s] \in Nat /\ old \in Seq(1..head) /\ head \in Nat
    BY Numbers DEF TypeInv
  <1>3. CASE Registered(s) /\ n > cursor[s]
    <2>1. received'[s] = longer /\ cursor'[s] = n
      BY <1>3 DEF Push, IsNew
    <2>2. /\ Len(old) \in Nat /\ Len(longer) = Len(old) + 1 /\ longer[Len(old) + 1] = n
          /\ \A i \in 1..Len(old) : longer[i] = old[i] /\ old[i] \in Nat
      BY <1>2
    <2> HIDE DEF longer, old
    <2>3. \A i \in 1..Len(longer) : i \in 1..Len(old) \/ i = Len(old) + 1
      BY <2>2
    <2>4. ASSUME NEW i \in 1..Len(old)
          PROVE  longer[i] \in Nat /\ longer[i] < n
      <3>1. longer[i] = old[i] /\ old[i] \in Nat
        BY <2>2
      <3>2. old[i] <= cursor[s]
        BY <1>1
      <3>3. n \in Nat /\ cursor[s] \in Nat /\ n > cursor[s]
        BY <1>2, <1>3
      <3> QED
        BY <3>1, <3>2, <3>3
    <2>5. \A i \in 1..Len(longer) : longer[i] <= n
      BY <1>2, <2>2, <2>3, <2>4
    <2>6. ASSUME NEW i \in 1..Len(longer), NEW j \in 1..Len(longer), i < j
          PROVE  longer[i] < longer[j]
      <3>1. i \in 1..Len(old)
        BY <2>2, <2>6
      <3>2. CASE j \in 1..Len(old)
        BY <1>1, <2>2, <2>6, <3>1, <3>2
      <3>3. CASE j = Len(old) + 1
        BY <2>2, <2>4, <3>1, <3>3
      <3> QED
        BY <2>3, <3>2, <3>3
    <2> QED
      BY <2>1, <2>5, <2>6
  <1>4. CASE ~(Registered(s) /\ n > cursor[s])
    <2>1. received'[s] = old /\ cursor'[s] = cursor[s]
      BY <1>4 DEF Push, IsNew
    <2> QED
      BY <1>1, <2>1
  <1> QED
    BY <1>3, <1>4

\* A subscription that is not open has been handed nothing.
ClosedInv == \A s \in Subscribers : listener[s] = "closed" => received[s] = <<>>

LEMMA ClosedInvStep == TypeInv /\ ClosedInv /\ [Next]_vars => ClosedInv'
  <1> SUFFICES ASSUME TypeInv, ClosedInv, [Next]_vars,
                      NEW s \in Subscribers, listener'[s] = "closed"
               PROVE  received'[s] = <<>>
    BY DEF ClosedInv
  <1>1. CASE \E n : Push(n) /\ UNCHANGED listener
    BY <1>1 DEF ClosedInv, Push, Registered
  <1>2. CASE UNCHANGED <<listener, received>>
    BY <1>2 DEF ClosedInv
  <1>3. ASSUME NEW u \in Subscribers, Open(u) PROVE received'[s] = <<>>
    <2>1. listener' = [listener EXCEPT ![u] = "asking"] /\ UNCHANGED received
      BY <1>3 DEF Open, Register
    <2> QED
      BY <2>1 DEF ClosedInv, TypeInv
  <1>4. ASSUME NEW u \in Subscribers, Close(u) PROVE received'[s] = <<>>
    <2>1. /\ listener' = [listener EXCEPT ![u] = "closed"]
          /\ received' = [received EXCEPT ![u] = <<>>]
      BY <1>4 DEF Close
    <2> QED
      BY <2>1 DEF ClosedInv, TypeInv
  <1>5. ASSUME NEW u \in Subscribers, Resume(u) \/ Request(u) \/ RequestFails(u)
        PROVE  received'[s] = <<>>
    <2>1. UNCHANGED received /\ \E at \in {"asking", "listening", "waiting"} :
                                   listener' = [listener EXCEPT ![u] = at]
      BY <1>5 DEF Resume, Register, Request, RequestFails
    <2> QED
      BY <2>1 DEF ClosedInv, TypeInv
  <1>6. CASE Commit \/ Publish \/ \E r \in Requests : ReadPage(r) \/ ReplayFails(r)
    BY <1>2, <1>6 DEF Commit, Publish, ReadPage, ReplayFails, window
  <1>7. CASE PushLive \/ \E r \in Requests : PushReplayed(r)
    BY <1>1, <1>7 DEF PushLive, PushReplayed
  <1>8. CASE UNCHANGED vars
    BY <1>2, <1>8 DEF vars, window
  <1> QED
    BY <1>3, <1>4, <1>5, <1>6, <1>7, <1>8 DEF Next

LEMMA OrderInvStep == TypeInv /\ OrderInv /\ ClosedInv /\ [Next]_vars => OrderInv'
  <1> SUFFICES ASSUME TypeInv, OrderInv, ClosedInv, [Next]_vars PROVE OrderInv'
    OBVIOUS
  <1>1. CASE PushLive
    <2>1. Head(live) \in 1..announced
      BY <1>1, TailHolds DEF PushLive, TypeInv
    <2> QED
      BY <1>1, <2>1, Numbers, OrderInvPush DEF PushLive
  <1>2. ASSUME NEW r \in Requests, PushReplayed(r) PROVE OrderInv'
    <2>1. replays[r].rest \in Seq(1..head)
      BY Numbers DEF ReplayType
    <2>2. Head(replays[r].rest) \in 1..head
      BY <1>2, <2>1, TailHolds DEF PushReplayed
    <2> QED
      BY <1>2, <2>2, OrderInvPush DEF PushReplayed
  <1>3. ASSUME NEW s \in Subscribers, Open(s) PROVE OrderInv'
    <2>1. PICK n \in 0..head : cursor' = [cursor EXCEPT ![s] = n]
      BY <1>3 DEF Open
    <2>2. UNCHANGED received
      BY <1>3 DEF Open
    <2>3. Len(received[s]) = 0
      BY <1>3 DEF Open, ClosedInv
    <2> SUFFICES ASSUME NEW u \in Subscribers
                 PROVE  /\ \A i \in 1..Len(received[u]) : received[u][i] <= cursor'[u]
                        /\ \A i, j \in 1..Len(received[u]) :
                              i < j => received[u][i] < received[u][j]
      BY <2>2 DEF OrderInv
    <2>4. CASE u = s
      <3>1. 1..Len(received[u]) = {}
        BY <2>3, <2>4
      <3> QED
        BY <3>1
    <2>5. CASE u # s
      BY <2>1, <2>5 DEF OrderInv, TypeInv
    <2> QED
      BY <2>4, <2>5
  <1>4. ASSUME NEW s \in Subscribers, Close(s) PROVE OrderInv'
    <2>1. received' = [received EXCEPT ![s] = <<>>] /\ cursor' = [cursor EXCEPT ![s] = 0]
      BY <1>4 DEF Close
    <2> QED
      BY <2>1 DEF OrderInv, TypeInv
  <1>5. CASE UNCHANGED <<received, cursor>>
    BY <1>5 DEF OrderInv
  <1>6. CASE \E s \in Subscribers : Resume(s) \/ Request(s) \/ RequestFails(s)
    BY <1>5, <1>6 DEF Resume, Request, RequestFails
  <1>7. CASE Commit \/ Publish \/ \E r \in Requests : ReadPage(r) \/ ReplayFails(r)
    BY <1>5, <1>7 DEF Commit, Publish, ReadPage, ReplayFails, window
  <1>8. CASE UNCHANGED vars
    BY <1>5, <1>8 DEF vars, window
  <1> QED
    BY <1>1, <1>2, <1>3, <1>4, <1>6, <1>7, <1>8 DEF Next

\* However many replays run into the channel beside the live events, a consumer
\* is handed no event twice and none after a later one.
THEOREM ChannelKeepsOrder == Spec => []HandedOverOnceInOrder
  <1>1. Init => TypeInv /\ OrderInv /\ ClosedInv
    <2>1. Init => OrderInv /\ ClosedInv
      BY DEF Init, OrderInv, ClosedInv
    <2> QED
      BY <2>1, TypeInvInit
  <1>2. TypeInv /\ OrderInv /\ ClosedInv /\ [Next]_vars => (TypeInv /\ OrderInv /\ ClosedInv)'
    BY TypeInvStep, OrderInvStep, ClosedInvStep
  <1>3. TypeInv /\ OrderInv => HandedOverOnceInOrder
    <2> SUFFICES ASSUME TypeInv, OrderInv, NEW s \in Subscribers
                 PROVE  \A i, j \in DOMAIN received[s] :
                            i < j => received[s][i] < received[s][j]
      BY DEF HandedOverOnceInOrder
    <2>1. DOMAIN received[s] = 1..Len(received[s])
      BY DEF TypeInv
    <2> QED
      BY <2>1 DEF OrderInv
  <1> QED
    BY <1>1, <1>2, <1>3, PTL DEF Spec

-----------------------------------------------------------------------------
(* What covers a request *)

\* The live pusher runs when a listener has its answer.
PusherInv == \A s \in Subscribers : listener[s] = "listening" => pusher

LEMMA PusherInvStep == TypeInv /\ PusherInv /\ [Next]_vars => PusherInv'
  <1> SUFFICES ASSUME TypeInv, PusherInv, [Next]_vars,
                      NEW s \in Subscribers, listener'[s] = "listening"
               PROVE  pusher'
    BY DEF PusherInv
  <1>1. CASE pusher /\ (UNCHANGED pusher \/ pusher' = TRUE)
    BY <1>1, Zenon
  <1>2. CASE UNCHANGED <<listener, pusher>>
    BY <1>2, Zenon DEF PusherInv
  <1>3. ASSUME NEW u \in Subscribers, Request(u) PROVE pusher'
    BY <1>3, Zenon DEF Request, Fork
  <1>4. ASSUME NEW u \in Subscribers,
               UNCHANGED pusher \/ pusher' = TRUE,
               \E at \in {"closed", "asking", "waiting"} :
                   listener' = [listener EXCEPT ![u] = at]
        PROVE  pusher'
    <2>1. listener[s] = "listening"
      BY <1>4 DEF TypeInv
    <2> QED
      BY <1>1, <1>4, <2>1, Zenon DEF PusherInv
  <1>5. ASSUME NEW u \in Subscribers, Open(u) \/ Close(u) \/ Resume(u) PROVE pusher'
    <2>1. UNCHANGED pusher
      BY <1>5, Zenon DEF Open, Close, Resume, shell
    <2>2. \E at \in {"closed", "asking", "waiting"} : listener' = [listener EXCEPT ![u] = at]
      BY <1>5 DEF Open, Close, Resume, Register
    <2> QED
      BY <1>4, <2>1, <2>2
  <1>6. ASSUME NEW u \in Subscribers, RequestFails(u) PROVE pusher'
    <2>1. UNCHANGED pusher \/ pusher' = TRUE
      BY <1>6, Zenon DEF RequestFails, shell, Fork
    <2>2. \E at \in {"closed", "asking", "waiting"} : listener' = [listener EXCEPT ![u] = at]
      BY <1>6 DEF RequestFails
    <2> QED
      BY <1>4, <2>1, <2>2
  <1>7. CASE Commit \/ Publish \/ PushLive
             \/ \E r \in Requests : ReadPage(r) \/ ReplayFails(r) \/ PushReplayed(r)
    BY <1>2, <1>7, Zenon DEF Commit, Publish, PushLive, ReadPage, ReplayFails, PushReplayed,
      shell, window
  <1>8. CASE UNCHANGED vars
    BY <1>2, <1>8, Zenon DEF vars, shell, window
  <1> QED
    BY <1>3, <1>5, <1>6, <1>7, <1>8, Zenon DEF Next

\* What the replay r owes the listener s, and where it is.
Owed(s, r) ==
    /\ replays[r].at # "unused"
    /\ replays[r].at = "reading" =>
          /\ from[s] <= replays[r].last
          /\ (from[s] + 1)..replays[r].last \subseteq Elements(replays[r].rest)
    /\ replays[r].at = "pushing" =>
          (from[s] + 1)..announced
              \subseteq pushed[s] \cup Elements(replays[r].rest) \cup Elements(live)

CovInv ==
    \A s \in Subscribers : \A r \in request[s] : listener[s] = "listening" => Owed(s, r)

\* A step that only takes a listener away, or starts replays.
LEMMA CovInvOthers ==
    ASSUME TypeInv, CovInv, NEW u \in Subscribers,
           listener'[u] # "listening",
           \A s \in Subscribers \ {u} :
               /\ listener'[s] = listener[s] /\ request'[s] = request[s]
               /\ from'[s] = from[s] /\ pushed'[s] = pushed[s],
           UNCHANGED <<announced, live>>,
           \A r \in Requests : replays[r].at # "unused" => replays'[r] = replays[r]
    PROVE  CovInv'
  <1> SUFFICES ASSUME NEW s \in Subscribers, NEW r \in request'[s], listener'[s] = "listening"
               PROVE  Owed(s, r)'
    BY DEF CovInv
  <1>1. s \in Subscribers \ {u}
    OBVIOUS
  <1>2. /\ listener[s] = "listening" /\ r \in request[s]
        /\ from'[s] = from[s] /\ pushed'[s] = pushed[s]
    BY <1>1
  <1>3. r \in Requests
    BY <1>2 DEF TypeInv
  <1>4. Owed(s, r)
    BY <1>2 DEF CovInv
  <1>5. replays'[r] = replays[r]
    BY <1>3, <1>4 DEF Owed
  <1> QED
    BY <1>2, <1>4, <1>5 DEF Owed

LEMMA CovInvWindow ==
    ASSUME TypeInv, CovInv, NEW u \in Subscribers
    PROVE  /\ Open(u) => CovInv'
           /\ Close(u) => CovInv'
           /\ Resume(u) => CovInv'
           /\ RequestFails(u) => CovInv'
  <1>1. ASSUME NEW n, Register(u, n), UNCHANGED <<announced, shell, request>> PROVE CovInv'
    <2>1. /\ listener'[u] # "listening"
          /\ \A s \in Subscribers \ {u} :
               /\ listener'[s] = listener[s] /\ request'[s] = request[s]
               /\ from'[s] = from[s] /\ pushed'[s] = pushed[s]
      BY <1>1 DEF Register, TypeInv
    <2>2. UNCHANGED <<announced, live, replays>>
      BY <1>1 DEF shell
    <2> QED
      BY <2>1, <2>2, CovInvOthers
  <1>2. CASE Open(u)
    BY <1>1, <1>2 DEF Open, engine
  <1>3. CASE Resume(u)
    BY <1>1, <1>3 DEF Resume, engine
  <1>4. CASE Close(u)
    <2>1. /\ listener'[u] # "listening"
          /\ \A s \in Subscribers \ {u} :
               /\ listener'[s] = listener[s] /\ request'[s] = request[s]
               /\ from'[s] = from[s] /\ pushed'[s] = pushed[s]
      BY <1>4 DEF Close, TypeInv
    <2>2. UNCHANGED <<announced, live, replays>>
      BY <1>4 DEF Close, engine, shell
    <2> QED
      BY <2>1, <2>2, CovInvOthers
  <1>5. CASE RequestFails(u)
    <2>1. /\ listener'[u] # "listening"
          /\ \A s \in Subscribers \ {u} :
               /\ listener'[s] = listener[s] /\ request'[s] = request[s]
               /\ from'[s] = from[s] /\ pushed'[s] = pushed[s]
      BY <1>5 DEF RequestFails, TypeInv
    <2>2. UNCHANGED announced
      BY <1>5 DEF RequestFails, engine
    <2>3. UNCHANGED <<live, replays>> \/ \E q \in Requests : Fork(u, q)
      BY <1>5 DEF RequestFails, shell
    <2>4. UNCHANGED live /\ \A r \in Requests :
                               replays[r].at # "unused" => replays'[r] = replays[r]
      BY <2>3 DEF Fork, TypeInv
    <2> QED
      BY <2>1, <2>2, <2>4, CovInvOthers
  <1> QED
    BY <1>2, <1>3, <1>4, <1>5

LEMMA CovInvRequest ==
    ASSUME TypeInv, CovInv, NEW u \in Subscribers, Request(u)
    PROVE  CovInv'
  <1>1. PICK q \in Requests : Fork(u, q) /\ request' = [request EXCEPT ![u] = {q}]
    BY DEF Request
  <1>2. /\ listener' = [listener EXCEPT ![u] = "listening"]
        /\ UNCHANGED <<announced, from, pushed>>
    BY DEF Request, engine
  <1>3. /\ replays[q].at = "unused" /\ UNCHANGED live
        /\ replays' = [replays EXCEPT ![q] = [@ EXCEPT !.at = "reading", !.last = from[u]]]
    BY <1>1 DEF Fork
  <1>4. /\ replays'[q].at = "reading" /\ replays'[q].last = from[u]
        /\ \A r \in Requests \ {q} : replays'[r] = replays[r]
    <2>1. replays[q] \in ReplayType(head)
      BY Numbers
    <2>2. replays'[q] = [replays[q] EXCEPT !.at = "reading", !.last = from[u]]
      BY <1>3 DEF TypeInv
    <2> QED
      BY <1>3, <2>1, <2>2 DEF TypeInv, ReplayType
  <1> SUFFICES ASSUME NEW s \in Subscribers, NEW r \in request'[s], listener'[s] = "listening"
               PROVE  Owed(s, r)'
    BY DEF CovInv
  <1>5. CASE s = u
    <2>1. r = q
      BY <1>1, <1>5 DEF TypeInv
    <2>2. from[s] \in Nat /\ from'[s] = from[s]
      BY <1>2, Numbers
    <2>3. from[s] <= from[s] /\ (from[s] + 1)..from[s] = {}
      BY <2>2
    <2> QED
      BY <1>4, <1>5, <2>1, <2>2, <2>3 DEF Owed
  <1>6. CASE s # u
    <2>1. r \in request[s] /\ listener[s] = "listening"
      BY <1>1, <1>2, <1>6 DEF TypeInv
    <2>2. Owed(s, r) /\ r \in Requests
      BY <2>1 DEF CovInv, TypeInv
    <2>3. replays'[r] = replays[r]
      BY <1>3, <1>4, <2>2 DEF Owed
    <2> QED
      BY <1>2, <1>3, <2>2, <2>3 DEF Owed
  <1> QED
    BY <1>5, <1>6

LEMMA CovInvPublish ==
    ASSUME TypeInv, PusherInv, CovInv, Publish
    PROVE  CovInv'
  <1> SUFFICES ASSUME NEW s \in Subscribers, NEW r \in request'[s], listener'[s] = "listening"
               PROVE  Owed(s, r)'
    BY DEF CovInv
  <1>1. /\ announced' = announced + 1
        /\ UNCHANGED <<replays, from, pushed, listener, request>>
    BY DEF Publish, window
  <1>2. Owed(s, r)
    BY <1>1 DEF CovInv
  <1>3. live' = Append(live, announced + 1)
    <2>1. pusher
      BY <1>1, Zenon DEF PusherInv
    <2> QED
      BY <2>1, Zenon DEF Publish
  <1>4. announced + 1 \in 1..head /\ live \in Seq(1..head) /\ announced \in Nat /\ from[s] \in Nat
    <2>1. announced + 1 \in 1..head /\ announced \in Nat /\ head \in Nat /\ announced <= head
          /\ from[s] \in Nat
      BY Numbers DEF Publish
    <2>2. Seq(1..announced) \subseteq Seq(1..head)
      BY <2>1, SeqOfMore
    <2> QED
      BY <2>1, <2>2 DEF TypeInv
  <1>5. Elements(live') = Elements(live) \cup {announced + 1}
    <2> DEFINE events == 1..head
               next == announced + 1
    <2>1. Elements(Append(live, next)) = Elements(live) \cup {next}
      <3>1. live \in Seq(events) /\ next \in events
        BY <1>4
      <3> HIDE DEF events, next
      <3> QED
        BY <3>1, AppendHolds
    <2> QED
      BY <1>3, <2>1
  <1>6. (from[s] + 1)..announced' \subseteq (from[s] + 1)..announced \cup {announced + 1}
    BY <1>1, <1>4
  <1> QED
    BY <1>1, <1>2, <1>5, <1>6 DEF Owed

\* A push reaches every standing listener.
LEMMA CovInvPushLive ==
    ASSUME TypeInv, CovInv, PushLive
    PROVE  CovInv'
  <1> SUFFICES ASSUME NEW s \in Subscribers, NEW r \in request'[s], listener'[s] = "listening"
               PROVE  Owed(s, r)'
    BY DEF CovInv
  <1>1. UNCHANGED <<announced, replays, from, listener, request>> /\ live' = Tail(live)
    BY DEF PushLive, engine
  <1>2. pushed'[s] = pushed[s] \cup {Head(live)}
    BY <1>1 DEF PushLive, Push, Registered
  <1>3. Elements(live) = Elements(Tail(live)) \cup {Head(live)}
    BY TailHolds DEF PushLive, TypeInv
  <1>4. Owed(s, r)
    BY <1>1 DEF CovInv
  <1> QED
    BY <1>1, <1>2, <1>3, <1>4 DEF Owed

LEMMA CovInvPushReplayed ==
    ASSUME TypeInv, CovInv, NEW q \in Requests, PushReplayed(q)
    PROVE  CovInv'
  <1> SUFFICES ASSUME NEW s \in Subscribers, NEW r \in request'[s], listener'[s] = "listening"
               PROVE  Owed(s, r)'
    BY DEF CovInv
  <1> DEFINE rest == replays[q].rest
  <1>1. /\ UNCHANGED <<announced, live, from, listener, request>>
        /\ replays' = [replays EXCEPT ![q].rest = Tail(@)]
        /\ replays[q].at = "pushing" /\ rest # <<>>
    BY DEF PushReplayed, engine
  <1>2. pushed'[s] = pushed[s] \cup {Head(rest)}
    BY <1>1 DEF PushReplayed, Push, Registered
  <1>3. rest \in Seq(1..head) /\ replays[q] \in ReplayType(head)
    BY Numbers DEF ReplayType
  <1>4. Elements(rest) = Elements(Tail(rest)) \cup {Head(rest)}
    BY <1>1, <1>3, TailHolds
  <1>5. Owed(s, r) /\ r \in Requests
    BY <1>1 DEF CovInv, TypeInv
  <1>6. CASE r = q
    <2>1. replays'[q] = [replays[q] EXCEPT !.rest = Tail(rest)]
      BY <1>1 DEF TypeInv
    <2>2. replays'[q].at = "pushing" /\ replays'[q].rest = Tail(rest)
      BY <1>1, <1>3, <2>1 DEF ReplayType
    <2> QED
      BY <1>1, <1>2, <1>4, <1>5, <1>6, <2>2 DEF Owed
  <1>7. CASE r # q
    <2>1. replays'[r] = replays[r]
      BY <1>1, <1>5, <1>7 DEF TypeInv
    <2> QED
      BY <1>1, <1>2, <1>5, <2>1 DEF Owed
  <1> QED
    BY <1>6, <1>7

\* A page that is not full ends at the end of the log, past all that is announced.
LEMMA CovInvReadPage ==
    ASSUME TypeInv, CovInv, NEW q \in Requests, ReadPage(q)
    PROVE  CovInv'
  <1> SUFFICES ASSUME NEW s \in Subscribers, NEW r \in request'[s], listener'[s] = "listening"
               PROVE  Owed(s, r)'
    BY DEF CovInv
  <1> DEFINE last == replays[q].last
             end == PageEnd(last)
             rest == replays[q].rest
             more == rest \o Span(last + 1, end)
             next == IF end < last + PageSize THEN "pushing" ELSE "reading"
  <1>1. /\ replays[q].at = "reading"
        /\ UNCHANGED <<announced, live, from, listener, request, pushed>>
    BY DEF ReadPage, engine, window
  <1>2. replays' = [replays EXCEPT ![q] = [at |-> next, last |-> end, rest |-> more]]
    BY DEF ReadPage
  <1>3. /\ last \in 0..head /\ end \in last..head
        /\ end < last + PageSize => end = head
    BY PageEnds
  <1>4. rest \in Seq(1..head) /\ head \in Nat /\ announced \in Nat /\ announced <= head
        /\ from[s] \in Nat
    BY Numbers DEF ReplayType
  <1>5. Elements(rest) \cup (last + 1)..end \subseteq Elements(more)
    BY <1>3, <1>4, PageHolds
  <1>6. Owed(s, r) /\ r \in Requests
    BY <1>1 DEF CovInv, TypeInv
  <1>7. CASE r = q
    <2> HIDE DEF more
    <2>1. replays'[q].at = next /\ replays'[q].last = end /\ replays'[q].rest = more
      BY <1>2 DEF TypeInv
    <2>2. from[s] <= last /\ (from[s] + 1)..last \subseteq Elements(rest)
      BY <1>1, <1>6, <1>7 DEF Owed
    <2> HIDE DEF last, end, rest
    <2>3. (from[s] + 1)..end \subseteq (from[s] + 1)..last \cup (last + 1)..end /\ from[s] <= end
      BY <1>3, <1>4, <2>2
    <2>4. (from[s] + 1)..end \subseteq Elements(more)
      BY <1>5, <2>2, <2>3
    <2>5. CASE next = "pushing"
      <3>1. end = head
        BY <1>3, <2>5
      <3>2. (from[s] + 1)..announced \subseteq (from[s] + 1)..end
        BY <1>4, <3>1
      <3> QED
        BY <1>1, <1>7, <2>1, <2>4, <2>5, <3>2 DEF Owed
    <2>6. CASE next = "reading"
      BY <1>1, <1>7, <2>1, <2>3, <2>4, <2>6 DEF Owed
    <2> QED
      BY <2>5, <2>6
  <1>8. CASE r # q
    <2>1. replays'[r] = replays[r]
      BY <1>2, <1>6, <1>8 DEF TypeInv
    <2> QED
      BY <1>1, <1>6, <2>1 DEF Owed
  <1> QED
    BY <1>7, <1>8

LEMMA CovInvReplayFails ==
    ASSUME TypeInv, CovInv, NEW q \in Requests, ReplayFails(q)
    PROVE  CovInv'
  <1> SUFFICES ASSUME NEW s \in Subscribers, NEW r \in request'[s], listener'[s] = "listening"
               PROVE  Owed(s, r)'
    BY DEF CovInv
  <1>1. /\ replays' = [replays EXCEPT ![q] = [@ EXCEPT !.at = "failed", !.rest = <<>>]]
        /\ UNCHANGED <<announced, live, from, listener, request, pushed>>
    BY DEF ReplayFails, engine, window
  <1>2. Owed(s, r) /\ r \in Requests
    BY <1>1 DEF CovInv, TypeInv
  <1>3. CASE r = q
    <2>1. replays[q] \in ReplayType(head)
      BY Numbers
    <2>2. replays'[q] = [replays[q] EXCEPT !.at = "failed", !.rest = <<>>]
      BY <1>1 DEF TypeInv
    <2>3. replays'[q].at = "failed"
      BY <2>1, <2>2 DEF ReplayType
    <2> QED
      BY <1>3, <2>3 DEF Owed
  <1>4. CASE r # q
    <2>1. replays'[r] = replays[r]
      BY <1>1, <1>2, <1>4 DEF TypeInv
    <2> QED
      BY <1>1, <1>2, <2>1 DEF Owed
  <1> QED
    BY <1>3, <1>4

LEMMA CovInvStep == TypeInv /\ PusherInv /\ CovInv /\ [Next]_vars => CovInv'
  <1> SUFFICES ASSUME TypeInv, PusherInv, CovInv, [Next]_vars PROVE CovInv'
    OBVIOUS
  <1>1. CASE UNCHANGED <<announced, live, replays, from, listener, request, pushed>>
    BY <1>1 DEF CovInv, Owed
  <1>2. CASE Commit
    BY <1>1, <1>2 DEF Commit, shell, window
  <1>3. CASE UNCHANGED vars
    BY <1>1, <1>3 DEF vars, engine, shell, window
  <1> QED
    BY <1>2, <1>3, CovInvWindow, CovInvRequest, CovInvPublish, CovInvPushLive,
      CovInvPushReplayed, CovInvReadPage, CovInvReplayFails DEF Next

\* When the replay of a request has ended, every announced event above the
\* sequence the listener asked for was pushed while it stood, or is about to be:
\* from where the replay stops the live pusher goes on.
THEOREM RepliesAreCovered == Spec => []RequestIsCovered
  <1>1. Init => TypeInv /\ PusherInv /\ CovInv
    <2>1. Init => PusherInv /\ CovInv
      BY DEF Init, PusherInv, CovInv
    <2> QED
      BY <2>1, TypeInvInit
  <1>2. TypeInv /\ PusherInv /\ CovInv /\ [Next]_vars => (TypeInv /\ PusherInv /\ CovInv)'
    BY TypeInvStep, PusherInvStep, CovInvStep
  <1>3. CovInv => RequestIsCovered
    BY DEF CovInv, Owed, RequestIsCovered
  <1> QED
    BY <1>1, <1>2, <1>3, PTL DEF Spec


-----------------------------------------------------------------------------
(* What a subscriber can miss *)

\* Once the replay a listener asked for has ended, an announced event above the
\* sequence it asked for was handed over or is about to be pushed, unless a later
\* event was handed over before it.
MissedOnlyWhenOvertaken ==
    \A s \in Subscribers : \A r \in request[s] :
        listener[s] = "listening" /\ replays[r].at = "pushing" =>
            \A n \in (from[s] + 1)..announced :
                \/ n \in Elements(received[s]) \cup Elements(replays[r].rest) \cup Elements(live)
                \/ \E m \in Elements(received[s]) : m > n

\* The cursor of a listener is what it was handed last, and what was pushed to it
\* and not handed over is behind that.
HandedInv ==
    \A s \in Subscribers :
        /\ from[s] >= start[s] /\ cursor[s] >= from[s]
        /\ cursor[s] = start[s] \/ cursor[s] \in Elements(received[s])
        /\ \A n \in pushed[s] : n > from[s] => n \in Elements(received[s]) \/ n < cursor[s]

\* A push is handed over, or is not above the cursor.
LEMMA HandedInvPush ==
    ASSUME TypeInv, HandedInv, NEW n \in 1..head, Push(n), UNCHANGED <<from, start>>
    PROVE  HandedInv'
  <1> SUFFICES ASSUME NEW s \in Subscribers
               PROVE  /\ from[s] >= start[s] /\ cursor'[s] >= from[s]
                      /\ cursor'[s] = start[s] \/ cursor'[s] \in Elements(received'[s])
                      /\ \A m \in pushed'[s] :
                            m > from[s] => m \in Elements(received'[s]) \/ m < cursor'[s]
    BY DEF HandedInv
  <1>1. /\ n \in Nat /\ cursor[s] \in Nat /\ from[s] \in Nat /\ start[s] \in Nat
        /\ received[s] \in Seq(1..head) /\ pushed[s] \subseteq Nat
    BY Numbers DEF TypeInv
  <1>2. /\ from[s] >= start[s] /\ cursor[s] >= from[s]
        /\ cursor[s] = start[s] \/ cursor[s] \in Elements(received[s])
        /\ \A m \in pushed[s] : m > from[s] => m \in Elements(received[s]) \/ m < cursor[s]
    BY DEF HandedInv
  <1>3. CASE ~Registered(s)
    BY <1>2, <1>3 DEF Push
  <1>4. CASE Registered(s) /\ n > cursor[s]
    <2>1. /\ cursor'[s] = n /\ received'[s] = Append(received[s], n)
          /\ pushed'[s] = pushed[s] \cup {n}
      BY <1>4 DEF Push, IsNew
    <2>2. Elements(received'[s]) = Elements(received[s]) \cup {n}
      <3> DEFINE old == received[s]
                 events == 1..head
      <3>1. old \in Seq(events) /\ n \in events
        BY <1>1
      <3> HIDE DEF old, events
      <3>2. Elements(Append(old, n)) = Elements(old) \cup {n}
        BY <3>1, AppendHolds
      <3> QED
        BY <2>1, <3>2 DEF old
    <2> QED
      BY <1>1, <1>2, <1>4, <2>1, <2>2
  <1>5. CASE Registered(s) /\ ~(n > cursor[s])
    <2>1. /\ cursor'[s] = cursor[s] /\ received'[s] = received[s]
          /\ pushed'[s] = pushed[s] \cup {n}
      BY <1>5 DEF Push, IsNew
    <2>2. n = cursor[s] \/ n < cursor[s]
      BY <1>1, <1>5
    <2>3. n > from[s] => n \in Elements(received[s]) \/ n < cursor[s]
      BY <1>1, <1>2, <2>2
    <2> QED
      BY <1>2, <2>1, <2>3
  <1> QED
    BY <1>3, <1>4, <1>5

LEMMA HandedInvStep == TypeInv /\ HandedInv /\ [Next]_vars => HandedInv'
  <1> SUFFICES ASSUME TypeInv, HandedInv, [Next]_vars PROVE HandedInv'
    OBVIOUS
  <1>1. CASE PushLive
    <2>1. Head(live) \in 1..announced
      BY <1>1, TailHolds DEF PushLive, TypeInv
    <2> QED
      BY <1>1, <2>1, Numbers, HandedInvPush DEF PushLive
  <1>2. ASSUME NEW r \in Requests, PushReplayed(r) PROVE HandedInv'
    <2>1. replays[r].rest \in Seq(1..head)
      BY Numbers DEF ReplayType
    <2>2. Head(replays[r].rest) \in 1..head
      BY <1>2, <2>1, TailHolds DEF PushReplayed
    <2> QED
      BY <1>2, <2>2, HandedInvPush DEF PushReplayed
  <1>3. CASE UNCHANGED <<from, start, cursor, received, pushed>>
    BY <1>3 DEF HandedInv
  <1>4. ASSUME NEW s \in Subscribers, Open(s) PROVE HandedInv'
    <2>1. PICK n \in 0..head :
             /\ from' = [from EXCEPT ![s] = n] /\ pushed' = [pushed EXCEPT ![s] = {}]
             /\ start' = [start EXCEPT ![s] = n] /\ cursor' = [cursor EXCEPT ![s] = n]
      BY <1>4 DEF Open, Register
    <2>2. UNCHANGED received /\ n \in Nat
      BY <1>4, Numbers DEF Open
    <2> QED
      BY <2>1, <2>2 DEF HandedInv, TypeInv
  <1>5. ASSUME NEW s \in Subscribers, Close(s) PROVE HandedInv'
    <2>1. /\ from' = [from EXCEPT ![s] = 0] /\ pushed' = [pushed EXCEPT ![s] = {}]
          /\ start' = [start EXCEPT ![s] = 0] /\ cursor' = [cursor EXCEPT ![s] = 0]
          /\ received' = [received EXCEPT ![s] = <<>>]
      BY <1>5 DEF Close
    <2> QED
      BY <2>1 DEF HandedInv, TypeInv
  <1>6. ASSUME NEW s \in Subscribers, Resume(s) PROVE HandedInv'
    <2>1. /\ from' = [from EXCEPT ![s] = cursor[s]] /\ pushed' = [pushed EXCEPT ![s] = {}]
          /\ UNCHANGED <<start, cursor, received>>
      BY <1>6 DEF Resume, Register
    <2>2. cursor[s] \in Nat /\ from[s] \in Nat /\ start[s] \in Nat
      BY Numbers DEF TypeInv
    <2>3. cursor[s] >= start[s]
      BY <2>2 DEF HandedInv
    <2> QED
      BY <2>1, <2>2, <2>3 DEF HandedInv, TypeInv
  <1>7. CASE \E s \in Subscribers : Request(s) \/ RequestFails(s)
    BY <1>3, <1>7 DEF Request, RequestFails
  <1>8. CASE Commit \/ Publish \/ \E r \in Requests : ReadPage(r) \/ ReplayFails(r)
    BY <1>3, <1>8 DEF Commit, Publish, ReadPage, ReplayFails, window
  <1>9. CASE UNCHANGED vars
    BY <1>3, <1>9 DEF vars, window
  <1> QED
    BY <1>1, <1>2, <1>4, <1>5, <1>6, <1>7, <1>8, <1>9 DEF Next

\* What a subscriber can still miss (the finding event_broadcast_gap): only an
\* event that a later one overtook in the shared channel, and nothing else, past
\* failing requests and replays that nobody asked for any more.
THEOREM OnlyOvertakenEventsAreMissed == Spec => []MissedOnlyWhenOvertaken
  <1>1. Init => TypeInv /\ PusherInv /\ CovInv /\ HandedInv
    BY TypeInvInit DEF Init, PusherInv, CovInv, HandedInv
  <1>2. TypeInv /\ PusherInv /\ CovInv /\ HandedInv /\ [Next]_vars
           => (TypeInv /\ PusherInv /\ CovInv /\ HandedInv)'
    BY TypeInvStep, PusherInvStep, CovInvStep, HandedInvStep
  <1>3. TypeInv /\ CovInv /\ HandedInv => MissedOnlyWhenOvertaken
    <2> SUFFICES ASSUME TypeInv, CovInv, HandedInv,
                        NEW s \in Subscribers, NEW r \in request[s],
                        listener[s] = "listening", replays[r].at = "pushing",
                        NEW n \in (from[s] + 1)..announced,
                        n \notin Elements(received[s]),
                        n \notin Elements(replays[r].rest) \cup Elements(live)
                 PROVE  \E m \in Elements(received[s]) : m > n
      BY DEF MissedOnlyWhenOvertaken
    <2>1. /\ cursor[s] \in Nat /\ from[s] \in Nat /\ start[s] \in Nat
          /\ n \in Nat /\ n > from[s]
      BY Numbers DEF TypeInv
    <2>2. n \in pushed[s]
      BY DEF CovInv, Owed
    <2>3. n < cursor[s]
      BY <2>1, <2>2 DEF HandedInv
    <2>4. cursor[s] \in Elements(received[s])
      BY <2>1, <2>3 DEF HandedInv
    <2> QED
      BY <2>1, <2>3, <2>4
  <1> QED
    BY <1>1, <1>2, <1>3, PTL DEF Spec
=============================================================================

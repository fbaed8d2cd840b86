---------------------- MODULE ProjectionPipeline_proofs ----------------------
(***************************************************************************)
(* Theorems about ProjectionPipeline, for any projectors, page size and    *)
(* bounds: what the read tables hold while fibers fail, are rebuilt and    *)
(* start again, events are published beside the catch-ups, and imports     *)
(* write the same tables.                                                  *)
(***************************************************************************)
EXTENDS ProjectionPipeline, Integers, TLAPS

-----------------------------------------------------------------------------
(* Sequences *)

LEMMA SeqOfMore ==
    ASSUME NEW m \in Nat, NEW n \in Nat, m <= n
    PROVE  Seq(1..m) \subseteq Seq(1..n)
  <1>1. 1..m \subseteq 1..n
    OBVIOUS
  <1> QED
    BY <1>1

LEMMA SeqIs ==
    ASSUME NEW S, NEW q \in Seq(S)
    PROVE  /\ Len(q) \in Nat /\ DOMAIN q = 1..Len(q)
           /\ \A i \in 1..Len(q) : q[i] \in S
           /\ S \subseteq Nat => q \in Seq(Nat)
  OBVIOUS

LEMMA TailIs ==
    ASSUME NEW S, NEW q \in Seq(S), q # <<>>
    PROVE  /\ Tail(q) \in Seq(S) /\ Head(q) = q[1] /\ q[1] \in S
           /\ Len(q) \in Nat \ {0} /\ Len(Tail(q)) = Len(q) - 1
           /\ \A i \in 1..Len(Tail(q)) : Tail(q)[i] = q[i + 1]
  OBVIOUS

LEMMA AppendIs ==
    ASSUME NEW S, NEW q \in Seq(S), NEW e \in S
    PROVE  /\ Append(q, e) \in Seq(S) /\ Len(q) \in Nat /\ Len(Append(q, e)) = Len(q) + 1
           /\ Append(q, e)[Len(q) + 1] = e
           /\ \A i \in 1..Len(q) : Append(q, e)[i] = q[i]
           /\ Elements(Append(q, e)) = Elements(q) \cup {e}
  <1>1. /\ Append(q, e) \in Seq(S) /\ Len(q) \in Nat
        /\ DOMAIN q = 1..Len(q) /\ DOMAIN Append(q, e) = 1..(Len(q) + 1)
        /\ Append(q, e)[Len(q) + 1] = e
        /\ \A i \in 1..Len(q) : Append(q, e)[i] = q[i]
        /\ Len(Append(q, e)) = Len(q) + 1
    OBVIOUS
  <1>2. \A i \in 1..(Len(q) + 1) : i \in 1..Len(q) \/ i = Len(q) + 1
    BY <1>1
  <1>3. Len(q) + 1 \in 1..(Len(q) + 1) /\ \A i \in 1..Len(q) : i \in 1..(Len(q) + 1)
    BY <1>1
  <1>4. Elements(Append(q, e)) = Elements(q) \cup {e}
    BY <1>1, <1>2, <1>3 DEF Elements
  <1> QED
    BY <1>1, <1>4

LEMMA SpanIs ==
    ASSUME NEW h \in Nat, NEW from \in 0..h, NEW to \in from..h
    PROVE  /\ Span(from + 1, to) \in Seq(1..h)
           /\ Len(Span(from + 1, to)) = to - from
           /\ \A i \in 1..(to - from) : Span(from + 1, to)[i] = from + i
           /\ Elements(Span(from + 1, to)) = (from + 1)..to
  <1> DEFINE n == to - from
             span == Span(from + 1, to)
  <1>1. n \in Nat /\ (to + 1) - (from + 1) = n /\ from \in Nat /\ to \in Nat
    OBVIOUS
  <1>2. span = [i \in 1..n |-> (from + 1 + i) - 1]
    BY <1>1 DEF Span
  <1>3. \A i \in 1..n : (from + 1 + i) - 1 = from + i /\ from + i \in 1..h
                        /\ from + i \in (from + 1)..to
    BY <1>1
  <1>4. \A e \in (from + 1)..to : e - from \in 1..n /\ from + (e - from) = e
    BY <1>1
  <1>5. span \in Seq(1..h) /\ Len(span) = n /\ DOMAIN span = 1..n
        /\ \A i \in 1..n : span[i] = from + i
    <2> HIDE DEF n, span
    <2> QED
      BY <1>1, <1>2, <1>3
  <1>6. Elements(span) = (from + 1)..to
    <2>1. ASSUME NEW e \in (from + 1)..to PROVE e \in Elements(span)
      <3>1. e - from \in 1..n /\ from + (e - from) = e
        BY <1>4
      <3>2. span[e - from] = e /\ e - from \in DOMAIN span
        <4> HIDE DEF n, span
        <4> QED
          BY <1>5, <3>1
      <3> HIDE DEF span
      <3> QED
        BY <3>2 DEF Elements
    <2>2. ASSUME NEW i \in DOMAIN span PROVE span[i] \in (from + 1)..to
      <3> HIDE DEF n, span
      <3> QED
        BY <1>3, <1>5, <2>2
    <2> HIDE DEF n, span
    <2> QED
      BY <2>1, <2>2 DEF Elements
  <1> QED
    BY <1>5, <1>6

LEMMA ConcatIs ==
    ASSUME NEW S, NEW p \in Seq(S), NEW q \in Seq(S)
    PROVE  p \o q \in Seq(S) /\ Elements(p \o q) = Elements(p) \cup Elements(q)
  <1>1. /\ p \o q \in Seq(S) /\ Len(p) \in Nat /\ Len(q) \in Nat
        /\ DOMAIN p = 1..Len(p) /\ DOMAIN q = 1..Len(q)
        /\ Len(p \o q) = Len(p) + Len(q)
    OBVIOUS
  <1>2. DOMAIN (p \o q) = 1..(Len(p) + Len(q))
    BY <1>1
  <1>3. \A i \in 1..(Len(p) + Len(q)) :
           (p \o q)[i] = IF i <= Len(p) THEN p[i] ELSE q[i - Len(p)]
    OBVIOUS
  <1>4. \A i \in 1..Len(p) : i \in 1..(Len(p) + Len(q)) /\ i <= Len(p)
    BY <1>1
  <1>5. \A i \in 1..Len(q) : /\ Len(p) + i \in 1..(Len(p) + Len(q)) /\ ~(Len(p) + i <= Len(p))
                             /\ (Len(p) + i) - Len(p) = i
    BY <1>1
  <1>6. \A i \in 1..(Len(p) + Len(q)) :
           i \in 1..Len(p) \/ (~(i <= Len(p)) /\ i - Len(p) \in 1..Len(q))
    BY <1>1
  <1>7. \A e \in Elements(p \o q) : e \in Elements(p) \cup Elements(q)
    <2> SUFFICES ASSUME NEW i \in 1..(Len(p) + Len(q))
                 PROVE  (p \o q)[i] \in Elements(p) \cup Elements(q)
      BY <1>2 DEF Elements
    <2>1. CASE i \in 1..Len(p)
      BY <1>1, <1>3, <1>4, <2>1 DEF Elements
    <2>2. CASE ~(i <= Len(p)) /\ i - Len(p) \in 1..Len(q)
      BY <1>1, <1>3, <2>2 DEF Elements
    <2> QED
      BY <1>6, <2>1, <2>2
  <1>8. \A e \in Elements(p) : e \in Elements(p \o q)
    <2> SUFFICES ASSUME NEW i \in 1..Len(p) PROVE p[i] \in Elements(p \o q)
      BY <1>1 DEF Elements
    <2>1. (p \o q)[i] = p[i] /\ i \in DOMAIN (p \o q)
      BY <1>2, <1>3, <1>4
    <2> QED
      BY <2>1 DEF Elements
  <1>9. \A e \in Elements(q) : e \in Elements(p \o q)
    <2> SUFFICES ASSUME NEW i \in 1..Len(q) PROVE q[i] \in Elements(p \o q)
      BY <1>1 DEF Elements
    <2>1. (p \o q)[Len(p) + i] = q[i] /\ Len(p) + i \in DOMAIN (p \o q)
      BY <1>2, <1>3, <1>5
    <2> QED
      BY <2>1 DEF Elements
  <1> QED
    BY <1>1, <1>7, <1>8, <1>9

-----------------------------------------------------------------------------
(* Types *)

FiberType(h, a) ==
    [at : {"off", "start", "resume", "catchUp1", "catchUp2", "live", "backoff", "ended"},
     cursor : 0..h, page : Seq(1..h), more : {"yes", "no"}, queue : Seq(1..a)]

ImporterType(h) ==
    [at : {"idle", "dispatch", "read", "apply"}, before : 0..h, after : 0..h, last : 0..h]

\* An import that has measured its range holds at least one event in it, and
\* applies what reaches to the end of it.
ImporterInv ==
    /\ importer.at \in {"read", "apply"} =>
          importer.before < importer.after /\ importer.before <= importer.last
    /\ importer.at = "apply" => importer.after <= importer.last

FiberTypes == fiber \in [Projectors -> FiberType(head, announced)]

TypeInv ==
    /\ head \in 0..MaxEvents /\ announced \in 0..head
    /\ abandoned \in 0..head /\ withheld \in SUBSET (1..head)
    /\ process \in {"down", "up", "closing"}
    /\ checkpoint \in [Projectors -> 0..head]
    /\ applied \in [Projectors -> Seq(1..head)]
    /\ FiberTypes
    /\ health \in [Projectors -> {"unknown", "healthy", "degraded"}]
    /\ rebuilding \in [Projectors -> {"no", "stopped", "reset", "failed"}]
    /\ importer \in ImporterType(head) /\ ImporterInv
    /\ imported \in SUBSET (1..head)
    /\ spent \in [{"failures", "rebuilds", "imports"} -> Nat]

LEMMA TypesGrow ==
    ASSUME NEW h \in Nat, NEW k \in Nat, h <= k, NEW a \in Nat, NEW b \in Nat, a <= b
    PROVE  /\ FiberType(h, a) \subseteq FiberType(k, b)
           /\ ImporterType(h) \subseteq ImporterType(k)
           /\ 0..h \subseteq 0..k /\ 1..h \subseteq 1..k
           /\ Seq(1..h) \subseteq Seq(1..k)
  BY SeqOfMore DEF FiberType, ImporterType

LEMMA Numbers ==
    ASSUME TypeInv
    PROVE  /\ head \in Nat /\ announced \in Nat /\ announced <= head
           /\ PageSize \in Nat \ {0} /\ MaxEvents \in Nat
           /\ \A p \in Projectors :
                 /\ fiber[p] \in FiberType(head, announced)
                 /\ fiber[p].cursor \in 0..head /\ fiber[p].cursor \in Nat
                 /\ fiber[p].page \in Seq(1..head)
                 /\ fiber[p].queue \in Seq(1..announced)
                 /\ checkpoint[p] \in 0..head /\ checkpoint[p] \in Nat
                 /\ applied[p] \in Seq(1..head)
           /\ importer.before \in 0..head /\ importer.after \in 0..head
           /\ importer.last \in 0..head
  <1>1. head \in Nat /\ PageSize \in Nat \ {0} /\ MaxEvents \in Nat
    BY PipelineAssumption DEF TypeInv
  <1>2. ASSUME NEW p \in Projectors
        PROVE  /\ fiber[p] \in FiberType(head, announced)
               /\ checkpoint[p] \in 0..head
               /\ applied[p] \in Seq(1..head)
    BY DEF TypeInv, FiberTypes
  <1>3. \A p \in Projectors : /\ fiber[p].cursor \in 0..head
                              /\ fiber[p].page \in Seq(1..head)
                              /\ fiber[p].queue \in Seq(1..announced)
    BY <1>2 DEF FiberType
  <1>4. /\ importer.before \in 0..head /\ importer.after \in 0..head
        /\ importer.last \in 0..head
    BY DEF TypeInv, ImporterType
  <1>5. announced \in Nat /\ announced <= head
    BY <1>1 DEF TypeInv
  <1>6. 0..head \subseteq Nat
    BY <1>1
  <1> QED
    BY <1>1, <1>2, <1>3, <1>4, <1>5, <1>6

\* What readFrom returns.
LEMMA PageIs ==
    ASSUME TypeInv, NEW from \in 0..head
    PROVE  /\ Page(from) \in Seq(1..head)
           /\ Len(Page(from)) \in Nat
           /\ from + Len(Page(from)) \in from..head
           /\ Len(Page(from)) # PageSize => from + Len(Page(from)) = head
           /\ Len(Page(from)) <= PageSize
           /\ \A i \in 1..Len(Page(from)) : Page(from)[i] = from + i
  <1> DEFINE end == IF from + PageSize < head THEN from + PageSize ELSE head
  <1>1. head \in Nat /\ PageSize \in Nat \ {0} /\ from \in Nat
    BY Numbers
  <1>2. /\ end \in from..head
        /\ end - from \in Nat /\ end - from <= PageSize /\ from + (end - from) = end
        /\ end - from # PageSize => end = head
    BY <1>1
  <1>3. Page(from) = Span(from + 1, end)
    BY DEF Page
  <1> HIDE DEF end
  <1>4. /\ Page(from) \in Seq(1..head) /\ Len(Page(from)) = end - from
        /\ \A i \in 1..(end - from) : Page(from)[i] = from + i
    <2>1. /\ Span(from + 1, end) \in Seq(1..head) /\ Len(Span(from + 1, end)) = end - from
          /\ \A i \in 1..(end - from) : Span(from + 1, end)[i] = from + i
      BY <1>1, <1>2, SpanIs
    <2> QED
      BY <1>3, <2>1
  <1> QED
    BY <1>2, <1>4

LEMMA TypeInvInit == Init => TypeInv
  <1> SUFFICES ASSUME Init PROVE TypeInv
    OBVIOUS
  <1>1. MaxEvents \in Nat /\ <<>> \in Seq(1..0) /\ 0 \in 0..0
    BY PipelineAssumption
  <1>2. Stopped \in FiberType(0, 0) /\ NoImport \in ImporterType(0)
    BY <1>1 DEF Stopped, FiberType, NoImport, ImporterType
  <1>3. FiberTypes
    BY <1>2 DEF Init, FiberTypes
  <1>4. ImporterInv /\ importer \in ImporterType(head)
    BY <1>2 DEF Init, ImporterInv, NoImport
  <1> QED
    BY <1>1, <1>3, <1>4 DEF Init, TypeInv

-----------------------------------------------------------------------------
(* What a step makes of one fiber *)

Becomes(p, at, cursor, page, more, queue) ==
    /\ fiber'[p].at = at /\ fiber'[p].cursor = cursor /\ fiber'[p].page = page
    /\ fiber'[p].more = more /\ fiber'[p].queue = queue
    /\ \A q \in Projectors \ {p} : fiber'[q] = fiber[q]
    /\ fiber' \in [Projectors -> FiberType(head, announced)]

LEMMA FiberIsReplaced ==
    ASSUME TypeInv, NEW p \in Projectors, NEW f \in FiberType(head, announced),
           fiber' = [fiber EXCEPT ![p] = f]
    PROVE  Becomes(p, f.at, f.cursor, f.page, f.more, f.queue)
  BY DEF Becomes, TypeInv, FiberTypes

LEMMA StoppedIs ==
    /\ Stopped.at = "off" /\ Stopped.cursor = 0 /\ Stopped.page = <<>>
    /\ Stopped.more = "no" /\ Stopped.queue = <<>>
    /\ Starting.at = "start" /\ Starting.cursor = 0 /\ Starting.page = <<>>
    /\ Starting.more = "no" /\ Starting.queue = <<>>
  BY DEF Stopped, Starting

LEMMA StoppedTypes ==
    ASSUME NEW h \in Nat, NEW a \in Nat
    PROVE  Stopped \in FiberType(h, a) /\ Starting \in FiberType(h, a)
  <1>1. <<>> \in Seq(1..h) /\ <<>> \in Seq(1..a) /\ 0 \in 0..h
    OBVIOUS
  <1>2. Stopped \in FiberType(h, a)
    BY <1>1 DEF Stopped, FiberType
  <1>3. Starting \in FiberType(h, a)
    BY <1>2 DEF Starting, FiberType
  <1> QED
    BY <1>2, <1>3

LEMMA SubscribeIs ==
    ASSUME TypeInv, NEW p \in Projectors, Subscribe(p)
    PROVE  Becomes(p, "resume", fiber[p].cursor, fiber[p].page, fiber[p].more, <<>>)
  <1> DEFINE f == [fiber[p] EXCEPT !.at = "resume", !.queue = <<>>]
  <1>1. fiber[p] \in FiberType(head, announced) /\ <<>> \in Seq(1..announced)
    BY Numbers
  <1>2. /\ f \in FiberType(head, announced)
        /\ f.at = "resume" /\ f.cursor = fiber[p].cursor /\ f.page = fiber[p].page
        /\ f.more = fiber[p].more /\ f.queue = <<>>
    BY <1>1 DEF FiberType
  <1>3. fiber' = [fiber EXCEPT ![p] = f]
    BY <1>1 DEF Subscribe, TypeInv, FiberTypes
  <1> HIDE DEF f
  <1>4. Becomes(p, f.at, f.cursor, f.page, f.more, f.queue)
    BY <1>2, <1>3, FiberIsReplaced
  <1> QED
    BY <1>2, <1>4

LEMMA ReadCheckpointIs ==
    ASSUME TypeInv, NEW p \in Projectors, ReadCheckpoint(p)
    PROVE  Becomes(p, "catchUp1", checkpoint[p], <<>>, "yes", fiber[p].queue)
  <1> DEFINE f == [fiber[p] EXCEPT !.at = "catchUp1", !.cursor = checkpoint[p],
                                   !.page = <<>>, !.more = "yes"]
  <1>1. fiber[p] \in FiberType(head, announced) /\ <<>> \in Seq(1..head)
        /\ checkpoint[p] \in 0..head
    BY Numbers
  <1>2. /\ f \in FiberType(head, announced)
        /\ f.at = "catchUp1" /\ f.cursor = checkpoint[p] /\ f.page = <<>>
        /\ f.more = "yes" /\ f.queue = fiber[p].queue
    BY <1>1 DEF FiberType
  <1>3. fiber' = [fiber EXCEPT ![p] = f]
    BY <1>1 DEF ReadCheckpoint, TypeInv, FiberTypes
  <1> HIDE DEF f
  <1>4. Becomes(p, f.at, f.cursor, f.page, f.more, f.queue)
    BY <1>2, <1>3, FiberIsReplaced
  <1> QED
    BY <1>2, <1>4

LEMMA ReadPageIs ==
    ASSUME TypeInv, NEW p \in Projectors, ReadPage(p)
    PROVE  LET page == Page(fiber[p].cursor)
           IN  Becomes(p, fiber[p].at, fiber[p].cursor, page,
                       IF Len(page) = PageSize THEN "yes" ELSE "no", fiber[p].queue)
  <1> DEFINE page == Page(fiber[p].cursor)
             more == IF Len(page) = PageSize THEN "yes" ELSE "no"
             f == [fiber[p] EXCEPT !.page = page, !.more = more]
  <1>1. fiber[p] \in FiberType(head, announced) /\ page \in Seq(1..head)
    BY Numbers, PageIs
  <1>2. fiber' = [fiber EXCEPT ![p] = f]
    <2>1. fiber' = [fiber EXCEPT ![p].page = page, ![p].more = more]
      BY DEF ReadPage
    <2> HIDE DEF page, more
    <2> QED
      BY <1>1, <2>1 DEF TypeInv, FiberTypes
  <1>3. more \in {"yes", "no"}
    OBVIOUS
  <1> HIDE DEF page, more
  <1>4. /\ f \in FiberType(head, announced)
        /\ f.at = fiber[p].at /\ f.cursor = fiber[p].cursor /\ f.page = page
        /\ f.more = more /\ f.queue = fiber[p].queue
    BY <1>1, <1>3 DEF FiberType
  <1> HIDE DEF f
  <1>5. Becomes(p, f.at, f.cursor, f.page, f.more, f.queue)
    BY <1>2, <1>4, FiberIsReplaced
  <1> QED
    BY <1>4, <1>5 DEF page, more

LEMMA ApplyPageIs ==
    ASSUME TypeInv, NEW p \in Projectors, ApplyPage(p)
    PROVE  /\ Head(fiber[p].page) \in 1..head
           /\ Becomes(p, fiber[p].at, Advanced(p, Head(fiber[p].page)), Tail(fiber[p].page),
                      fiber[p].more, fiber[p].queue)
  <1> DEFINE page == fiber[p].page
             e == Head(page)
             to == Advanced(p, e)
             f == [fiber[p] EXCEPT !.cursor = to, !.page = Tail(page)]
  <1>1. fiber[p] \in FiberType(head, announced) /\ page \in Seq(1..head) /\ head \in Nat
        /\ fiber[p].cursor \in 0..head
    BY Numbers
  <1>2. Tail(page) \in Seq(1..head) /\ e \in 1..head
    BY <1>1, TailIs DEF ApplyPage
  <1>3. to \in 0..head
    BY <1>1, <1>2 DEF Advanced
  <1>4. fiber' = [fiber EXCEPT ![p] = f]
    <2>1. fiber' = [fiber EXCEPT ![p].cursor = to, ![p].page = Tail(@)]
      BY DEF ApplyPage
    <2> HIDE DEF to
    <2> QED
      BY <1>1, <2>1 DEF TypeInv, FiberTypes, FiberType
  <1> HIDE DEF to
  <1>5. /\ f \in FiberType(head, announced)
        /\ f.at = fiber[p].at /\ f.cursor = to /\ f.page = Tail(page)
        /\ f.more = fiber[p].more /\ f.queue = fiber[p].queue
    BY <1>1, <1>2, <1>3 DEF FiberType
  <1> HIDE DEF f
  <1>6. Becomes(p, f.at, f.cursor, f.page, f.more, f.queue)
    BY <1>4, <1>5, FiberIsReplaced
  <1> QED
    BY <1>2, <1>5, <1>6 DEF to

LEMMA ApplyLiveIs ==
    ASSUME TypeInv, NEW p \in Projectors, ApplyLive(p)
    PROVE  /\ Head(fiber[p].queue) \in 1..head
           /\ Becomes(p, "live", Advanced(p, Head(fiber[p].queue)), fiber[p].page,
                      fiber[p].more, Tail(fiber[p].queue))
  <1> DEFINE queue == fiber[p].queue
             e == Head(queue)
             to == Advanced(p, e)
             f == [fiber[p] EXCEPT !.cursor = to, !.queue = Tail(queue)]
  <1>1. fiber[p] \in FiberType(head, announced) /\ queue \in Seq(1..announced) /\ head \in Nat
        /\ announced \in Nat /\ announced <= head /\ fiber[p].cursor \in 0..head
    BY Numbers
  <1>2. Tail(queue) \in Seq(1..announced) /\ e \in 1..head
    <2>1. Tail(queue) \in Seq(1..announced) /\ e \in 1..announced
      BY <1>1, TailIs DEF ApplyLive
    <2> QED
      BY <1>1, <2>1
  <1>3. to \in 0..head
    BY <1>1, <1>2 DEF Advanced
  <1>4. fiber' = [fiber EXCEPT ![p] = f]
    <2>1. fiber' = [fiber EXCEPT ![p].cursor = to, ![p].queue = Tail(@)]
      BY DEF ApplyLive
    <2> HIDE DEF to
    <2> QED
      BY <1>1, <2>1 DEF TypeInv, FiberTypes, FiberType
  <1> HIDE DEF to
  <1>5. /\ f \in FiberType(head, announced)
        /\ f.at = fiber[p].at /\ f.cursor = to /\ f.page = fiber[p].page
        /\ f.more = fiber[p].more /\ f.queue = Tail(queue)
    BY <1>1, <1>2, <1>3 DEF FiberType
  <1> HIDE DEF f
  <1>6. Becomes(p, f.at, f.cursor, f.page, f.more, f.queue)
    BY <1>4, <1>5, FiberIsReplaced
  <1> QED
    BY <1>2, <1>5, <1>6 DEF to, ApplyLive

LEMMA CaughtUpIs ==
    ASSUME TypeInv, NEW p \in Projectors, CaughtUp(p)
    PROVE  \/ /\ fiber[p].at = "catchUp1"
              /\ Becomes(p, "catchUp2", fiber[p].cursor, fiber[p].page, "yes", fiber[p].queue)
           \/ /\ fiber[p].at = "catchUp2"
              /\ Becomes(p, "live", fiber[p].cursor, fiber[p].page, fiber[p].more, fiber[p].queue)
  <1>1. fiber[p] \in FiberType(head, announced)
    BY Numbers
  <1>2. CASE fiber[p].at = "catchUp1"
    <2> DEFINE f == [fiber[p] EXCEPT !.at = "catchUp2", !.more = "yes"]
    <2>1. /\ f \in FiberType(head, announced)
          /\ f.at = "catchUp2" /\ f.cursor = fiber[p].cursor /\ f.page = fiber[p].page
          /\ f.more = "yes" /\ f.queue = fiber[p].queue
      BY <1>1 DEF FiberType
    <2>2. fiber' = [fiber EXCEPT ![p] = f]
      BY <1>1, <1>2 DEF CaughtUp, TypeInv, FiberTypes
    <2> HIDE DEF f
    <2>3. Becomes(p, f.at, f.cursor, f.page, f.more, f.queue)
      BY <2>1, <2>2, FiberIsReplaced
    <2> QED
      BY <1>2, <2>1, <2>3
  <1>3. CASE fiber[p].at = "catchUp2"
    <2> DEFINE f == [fiber[p] EXCEPT !.at = "live"]
    <2>1. /\ f \in FiberType(head, announced)
          /\ f.at = "live" /\ f.cursor = fiber[p].cursor /\ f.page = fiber[p].page
          /\ f.more = fiber[p].more /\ f.queue = fiber[p].queue
      BY <1>1 DEF FiberType
    <2>2. fiber' = [fiber EXCEPT ![p] = f]
      BY <1>1, <1>3 DEF CaughtUp, TypeInv, FiberTypes
    <2> HIDE DEF f
    <2>3. Becomes(p, f.at, f.cursor, f.page, f.more, f.queue)
      BY <2>1, <2>2, FiberIsReplaced
    <2> QED
      BY <1>3, <2>1, <2>3
  <1> QED
    BY <1>2, <1>3 DEF CaughtUp, CatchingUp

\* The steps that leave a fiber with nothing to follow.
LEMMA RestingIs ==
    ASSUME TypeInv, NEW p \in Projectors
    PROVE  /\ Fail(p) => Becomes(p, "backoff", fiber[p].cursor, <<>>, "no", <<>>)
           /\ Restart(p) => Becomes(p, "start", fiber[p].cursor, fiber[p].page,
                                    fiber[p].more, fiber[p].queue)
           /\ StreamEnds(p) => Becomes(p, "ended", fiber[p].cursor, fiber[p].page,
                                       fiber[p].more, fiber[p].queue)
           /\ StopProjector(p) => Becomes(p, "off", 0, <<>>, "no", <<>>)
           /\ StartProjector(p) => Becomes(p, "start", 0, <<>>, "no", <<>>)
  <1>1. fiber[p] \in FiberType(head, announced)
    BY Numbers
  <1>2. Stopped \in FiberType(head, announced) /\ Starting \in FiberType(head, announced)
    BY Numbers, StoppedTypes
  <1>3. ASSUME Fail(p) PROVE Becomes(p, "backoff", fiber[p].cursor, <<>>, "no", <<>>)
    <2> DEFINE f == [Stopped EXCEPT !.at = "backoff", !.cursor = fiber[p].cursor]
    <2>1. /\ f \in FiberType(head, announced)
          /\ f.at = "backoff" /\ f.cursor = fiber[p].cursor /\ f.page = Stopped.page
          /\ f.more = Stopped.more /\ f.queue = Stopped.queue
      BY <1>1, <1>2 DEF FiberType
    <2>2. fiber' = [fiber EXCEPT ![p] = f]
      BY <1>3 DEF Fail
    <2> HIDE DEF f
    <2>3. Becomes(p, f.at, f.cursor, f.page, f.more, f.queue)
      BY <2>1, <2>2, FiberIsReplaced
    <2> QED
      BY <2>1, <2>3, StoppedIs
  <1>4. ASSUME NEW at \in {"start", "ended"}, fiber' = [fiber EXCEPT ![p].at = at]
        PROVE  Becomes(p, at, fiber[p].cursor, fiber[p].page, fiber[p].more, fiber[p].queue)
    <2> DEFINE f == [fiber[p] EXCEPT !.at = at]
    <2>1. /\ f \in FiberType(head, announced)
          /\ f.at = at /\ f.cursor = fiber[p].cursor /\ f.page = fiber[p].page
          /\ f.more = fiber[p].more /\ f.queue = fiber[p].queue
      BY <1>1 DEF FiberType
    <2>2. fiber' = [fiber EXCEPT ![p] = f]
      BY <1>1, <1>4 DEF TypeInv, FiberTypes
    <2> HIDE DEF f
    <2>3. Becomes(p, f.at, f.cursor, f.page, f.more, f.queue)
      BY <2>1, <2>2, FiberIsReplaced
    <2> QED
      BY <2>1, <2>3
  <1>5. Restart(p) => Becomes(p, "start", fiber[p].cursor, fiber[p].page,
                              fiber[p].more, fiber[p].queue)
    BY <1>4 DEF Restart
  <1>6. StreamEnds(p) => Becomes(p, "ended", fiber[p].cursor, fiber[p].page,
                                 fiber[p].more, fiber[p].queue)
    BY <1>4 DEF StreamEnds
  <1>7. ASSUME StopProjector(p) PROVE Becomes(p, "off", 0, <<>>, "no", <<>>)
    <2>1. fiber' = [fiber EXCEPT ![p] = Stopped]
      BY <1>7 DEF StopProjector
    <2>2. Becomes(p, Stopped.at, Stopped.cursor, Stopped.page, Stopped.more, Stopped.queue)
      BY <1>2, <2>1, FiberIsReplaced
    <2> QED
      BY <2>2, StoppedIs
  <1>8. ASSUME StartProjector(p) PROVE Becomes(p, "start", 0, <<>>, "no", <<>>)
    <2>1. fiber' = [fiber EXCEPT ![p] = Starting]
      BY <1>8 DEF StartProjector
    <2>2. Becomes(p, Starting.at, Starting.cursor, Starting.page, Starting.more, Starting.queue)
      BY <1>2, <2>1, FiberIsReplaced
    <2> QED
      BY <2>2, StoppedIs
  <1> QED
    BY <1>3, <1>5, <1>6, <1>7, <1>8

\* An announcement goes into the queues, and changes nothing else of a fiber.
LEMMA AnnounceIs ==
    ASSUME TypeInv, NEW e \in (announced + 1)..head, Announce(e), NEW p \in Projectors
    PROVE  /\ fiber'[p].at = fiber[p].at /\ fiber'[p].cursor = fiber[p].cursor
           /\ fiber'[p].page = fiber[p].page /\ fiber'[p].more = fiber[p].more
           /\ fiber'[p].queue = IF Subscribed(p) THEN Append(fiber[p].queue, e)
                                                 ELSE fiber[p].queue
           /\ fiber'[p] \in FiberType(head, e)
  <1>1. /\ head \in Nat /\ announced \in Nat /\ e \in Nat /\ e \in 1..e /\ announced <= e
        /\ fiber[p] \in FiberType(head, announced)
    BY Numbers
  <1>2. fiber[p] \in FiberType(head, e)
    BY <1>1, TypesGrow
  <1>3. Append(fiber[p].queue, e) \in Seq(1..e)
    BY <1>1, <1>2, AppendIs DEF FiberType
  <1>4. fiber'[p] = IF Subscribed(p) THEN [fiber[p] EXCEPT !.queue = Append(fiber[p].queue, e)]
                                     ELSE fiber[p]
    BY DEF Announce
  <1> QED
    BY <1>2, <1>3, <1>4 DEF FiberType

LEMMA AnnounceTypes ==
    ASSUME TypeInv, NEW e \in (announced + 1)..head, Announce(e)
    PROVE  FiberTypes'
  <1>1. fiber' = [p \in Projectors |-> fiber'[p]]
    BY DEF Announce
  <1>2. head' = head /\ announced' = e
    BY DEF Announce, durable
  <1> QED
    BY <1>1, <1>2, AnnounceIs DEF FiberTypes

\* The engine announces the next event, or the next after those it passes over.
LEMMA AnnouncesNext ==
    ASSUME TypeInv, Publish \/ PassOver
    PROVE  \E e \in (announced + 1)..head :
              /\ Announce(e) /\ process = "up"
              /\ withheld' = withheld \cup (announced + 1)..(e - 1)
              /\ withheld' \in SUBSET (1..head)
  <1>1. head \in Nat /\ announced \in Nat /\ abandoned \in 0..head /\ withheld \in SUBSET (1..head)
    BY Numbers DEF TypeInv
  <1>2. CASE Publish
    <2>1. announced + 1 \in (announced + 1)..head /\ (announced + 1)..((announced + 1) - 1) = {}
      BY <1>1, <1>2 DEF Publish
    <2> QED
      BY <1>1, <1>2, <2>1 DEF Publish
  <1>3. CASE PassOver
    <2>1. /\ abandoned + 1 \in (announced + 1)..head /\ (abandoned + 1) - 1 = abandoned
          /\ (announced + 1)..abandoned \subseteq 1..head
      BY <1>1, <1>3 DEF PassOver
    <2> QED
      BY <1>1, <1>3, <2>1 DEF PassOver
  <1> QED
    BY <1>2, <1>3

-----------------------------------------------------------------------------
(* The types are kept *)

LEMMA TypeInvEngine ==
    ASSUME TypeInv
    PROVE  /\ Boot => TypeInv'
           /\ Commit => TypeInv'
           /\ Publish \/ PassOver => TypeInv'
           /\ LoseReconcile => TypeInv'
           /\ EndStream => TypeInv'
           /\ Exit => TypeInv'
  <1>1. /\ head \in Nat /\ announced \in Nat /\ announced <= head /\ MaxEvents \in Nat
        /\ \A h \in Nat, a \in Nat : Stopped \in FiberType(h, a) /\ Starting \in FiberType(h, a)
    BY Numbers, StoppedTypes
  <1>2. ASSUME Boot PROVE TypeInv'
    <2>1. FiberTypes'
      <3>1. head' = head /\ announced' = head /\ fiber' = [p \in Projectors |-> Starting]
        BY <1>2 DEF Boot, durable
      <3> QED
        BY <1>1, <3>1 DEF FiberTypes
    <2> QED
      BY <1>1, <1>2, <2>1 DEF Boot, durable, lost, importing, TypeInv, ImporterInv
  <1>3. ASSUME Commit PROVE TypeInv'
    <2>1. head' \in 0..MaxEvents /\ head' \in Nat /\ head <= head' /\ announced' = announced
          /\ announced \in 0..head' /\ UNCHANGED lost
      BY <1>1, <1>3 DEF Commit
    <2>2. /\ FiberType(head, announced) \subseteq FiberType(head', announced)
          /\ ImporterType(head) \subseteq ImporterType(head')
          /\ 0..head \subseteq 0..head' /\ 1..head \subseteq 1..head'
          /\ Seq(1..head) \subseteq Seq(1..head')
      BY <1>1, <2>1, TypesGrow
    <2>3. FiberTypes'
      BY <1>3, <2>1, <2>2 DEF Commit, TypeInv, FiberTypes
    <2>4. UNCHANGED <<process, checkpoint, applied, health, rebuilding, importer, imported, spent>>
      BY <1>3 DEF Commit, importing
    <2> QED
      BY <2>1, <2>2, <2>3, <2>4 DEF TypeInv, ImporterInv, lost
  <1>4. ASSUME Publish \/ PassOver PROVE TypeInv'
    <2>1. PICK e \in (announced + 1)..head :
             /\ announced' = e /\ FiberTypes'
             /\ UNCHANGED <<durable, abandoned, process, health, rebuilding, importing, spent>>
             /\ withheld' \in SUBSET (1..head)
      BY <1>4, AnnouncesNext, AnnounceIs, AnnounceTypes DEF Announce, TypeInv
    <2>2. announced' \in 0..head
      BY <1>1, <2>1
    <2> QED
      BY <1>1, <2>1, <2>2 DEF durable, importing, TypeInv, ImporterInv
  <1>4a. ASSUME LoseReconcile PROVE TypeInv'
    <2>1. spent' \in [{"failures", "rebuilds", "imports"} -> Nat]
      BY <1>4a DEF LoseReconcile, Spend, TypeInv
    <2>2. abandoned' \in 0..head
      BY <1>1, <1>4a DEF LoseReconcile
    <2> QED
      BY <1>4a, <2>1, <2>2 DEF LoseReconcile, durable, importing, TypeInv, FiberTypes, ImporterInv
  <1>5. ASSUME EndStream PROVE TypeInv'
    BY <1>5 DEF EndStream, durable, lost, importing, TypeInv, FiberTypes, ImporterInv
  <1>6. ASSUME Exit PROVE TypeInv'
    <2>1. FiberTypes'
      <3>1. head' = head /\ announced' = 0 /\ fiber' = [p \in Projectors |-> Stopped]
        BY <1>6 DEF Exit, durable
      <3> QED
        BY <1>1, <3>1 DEF FiberTypes
    <2>2. importer' \in ImporterType(head) /\ ImporterInv'
      <3>1. importer' = NoImport
        BY <1>6 DEF Exit
      <3> QED
        BY <1>1, <3>1 DEF NoImport, ImporterType, ImporterInv
    <2> QED
      BY <1>1, <1>6, <2>1, <2>2 DEF Exit, durable, lost, TypeInv
  <1> QED
    BY <1>2, <1>3, <1>4, <1>4a, <1>5, <1>6

\* applyIfNewer moves a table and its checkpoint.
LEMMA ApplyTypes ==
    ASSUME TypeInv, NEW p \in Projectors, NEW e \in 1..head, ApplyIfNewer(p, e)
    PROVE  checkpoint' \in [Projectors -> 0..head] /\ applied' \in [Projectors -> Seq(1..head)]
  <1>1. e \in 0..head /\ applied[p] \in Seq(1..head)
    BY Numbers
  <1>2. Append(applied[p], e) \in Seq(1..head)
    BY <1>1, AppendIs
  <1> QED
    BY <1>1, <1>2 DEF ApplyIfNewer, TypeInv

LEMMA TypeInvFibers ==
    ASSUME TypeInv, NEW p \in Projectors
    PROVE  /\ FiberStep(p) => TypeInv'
           /\ Fail(p) => TypeInv'
           /\ StopProjector(p) => TypeInv'
           /\ RebuildStep(p) => TypeInv'
           /\ ResetFails(p) => TypeInv'
  <1>1. ASSUME UNCHANGED <<head, announced, lost, process, importing>>,
               fiber' \in [Projectors -> FiberType(head, announced)],
               checkpoint' \in [Projectors -> 0..head],
               applied' \in [Projectors -> Seq(1..head)],
               health' \in [Projectors -> {"unknown", "healthy", "degraded"}],
               rebuilding' \in [Projectors -> {"no", "stopped", "reset", "failed"}],
               spent' \in [{"failures", "rebuilds", "imports"} -> Nat]
        PROVE  TypeInv'
    BY <1>1 DEF TypeInv, FiberTypes, ImporterInv, importing, lost
  <1>2. /\ checkpoint \in [Projectors -> 0..head]
        /\ applied \in [Projectors -> Seq(1..head)]
        /\ fiber \in [Projectors -> FiberType(head, announced)]
        /\ health \in [Projectors -> {"unknown", "healthy", "degraded"}]
        /\ rebuilding \in [Projectors -> {"no", "stopped", "reset", "failed"}]
        /\ spent \in [{"failures", "rebuilds", "imports"} -> Nat]
    BY DEF TypeInv, FiberTypes
  <1>3. ASSUME Subscribe(p) PROVE TypeInv'
    BY <1>1, <1>2, <1>3, SubscribeIs DEF Becomes, Subscribe, durable
  <1>4. ASSUME ReadCheckpoint(p) PROVE TypeInv'
    BY <1>1, <1>2, <1>4, ReadCheckpointIs DEF Becomes, ReadCheckpoint, durable
  <1>5. ASSUME ReadPage(p) PROVE TypeInv'
    BY <1>1, <1>2, <1>5, ReadPageIs DEF Becomes, ReadPage, durable
  <1>6. ASSUME ApplyPage(p) PROVE TypeInv'
    <2>1. checkpoint' \in [Projectors -> 0..head] /\ applied' \in [Projectors -> Seq(1..head)]
      BY <1>6, ApplyPageIs, ApplyTypes DEF ApplyPage
    <2> QED
      BY <1>1, <1>2, <1>6, <2>1, ApplyPageIs DEF Becomes, ApplyPage
  <1>7. ASSUME CaughtUp(p) PROVE TypeInv'
    <2>1. health' \in [Projectors -> {"unknown", "healthy", "degraded"}]
      BY <1>2, <1>7 DEF CaughtUp
    <2> QED
      BY <1>1, <1>2, <1>7, <2>1, CaughtUpIs DEF Becomes, CaughtUp, durable
  <1>8. ASSUME ApplyLive(p) PROVE TypeInv'
    <2>1. checkpoint' \in [Projectors -> 0..head] /\ applied' \in [Projectors -> Seq(1..head)]
      BY <1>8, ApplyLiveIs, ApplyTypes DEF ApplyLive
    <2> QED
      BY <1>1, <1>2, <1>8, <2>1, ApplyLiveIs DEF Becomes, ApplyLive
  <1>9. ASSUME Restart(p) PROVE TypeInv'
    BY <1>1, <1>2, <1>9, RestingIs DEF Becomes, Restart, durable
  <1>10. ASSUME StreamEnds(p) PROVE TypeInv'
    BY <1>1, <1>2, <1>10, RestingIs DEF Becomes, StreamEnds, durable
  <1>11. ASSUME Fail(p) PROVE TypeInv'
    <2>1. spent' \in [{"failures", "rebuilds", "imports"} -> Nat]
      BY <1>2, <1>11 DEF Fail, Spend
    <2>2. health' \in [Projectors -> {"unknown", "healthy", "degraded"}]
      BY <1>2, <1>11 DEF Fail
    <2> QED
      BY <1>1, <1>2, <1>11, <2>1, <2>2, RestingIs DEF Becomes, Fail, durable
  <1>12. ASSUME StopProjector(p) PROVE TypeInv'
    <2>1. spent' \in [{"failures", "rebuilds", "imports"} -> Nat]
      BY <1>2, <1>12 DEF StopProjector, Spend
    <2>2. rebuilding' \in [Projectors -> {"no", "stopped", "reset", "failed"}]
      BY <1>2, <1>12 DEF StopProjector
    <2> QED
      BY <1>1, <1>2, <1>12, <2>1, <2>2, RestingIs DEF Becomes, StopProjector, durable
  <1>13. ASSUME ResetProjector(p) PROVE TypeInv'
    <2>1. /\ checkpoint' \in [Projectors -> 0..head]
          /\ applied' \in [Projectors -> Seq(1..head)]
          /\ rebuilding' \in [Projectors -> {"no", "stopped", "reset", "failed"}]
      <3>1. 0 \in 0..head /\ <<>> \in Seq(1..head)
        BY Numbers
      <3> QED
        BY <1>2, <1>13, <3>1 DEF ResetProjector
    <2> QED
      BY <1>1, <1>2, <1>13, <2>1 DEF ResetProjector
  <1>14. ASSUME StartProjector(p) PROVE TypeInv'
    <2>1. /\ health' \in [Projectors -> {"unknown", "healthy", "degraded"}]
          /\ rebuilding' \in [Projectors -> {"no", "stopped", "reset", "failed"}]
      BY <1>2, <1>14 DEF StartProjector
    <2> QED
      BY <1>1, <1>2, <1>14, <2>1, RestingIs DEF Becomes, StartProjector, durable
  <1>15. ASSUME ResetFails(p) PROVE TypeInv'
    <2>1. rebuilding' \in [Projectors -> {"no", "stopped", "reset", "failed"}]
      BY <1>2, <1>15 DEF ResetFails
    <2> QED
      BY <1>1, <1>2, <1>15, <2>1 DEF ResetFails, durable
  <1> QED
    BY <1>3, <1>4, <1>5, <1>6, <1>7, <1>8, <1>9, <1>10, <1>11, <1>12, <1>13, <1>14, <1>15
    DEF FiberStep, RebuildStep

\* One page of an import.
LEMMA ImportReadIs ==
    ASSUME TypeInv, ImportRead
    PROVE  /\ importer'.at \in {"read", "apply"} /\ importer' \in ImporterType(head)
           /\ importer'.before = importer.before /\ importer'.after = importer.after
           /\ importer'.last \in importer.last..head
           /\ importer'.at = "apply" => importer'.last = head
  <1> DEFINE page == Page(importer.last)
             last == importer.last + Len(page)
             at == IF Len(page) < PageSize THEN "apply" ELSE importer.at
  <1>1. importer \in ImporterType(head) /\ importer.at = "read"
    BY DEF TypeInv, ImportRead
  <1>2. /\ last \in importer.last..head /\ Len(page) \in Nat /\ importer.last \in 0..head
        /\ Len(page) # PageSize => last = head
    BY Numbers, PageIs
  <1>3. /\ at \in {"read", "apply"} /\ last \in 0..head
        /\ at = "apply" => last = head
    BY <1>1, <1>2, Numbers
  <1>4. importer' = [importer EXCEPT !.last = last, !.at = at]
    BY DEF ImportRead
  <1> HIDE DEF last, at
  <1> QED
    BY <1>1, <1>2, <1>3, <1>4 DEF ImporterType

LEMMA ImportApplyIs ==
    ASSUME TypeInv, ImportApply
    PROVE  LET range == Span(importer.before + 1, importer.last)
           IN  /\ range \in Seq(1..head)
               /\ (importer.before + 1)..importer.after \subseteq Elements(range)
               /\ (importer.before + 1)..importer.after \subseteq 1..head
               /\ importer.before + 1 \in (importer.before + 1)..importer.after
  <1>1. /\ importer.before < importer.after /\ importer.before <= importer.last
        /\ importer.after <= importer.last
    BY DEF TypeInv, ImporterInv, ImportApply
  <1>2. /\ importer.before \in 0..head /\ importer.after \in 0..head
        /\ importer.last \in importer.before..head /\ head \in Nat
    BY <1>1, Numbers
  <1>3. /\ Span(importer.before + 1, importer.last) \in Seq(1..head)
        /\ Elements(Span(importer.before + 1, importer.last))
              = (importer.before + 1)..importer.last
    BY <1>2, SpanIs
  <1>4. /\ (importer.before + 1)..importer.after \subseteq (importer.before + 1)..importer.last
        /\ (importer.before + 1)..importer.after \subseteq 1..head
        /\ importer.before + 1 \in (importer.before + 1)..importer.after
    BY <1>1, <1>2
  <1> QED
    BY <1>3, <1>4

LEMMA TypeInvImport == TypeInv /\ Import => TypeInv'
  <1> SUFFICES ASSUME TypeInv, Import PROVE TypeInv'
    OBVIOUS
  <1>1. ASSUME UNCHANGED <<head, pipeline>>,
               checkpoint' \in [Projectors -> 0..head],
               applied' \in [Projectors -> Seq(1..head)],
               importer' \in ImporterType(head), ImporterInv',
               imported' \in SUBSET (1..head),
               spent' \in [{"failures", "rebuilds", "imports"} -> Nat]
        PROVE  TypeInv'
    BY <1>1 DEF TypeInv, FiberTypes, pipeline, lost
  <1>2. /\ checkpoint \in [Projectors -> 0..head]
        /\ applied \in [Projectors -> Seq(1..head)]
        /\ imported \in SUBSET (1..head)
        /\ spent \in [{"failures", "rebuilds", "imports"} -> Nat]
        /\ importer \in ImporterType(head) /\ ImporterInv
        /\ head \in Nat /\ announced \in 0..head
    BY Numbers DEF TypeInv
  <1>3. NoImport \in ImporterType(head) /\ NoImport.at = "idle"
    BY <1>2 DEF NoImport, ImporterType
  <1>4. CASE ImportBegin
    <2>1. importer' = [NoImport EXCEPT !.at = "dispatch", !.before = announced]
      BY <1>4 DEF ImportBegin
    <2>2. importer' \in ImporterType(head) /\ importer'.at = "dispatch"
      BY <1>2, <1>3, <2>1 DEF ImporterType
    <2>3. spent' \in [{"failures", "rebuilds", "imports"} -> Nat]
      BY <1>2, <1>4 DEF ImportBegin, Spend
    <2> QED
      BY <1>1, <1>2, <1>4, <2>2, <2>3 DEF ImportBegin, durable, ImporterInv
  <1>5. CASE ImportMeasure
    <2>1. CASE announced <= importer.before
      <3>1. importer' = NoImport
        BY <1>5, <2>1 DEF ImportMeasure
      <3> QED
        BY <1>1, <1>2, <1>3, <1>5, <3>1 DEF ImportMeasure, durable, ImporterInv
    <2>2. CASE ~(announced <= importer.before)
      <3>1. importer' = [importer EXCEPT !.at = "read", !.after = announced,
                                         !.last = importer.before]
        BY <1>5, <2>2 DEF ImportMeasure
      <3>2. /\ importer' \in ImporterType(head) /\ importer'.at = "read"
            /\ importer'.before = importer.before /\ importer'.after = announced
            /\ importer'.last = importer.before
        <4>1. importer.before \in 0..head /\ announced \in 0..head
          BY <1>2, Numbers
        <4> QED
          BY <1>2, <3>1, <4>1 DEF ImporterType
      <3>3. ImporterInv'
        <4>1. importer.before \in Nat /\ announced \in Nat
          BY Numbers
        <4> QED
          BY <2>2, <3>2, <4>1 DEF ImporterInv
      <3> QED
        BY <1>1, <1>2, <1>5, <3>2, <3>3 DEF ImportMeasure, durable
    <2> QED
      BY <2>1, <2>2
  <1>6. CASE ImportRead
    <2>1. /\ importer'.at \in {"read", "apply"} /\ importer' \in ImporterType(head)
          /\ importer'.before = importer.before /\ importer'.after = importer.after
          /\ importer'.last \in importer.last..head
          /\ importer'.at = "apply" => importer'.last = head
      BY <1>6, ImportReadIs
    <2>2. /\ importer.before < importer.after /\ importer.before <= importer.last
          /\ importer.before \in 0..head /\ importer.after \in 0..head
          /\ importer.last \in 0..head
      BY <1>6, Numbers DEF TypeInv, ImporterInv, ImportRead
    <2>3. ImporterInv'
      BY <1>2, <2>1, <2>2 DEF ImporterInv
    <2> QED
      BY <1>1, <1>2, <1>6, <2>1, <2>3 DEF ImportRead, durable
  <1>7. CASE ImportApply
    <2> DEFINE range == Span(importer.before + 1, importer.last)
    <2>1. range \in Seq(1..head) /\ (importer.before + 1)..importer.after \subseteq 1..head
      BY <1>7, ImportApplyIs
    <2> HIDE DEF range
    <2>2. \A p \in Projectors : applied[p] \o range \in Seq(1..head)
      BY <1>2, <2>1
    <2>3. applied' \in [Projectors -> Seq(1..head)]
      <3>1. applied' = [p \in Projectors |-> IF p \in Imported THEN applied[p] \o range
                                                               ELSE applied[p]]
        BY <1>7 DEF ImportApply, range
      <3> QED
        BY <1>2, <2>2, <3>1
    <2>4. checkpoint' \in [Projectors -> 0..head]
      <3>1. importer.after \in 0..head
        BY Numbers
      <3> QED
        BY <1>2, <1>7, <3>1 DEF ImportApply
    <2>5. imported' \in SUBSET (1..head) /\ importer' = NoImport
      BY <1>2, <1>7, <2>1 DEF ImportApply
    <2>6. UNCHANGED <<head, pipeline, spent>>
      BY <1>7 DEF ImportApply
    <2>7. ImporterInv'
      BY <1>3, <2>5 DEF ImporterInv
    <2> QED
      BY <1>1, <1>2, <1>3, <2>3, <2>4, <2>5, <2>6, <2>7
  <1>8. CASE ImportFails
    <2>1. spent' \in [{"failures", "rebuilds", "imports"} -> Nat]
      BY <1>2, <1>8 DEF ImportFails, Spend
    <2>2. importer' = NoImport
      BY <1>8 DEF ImportFails
    <2>3. ImporterInv'
      BY <1>3, <2>2 DEF ImporterInv
    <2> QED
      BY <1>1, <1>2, <1>3, <1>8, <2>1, <2>2, <2>3 DEF ImportFails, durable
  <1> QED
    BY <1>4, <1>5, <1>6, <1>7, <1>8 DEF Import

LEMMA TypeInvStep == TypeInv /\ [Next]_vars => TypeInv'
  <1> SUFFICES ASSUME TypeInv, [Next]_vars PROVE TypeInv'
    OBVIOUS
  <1>1. CASE UNCHANGED vars
    BY <1>1 DEF vars, TypeInv, FiberTypes, ImporterInv
  <1> QED
    BY <1>1, TypeInvEngine, TypeInvFibers, TypeInvImport DEF Next

\* Every variable stays in its domain, and nothing runs ahead of the event store.
THEOREM TypeCorrect == Spec => []TypeOK
  <1>1. TypeInv => TypeOK
    <2> SUFFICES ASSUME TypeInv PROVE TypeOK
      OBVIOUS
    <2>1. /\ importer.at \in {"idle", "dispatch", "read", "apply"}
          /\ importer.before \in Nat /\ importer.after \in Nat /\ importer.last \in Nat
      BY Numbers DEF TypeInv, ImporterType
    <2>2. ASSUME NEW p \in Projectors
          PROVE  /\ applied[p] \in Seq(1..head)
                 /\ fiber[p].at \in {"off", "start", "resume", "catchUp1", "catchUp2", "live",
                                     "backoff", "ended"}
                 /\ fiber[p].cursor \in 0..head
                 /\ fiber[p].page \in Seq(1..head) /\ fiber[p].queue \in Seq(1..announced)
                 /\ fiber[p].more \in {"yes", "no"}
      BY Numbers DEF FiberType
    <2> QED
      BY <2>1, <2>2 DEF TypeInv, TypeOK
  <1> QED
    BY <1>1, TypeInvInit, TypeInvStep, PTL DEF Spec

-----------------------------------------------------------------------------
(* The catch-ups and the stream of one fiber *)

\* Every announced event above c is in the queue of p, or was passed over.
Reached(p, c) ==
    \A e \in (c + 1)..announced : e \in withheld \/ e \in Elements(fiber[p].queue)

\* The queue of a subscribed fiber is in order and has no event that was passed
\* over; a page goes on from the cursor; and where the last page ends, the queue
\* takes over.
Ascends(queue) ==
    \A i \in 1..Len(queue) :
        /\ i <= queue[i] /\ queue[i] \notin withheld
        /\ \A j \in 1..Len(queue) : i < j => queue[i] < queue[j]

InOrder(p) ==
    /\ Subscribed(p) => Ascends(fiber[p].queue)
    /\ CatchingUp(p) =>
          /\ \A i \in 1..Len(fiber[p].page) : fiber[p].page[i] = fiber[p].cursor + i
          /\ fiber[p].more = "no" => Reached(p, fiber[p].cursor + Len(fiber[p].page))
    /\ fiber[p].at = "live" => Reached(p, fiber[p].cursor)

\* Only what comes before the last announced event can have been passed over.
WithheldInv == process # "down" => withheld \subseteq 1..announced

LiveInv == WithheldInv /\ \A p \in Projectors : InOrder(p)

\* What is passed over between the cursor of p and event e.
OnlyWithheldBefore(p, e) == ((fiber[p].cursor + 1)..(e - 1)) \subseteq withheld

LEMMA OthersInOrder ==
    ASSUME LiveInv, NEW p \in Projectors, UNCHANGED <<announced, withheld, process>>,
           \A q \in Projectors \ {p} : fiber'[q] = fiber[q],
           InOrder(p)'
    PROVE  LiveInv'
  <1> SUFFICES ASSUME NEW q \in Projectors PROVE InOrder(q)'
    BY DEF LiveInv, WithheldInv
  <1>1. CASE q # p
    BY <1>1 DEF LiveInv, InOrder, Subscribed, CatchingUp, Reached, Ascends
  <1> QED
    BY <1>1

\* The first event of a queue that is in order comes before the others.
LEMMA AscendingHead ==
    ASSUME NEW S, S \subseteq Nat, NEW queue \in Seq(S), queue # <<>>, Ascends(queue)
    PROVE  /\ Head(queue) \in S /\ Head(queue) \in Elements(queue)
           /\ Head(queue) \notin withheld
           /\ \A e \in Elements(queue) : Head(queue) <= e
           /\ Elements(Tail(queue)) = Elements(queue) \ {Head(queue)}
           /\ Tail(queue) \in Seq(S) /\ Ascends(Tail(queue))
  <1> DEFINE t == Tail(queue)
             len == Len(queue)
  <1>1. /\ t \in Seq(S) /\ Head(queue) = queue[1] /\ queue[1] \in S
        /\ len \in Nat \ {0} /\ Len(t) = len - 1
        /\ \A i \in 1..Len(t) : t[i] = queue[i + 1]
        /\ DOMAIN queue = 1..len /\ DOMAIN t = 1..Len(t)
        /\ \A i \in 1..len : queue[i] \in S
    BY TailIs
  <1>2. \A i \in 1..len : /\ i <= queue[i] /\ queue[i] \notin withheld /\ queue[i] \in Nat
                          /\ \A j \in 1..len : i < j => queue[i] < queue[j]
    BY <1>1 DEF Ascends
  <1> HIDE DEF t, len
  <1>3. 1 \in 1..len /\ \A i \in 1..len : i = 1 \/ (1 < i /\ i - 1 \in 1..Len(t) /\ (i - 1) + 1 = i)
    BY <1>1
  <1>4. \A i \in 1..Len(t) : /\ i + 1 \in 1..len /\ 1 < i + 1 /\ i <= i + 1
                             /\ \A j \in 1..Len(t) : i < j => i + 1 < j + 1
    BY <1>1
  <1>5. queue[1] \in Elements(queue) /\ queue[1] \notin withheld
    BY <1>1, <1>2, <1>3 DEF Elements
  <1>6. \A i \in 1..len : queue[1] <= queue[i]
    <2> TAKE i \in 1..len
    <2>1. i = 1 \/ queue[1] < queue[i]
      BY <1>2, <1>3
    <2>2. queue[1] \in Nat /\ queue[i] \in Nat
      BY <1>2, <1>3
    <2> QED
      BY <2>1, <2>2
  <1>7. \A i \in 1..Len(t) : t[i] # queue[1] /\ t[i] \in Elements(queue)
    <2> TAKE i \in 1..Len(t)
    <2>1. i + 1 \in 1..len /\ queue[1] < queue[i + 1]
      BY <1>2, <1>3, <1>4
    <2>2. queue[1] \in Nat /\ queue[i + 1] \in Nat
      BY <1>2, <1>3, <2>1
    <2> QED
      BY <1>1, <2>1, <2>2 DEF Elements
  <1>8. ASSUME NEW i \in 1..len, i # 1 PROVE queue[i] \in Elements(t)
    <2>1. i - 1 \in DOMAIN t /\ t[i - 1] = queue[i]
      <3>1. i - 1 \in 1..Len(t) /\ (i - 1) + 1 = i
        BY <1>3, <1>8
      <3> QED
        BY <1>1, <3>1
    <2> QED
      BY <2>1 DEF Elements
  <1>9. Elements(t) = Elements(queue) \ {queue[1]}
    BY <1>1, <1>7, <1>8 DEF Elements
  <1>10. Ascends(t)
    <2> SUFFICES ASSUME NEW i \in 1..Len(t)
                 PROVE  /\ i <= t[i] /\ t[i] \notin withheld
                        /\ \A j \in 1..Len(t) : i < j => t[i] < t[j]
      BY DEF Ascends
    <2>1. t[i] = queue[i + 1] /\ i + 1 \in 1..len /\ i + 1 <= queue[i + 1] /\ queue[i + 1] \in Nat
      BY <1>1, <1>2, <1>4
    <2>2. ASSUME NEW j \in 1..Len(t), i < j PROVE t[i] < t[j]
      BY <1>1, <1>2, <1>4, <2>1, <2>2
    <2> QED
      BY <1>1, <1>2, <2>1, <2>2
  <1> QED
    BY <1>1, <1>5, <1>6, <1>9, <1>10 DEF t, len, Elements

\* The next event of a page, or of the queue, is the one after the cursor, or the
\* next after those that were passed over.
LEMMA NextIsNext ==
    ASSUME TypeInv, LiveInv, NEW p \in Projectors
    PROVE  /\ ApplyPage(p) => /\ Head(fiber[p].page) = fiber[p].cursor + 1
                              /\ OnlyWithheldBefore(p, Head(fiber[p].page))
           /\ ApplyLive(p) => OnlyWithheldBefore(p, Head(fiber[p].queue))
  <1>1. /\ InOrder(p) /\ fiber[p].cursor \in Nat /\ announced \in Nat
        /\ fiber[p].queue \in Seq(1..announced)
    BY Numbers DEF LiveInv
  <1>2. ASSUME ApplyPage(p)
        PROVE  /\ Head(fiber[p].page) = fiber[p].cursor + 1
               /\ OnlyWithheldBefore(p, Head(fiber[p].page))
    <2>1. /\ Head(fiber[p].page) = fiber[p].page[1]
          /\ Len(fiber[p].page) \in Nat \ {0}
      BY <1>2, Numbers, TailIs DEF ApplyPage
    <2>2. 1 \in 1..Len(fiber[p].page)
      BY <2>1
    <2>3. Head(fiber[p].page) = fiber[p].cursor + 1
      BY <1>1, <1>2, <2>1, <2>2 DEF InOrder, ApplyPage
    <2> DEFINE c == fiber[p].cursor
               e == Head(fiber[p].page)
    <2>4. c \in Nat /\ e = c + 1
      BY <1>1, <2>3
    <2> HIDE DEF c, e
    <2>5. (c + 1)..(e - 1) = {}
      BY <2>4
    <2> QED
      BY <2>3, <2>5 DEF OnlyWithheldBefore, c, e
  <1>3. ASSUME ApplyLive(p) PROVE OnlyWithheldBefore(p, Head(fiber[p].queue))
    <2> DEFINE queue == fiber[p].queue
               c == fiber[p].cursor
               e == Head(queue)
    <2>1. /\ queue \in Seq(1..announced) /\ 1..announced \subseteq Nat /\ queue # <<>>
          /\ Ascends(queue) /\ \A x \in (c + 1)..announced : x \in withheld \/ x \in Elements(queue)
      BY <1>1, <1>3 DEF ApplyLive, InOrder, Subscribed, Reached
    <2>2. e \in 1..announced /\ \A x \in Elements(queue) : e <= x
      <3> HIDE DEF queue
      <3> QED
        BY <2>1, AscendingHead
    <2>3. c \in Nat /\ announced \in Nat
      BY <1>1
    <2> HIDE DEF queue, c, e
    <2>4. ASSUME NEW x \in (c + 1)..(e - 1) PROVE x \in withheld
      <3>1. x \in (c + 1)..announced /\ ~(e <= x)
        BY <2>2, <2>3
      <3> QED
        BY <2>1, <2>2, <3>1
    <2> QED
      BY <2>4 DEF OnlyWithheldBefore, c, e, queue
  <1> QED
    BY <1>2, <1>3

LEMMA LiveInvEngine ==
    ASSUME TypeInv, LiveInv
    PROVE  /\ Boot => LiveInv'
           /\ Publish \/ PassOver => LiveInv'
           /\ Exit => LiveInv'
  <1>1. ASSUME Boot \/ Exit PROVE LiveInv'
    <2>1. \A p \in Projectors : fiber'[p] = Starting \/ fiber'[p] = Stopped
      BY <1>1 DEF Boot, Exit
    <2>2. WithheldInv'
      BY <1>1 DEF Boot, Exit, TypeInv, WithheldInv, lost
    <2> QED
      BY <2>1, <2>2, StoppedIs DEF LiveInv, InOrder, Subscribed, CatchingUp
  <1>2. ASSUME Publish \/ PassOver PROVE LiveInv'
    <2>1. PICK e \in (announced + 1)..head :
             /\ Announce(e) /\ process = "up"
             /\ withheld' = withheld \cup (announced + 1)..(e - 1)
      BY <1>2, AnnouncesNext
    <2>2. /\ announced' = e /\ announced \in Nat /\ e \in Nat /\ announced < e
          /\ withheld \subseteq 1..announced
      BY <2>1, Numbers DEF Announce, LiveInv, WithheldInv
    <2>3. WithheldInv'
      <3>1. withheld' \subseteq 1..e
        BY <2>1, <2>2
      <3> QED
        BY <2>2, <3>1 DEF WithheldInv
    <2>4. ASSUME NEW p \in Projectors PROVE InOrder(p)'
      <3> DEFINE old == fiber[p].queue
                 new == Append(old, e)
      <3>1. /\ fiber'[p].at = fiber[p].at /\ fiber'[p].cursor = fiber[p].cursor
            /\ fiber'[p].page = fiber[p].page /\ fiber'[p].more = fiber[p].more
            /\ fiber'[p].queue = IF Subscribed(p) THEN new ELSE old
        BY <2>1, AnnounceIs
      <3>2. /\ old \in Seq(1..announced) /\ InOrder(p) /\ fiber[p].cursor \in Nat
            /\ fiber[p].page \in Seq(1..head)
        BY Numbers DEF LiveInv
      <3>3. CASE ~Subscribed(p)
        BY <3>1, <3>3 DEF InOrder, Subscribed, CatchingUp
      <3>4. CASE Subscribed(p)
        <4>1. Ascends(old) /\ Len(old) \in Nat /\ \A i \in 1..Len(old) : old[i] \in 1..announced
          <5>1. Ascends(fiber[p].queue)
            BY <3>2, <3>4 DEF InOrder
          <5>2. Len(old) \in Nat /\ \A i \in 1..Len(old) : old[i] \in 1..announced
            BY <3>2, SeqIs
          <5> QED
            BY <5>1, <5>2
        <4>2. /\ Len(new) = Len(old) + 1 /\ new[Len(old) + 1] = e
              /\ \A i \in 1..Len(old) : new[i] = old[i]
              /\ Elements(new) = Elements(old) \cup {e}
          <5>1. old \in Seq(Nat) /\ e \in Nat
            BY <2>2, <3>2
          <5> HIDE DEF old
          <5> QED
            BY <5>1, AppendIs
        <4> HIDE DEF old, new
        <4>3. fiber'[p].queue = new /\ old = fiber[p].queue
          BY <3>1, <3>4 DEF old
        <4>4. Len(old) = 0 \/ Len(old) <= announced
          <5>1. Len(old) = 0 \/ Len(old) \in 1..Len(old)
            BY <4>1
          <5>2. ASSUME Len(old) \in 1..Len(old) PROVE Len(old) <= announced
            <6>1. Len(old) <= old[Len(old)] /\ old[Len(old)] \in 1..announced
              BY <4>1, <5>2 DEF Ascends
            <6> QED
              BY <2>2, <4>1, <6>1
          <5> QED
            BY <5>1, <5>2
        <4>5. ASSUME NEW i \in 1..Len(new)
              PROVE  /\ i <= new[i] /\ new[i] \notin withheld'
                     /\ \A j \in 1..Len(new) : i < j => new[i] < new[j]
          <5>1. i \in 1..Len(old) \/ i = Len(old) + 1
            BY <4>1, <4>2, <4>5
          <5>2. \A j \in 1..Len(new) : j \in 1..Len(old) \/ j = Len(old) + 1
            BY <4>1, <4>2
          <5>3. CASE i \in 1..Len(old)
            <6>1. new[i] = old[i] /\ old[i] \in 1..announced /\ i <= old[i] /\ old[i] \notin withheld
              BY <4>1, <4>2, <5>3 DEF Ascends
            <6>2. new[i] \notin (announced + 1)..(e - 1) /\ new[i] < e
              BY <2>2, <6>1
            <6>3. \A j \in 1..Len(old) : i < j => new[i] < new[j]
              BY <4>1, <4>2, <5>3 DEF Ascends
            <6> QED
              BY <2>1, <4>2, <5>2, <6>1, <6>2, <6>3
          <5>4. CASE i = Len(old) + 1
            <6>1. new[i] = e /\ i <= e
              BY <2>2, <4>1, <4>2, <4>4, <5>4
            <6>2. e \notin withheld'
              BY <2>1, <2>2
            <6>3. \A j \in 1..Len(new) : ~(i < j)
              BY <4>1, <4>2, <5>4
            <6> QED
              BY <6>1, <6>2, <6>3
          <5> QED
            BY <5>1, <5>3, <5>4
        <4>6. ASSUME NEW c \in Nat, Reached(p, c)
              PROVE  \A x \in (c + 1)..announced' : x \in withheld' \/ x \in Elements(fiber'[p].queue)
          <5> SUFFICES ASSUME NEW x \in (c + 1)..e, x \notin Elements(new), x \notin withheld'
                       PROVE  FALSE
            BY <2>2, <4>3
          <5>1. x # e /\ x \notin Elements(old) /\ x \notin withheld /\ x \notin (announced + 1)..(e - 1)
            BY <2>1, <4>2
          <5>2. x \in (c + 1)..announced
            BY <2>2, <4>6, <5>1
          <5> QED
            BY <4>3, <4>6, <5>1, <5>2 DEF Reached
        <4>7. fiber[p].cursor + Len(fiber[p].page) \in Nat
          <5>1. Len(fiber[p].page) \in Nat
            BY <3>2
          <5> QED
            BY <3>2, <5>1
        <4>8. CatchingUp(p)' /\ fiber'[p].more = "no"
                 => Reached(p, fiber[p].cursor + Len(fiber[p].page))'
          <5> SUFFICES ASSUME CatchingUp(p)', fiber'[p].more = "no"
                       PROVE  Reached(p, fiber[p].cursor + Len(fiber[p].page))'
            OBVIOUS
          <5>1. Reached(p, fiber[p].cursor + Len(fiber[p].page))
            BY <3>1, <3>2 DEF InOrder, CatchingUp
          <5> QED
            BY <3>1, <4>6, <4>7, <5>1 DEF Reached
        <4>9. fiber'[p].at = "live" => Reached(p, fiber[p].cursor)'
          <5> SUFFICES ASSUME fiber'[p].at = "live" PROVE Reached(p, fiber[p].cursor)'
            OBVIOUS
          <5>1. Reached(p, fiber[p].cursor)
            BY <3>1, <3>2 DEF InOrder
          <5> QED
            BY <3>1, <3>2, <4>6, <5>1 DEF Reached
        <4>10. Ascends(fiber[p].queue)'
          BY <4>3, <4>5 DEF Ascends
        <4> QED
          BY <3>1, <3>2, <4>8, <4>9, <4>10 DEF InOrder, CatchingUp
      <3> QED
        BY <3>3, <3>4
    <2> QED
      BY <2>3, <2>4 DEF LiveInv
  <1> QED
    BY <1>1, <1>2

LEMMA LiveInvFibers ==
    ASSUME TypeInv, LiveInv, NEW p \in Projectors
    PROVE  /\ FiberStep(p) => LiveInv'
           /\ Fail(p) => LiveInv'
           /\ StopProjector(p) => LiveInv'
           /\ RebuildStep(p) => LiveInv'
  <1>1. /\ InOrder(p) /\ announced \in Nat /\ head \in Nat /\ announced <= head
        /\ fiber[p].cursor \in 0..head /\ fiber[p].cursor \in Nat
        /\ fiber[p].page \in Seq(1..head) /\ fiber[p].queue \in Seq(1..announced)
    BY Numbers DEF LiveInv
  <1>2. Len(fiber[p].queue) \in Nat /\ Len(fiber[p].page) \in Nat
    BY <1>1
  <1>3. ASSUME UNCHANGED <<announced, withheld, process>>,
               NEW at \in {"off", "start", "backoff", "ended"},
               NEW c, NEW g, NEW m, NEW q, Becomes(p, at, c, g, m, q)
        PROVE  LiveInv'
    <2>1. InOrder(p)'
      BY <1>3 DEF Becomes, InOrder, Subscribed, CatchingUp
    <2> QED
      BY <1>3, <2>1, OthersInOrder DEF Becomes
  <1>4. ASSUME Subscribe(p) PROVE LiveInv'
    <2>1. /\ fiber'[p].at = "resume" /\ fiber'[p].queue = <<>>
          /\ UNCHANGED <<announced, withheld, process>>
          /\ \A q \in Projectors \ {p} : fiber'[q] = fiber[q]
      BY <1>4, SubscribeIs DEF Becomes, Subscribe, lost
    <2>2. InOrder(p)'
      <3>1. 1..Len(<<>>) = {}
        OBVIOUS
      <3> QED
        BY <2>1, <3>1 DEF InOrder, Subscribed, CatchingUp, Ascends
    <2> QED
      BY <2>1, <2>2, OthersInOrder
  <1>5. ASSUME ReadCheckpoint(p) PROVE LiveInv'
    <2>1. /\ fiber'[p].at = "catchUp1" /\ fiber'[p].page = <<>> /\ fiber'[p].more = "yes"
          /\ fiber'[p].queue = fiber[p].queue /\ UNCHANGED <<announced, withheld, process>>
          /\ \A q \in Projectors \ {p} : fiber'[q] = fiber[q]
      BY <1>5, ReadCheckpointIs DEF Becomes, ReadCheckpoint, lost
    <2>2. InOrder(p)'
      <3>1. Ascends(fiber[p].queue)'
        <4>1. Ascends(fiber[p].queue)
          BY <1>1, <1>5 DEF InOrder, Subscribed, ReadCheckpoint
        <4> QED
          BY <2>1, <4>1 DEF Ascends
      <3>2. \A i \in 1..Len(fiber'[p].page) : fiber'[p].page[i] = fiber'[p].cursor + i
        BY <2>1
      <3> QED
        BY <2>1, <3>1, <3>2 DEF InOrder
    <2> QED
      BY <2>1, <2>2, OthersInOrder
  <1>6. ASSUME ReadPage(p) PROVE LiveInv'
    <2> DEFINE page == Page(fiber[p].cursor)
    <2>1. /\ fiber'[p].at = fiber[p].at /\ fiber'[p].page = page
          /\ fiber'[p].cursor = fiber[p].cursor
          /\ fiber'[p].more = IF Len(page) = PageSize THEN "yes" ELSE "no"
          /\ fiber'[p].queue = fiber[p].queue /\ UNCHANGED <<announced, withheld, process>>
          /\ \A q \in Projectors \ {p} : fiber'[q] = fiber[q]
      BY <1>6, ReadPageIs DEF Becomes, ReadPage, lost
    <2>2. /\ \A i \in 1..Len(page) : page[i] = fiber[p].cursor + i
          /\ Len(page) # PageSize => fiber[p].cursor + Len(page) = head
      BY <1>1, PageIs
    <2>3. fiber[p].at \in {"catchUp1", "catchUp2"}
      BY <1>6 DEF ReadPage, CatchingUp
    <2> HIDE DEF page
    <2>4. Ascends(fiber[p].queue)'
      BY <1>1, <2>1, <2>3 DEF InOrder, Subscribed, Ascends
    <2>5. fiber'[p].more = "no" => Reached(p, fiber[p].cursor + Len(fiber[p].page))'
      <3> SUFFICES ASSUME fiber'[p].more = "no", NEW e \in (head + 1)..announced PROVE FALSE
        BY <2>1, <2>2 DEF Reached
      <3> QED
        BY <1>1
    <2>6. fiber'[p].at # "live"
      BY <2>1, <2>3
    <2>7. InOrder(p)'
      BY <2>1, <2>2, <2>4, <2>5, <2>6 DEF InOrder
    <2> QED
      BY <2>1, <2>7, OthersInOrder
  <1>7. ASSUME ApplyPage(p) PROVE LiveInv'
    <2> DEFINE page == fiber[p].page
               c == fiber[p].cursor
    <2>1. Head(page) = c + 1
      BY <1>7, NextIsNext
    <2>2. Advanced(p, Head(page)) = c + 1
      BY <1>1, <2>1 DEF Advanced
    <2>3. /\ fiber'[p].at = fiber[p].at /\ fiber'[p].page = Tail(page)
          /\ fiber'[p].cursor = c + 1
          /\ fiber'[p].more = fiber[p].more
          /\ fiber'[p].queue = fiber[p].queue /\ UNCHANGED <<announced, withheld, process>>
          /\ \A q \in Projectors \ {p} : fiber'[q] = fiber[q]
      BY <1>7, <2>2, ApplyPageIs DEF Becomes, ApplyPage, lost
    <2>4. /\ Len(page) \in Nat \ {0} /\ Len(Tail(page)) = Len(page) - 1
          /\ \A i \in 1..Len(Tail(page)) : Tail(page)[i] = page[i + 1]
      BY <1>1, <1>7, TailIs DEF ApplyPage
    <2>5. fiber[p].at \in {"catchUp1", "catchUp2"}
      BY <1>7 DEF ApplyPage, CatchingUp
    <2>6. /\ \A i \in 1..Len(page) : page[i] = c + i
          /\ fiber[p].more = "no" => Reached(p, c + Len(page))
          /\ Ascends(fiber[p].queue)
      BY <1>1, <2>5 DEF InOrder, CatchingUp, Subscribed
    <2>7. c \in Nat
      BY <1>1
    <2>8. /\ \A i \in 1..Len(Tail(page)) : Tail(page)[i] = (c + 1) + i
          /\ (c + 1) + Len(Tail(page)) = c + Len(page)
      <3> HIDE DEF c, page
      <3>1. \A i \in 1..Len(Tail(page)) : i + 1 \in 1..Len(page) /\ c + (i + 1) = (c + 1) + i
        BY <2>4, <2>7
      <3>2. \A i \in 1..Len(Tail(page)) : Tail(page)[i] = (c + 1) + i
        BY <2>4, <2>6, <3>1
      <3>3. (c + 1) + Len(Tail(page)) = c + Len(page)
        BY <2>4, <2>7
      <3> QED
        BY <3>2, <3>3
    <2> HIDE DEF c, page
    <2>9. fiber'[p].more = "no" => Reached(p, fiber[p].cursor + Len(fiber[p].page))'
      BY <2>3, <2>6, <2>8 DEF Reached
    <2>10. Ascends(fiber[p].queue)'
      BY <2>3, <2>6 DEF Ascends
    <2>11. InOrder(p)'
      BY <2>3, <2>5, <2>8, <2>9, <2>10 DEF InOrder, Subscribed, CatchingUp
    <2> QED
      BY <2>3, <2>11, OthersInOrder
  <1>8. ASSUME CaughtUp(p) PROVE LiveInv'
    <2>1. /\ fiber'[p].page = fiber[p].page /\ fiber'[p].cursor = fiber[p].cursor
          /\ fiber'[p].queue = fiber[p].queue /\ UNCHANGED <<announced, withheld, process>>
          /\ \A q \in Projectors \ {p} : fiber'[q] = fiber[q]
          /\ \/ fiber[p].at = "catchUp1" /\ fiber'[p].at = "catchUp2" /\ fiber'[p].more = "yes"
             \/ fiber[p].at = "catchUp2" /\ fiber'[p].at = "live"
      BY <1>8, CaughtUpIs DEF Becomes, CaughtUp, lost
    <2>2. Reached(p, fiber[p].cursor)
      <3>1. Len(fiber[p].page) = 0
        BY <1>8 DEF CaughtUp
      <3>2. fiber[p].cursor + Len(fiber[p].page) = fiber[p].cursor
        BY <1>1, <3>1
      <3> QED
        BY <1>1, <1>8, <3>2 DEF InOrder, CaughtUp
    <2>3. Reached(p, fiber[p].cursor)'
      BY <2>1, <2>2 DEF Reached
    <2>4. Ascends(fiber[p].queue)'
      BY <1>1, <1>8, <2>1 DEF InOrder, CaughtUp, CatchingUp, Subscribed, Ascends
    <2>5. \A i \in 1..Len(fiber'[p].page) : fiber'[p].page[i] = fiber'[p].cursor + i
      BY <1>1, <1>8, <2>1 DEF InOrder, CaughtUp
    <2>6. InOrder(p)'
      BY <2>1, <2>3, <2>4, <2>5 DEF InOrder, CatchingUp
    <2> QED
      BY <2>1, <2>6, OthersInOrder
  <1>9. ASSUME ApplyLive(p) PROVE LiveInv'
    <2> DEFINE queue == fiber[p].queue
               e == Head(queue)
               c == Advanced(p, e)
    <2>1. /\ fiber'[p].at = "live" /\ fiber'[p].queue = Tail(queue)
          /\ fiber'[p].cursor = c /\ UNCHANGED <<announced, withheld, process>>
          /\ \A q \in Projectors \ {p} : fiber'[q] = fiber[q]
      BY <1>9, ApplyLiveIs DEF Becomes, ApplyLive, lost
    <2>2. /\ queue \in Seq(1..announced) /\ 1..announced \subseteq Nat /\ queue # <<>>
          /\ Ascends(queue) /\ Reached(p, fiber[p].cursor)
      BY <1>1, <1>9 DEF ApplyLive, InOrder, Subscribed
    <2>3. /\ e \in 1..announced /\ Elements(Tail(queue)) = Elements(queue) \ {e}
          /\ Ascends(Tail(queue))
      <3> HIDE DEF queue
      <3> QED
        BY <2>2, AscendingHead
    <2>4. c \in Nat /\ fiber[p].cursor <= c /\ e <= c
      BY <1>1, <2>3 DEF Advanced
    <2>5. Ascends(fiber[p].queue)'
      BY <2>1, <2>3 DEF Ascends
    <2>6. Reached(p, fiber[p].cursor)'
      <3> HIDE DEF c, e, queue
      <3> SUFFICES ASSUME NEW x \in (c + 1)..announced, x \notin withheld
                   PROVE  x \in Elements(Tail(queue))
        BY <2>1 DEF Reached
      <3>1. x \in (fiber[p].cursor + 1)..announced /\ x # e
        BY <1>1, <2>3, <2>4
      <3>2. x \in Elements(queue)
        BY <2>2, <3>1 DEF Reached, queue
      <3> QED
        BY <2>3, <3>1, <3>2
    <2> HIDE DEF c, e
    <2>7. InOrder(p)'
      BY <2>1, <2>5, <2>6 DEF InOrder, Subscribed, CatchingUp
    <2> QED
      BY <2>1, <2>7, OthersInOrder
  <1>10. Restart(p) => LiveInv'
    BY <1>3, RestingIs DEF Restart, lost
  <1>11. StreamEnds(p) => LiveInv'
    BY <1>3, RestingIs DEF StreamEnds, lost
  <1>12. Fail(p) => LiveInv'
    BY <1>3, RestingIs DEF Fail, lost
  <1>13. StopProjector(p) => LiveInv'
    BY <1>3, RestingIs DEF StopProjector, lost
  <1>14. StartProjector(p) => LiveInv'
    BY <1>3, RestingIs DEF StartProjector, lost
  <1>15. ResetProjector(p) => LiveInv'
    BY DEF ResetProjector, LiveInv, WithheldInv, InOrder, Subscribed, CatchingUp, Reached,
      Ascends, lost
  <1> QED
    BY <1>4, <1>5, <1>6, <1>7, <1>8, <1>9, <1>10, <1>11, <1>12, <1>13, <1>14, <1>15
    DEF FiberStep, RebuildStep

LEMMA LiveInvStep == TypeInv /\ LiveInv /\ [Next]_vars => LiveInv'
  <1> SUFFICES ASSUME TypeInv, LiveInv, [Next]_vars PROVE LiveInv'
    OBVIOUS
  <1>1. ASSUME UNCHANGED <<announced, withheld, fiber>>, process' # "down" => process # "down"
        PROVE  LiveInv'
    BY <1>1 DEF LiveInv, WithheldInv, InOrder, Subscribed, CatchingUp, Reached, Ascends
  <1>2. CASE Commit \/ LoseReconcile \/ EndStream \/ Import
    BY <1>1, <1>2 DEF Commit, LoseReconcile, EndStream, Import, ImportBegin, ImportMeasure,
      ImportRead, ImportApply, ImportFails, pipeline, lost
  <1>3. CASE \E p \in Projectors : ResetFails(p)
    BY <1>1, <1>3 DEF ResetFails, lost
  <1>4. CASE UNCHANGED vars
    BY <1>1, <1>4 DEF vars
  <1> QED
    BY <1>2, <1>3, <1>4, LiveInvEngine, LiveInvFibers DEF Next

LEMMA LiveInvInit == Init => LiveInv
  BY StoppedIs DEF Init, LiveInv, WithheldInv, InOrder, Subscribed, CatchingUp

\* No event slips between the catch-ups and the stream: a live fiber has every
\* published event above its cursor in its own queue, and nothing else above it,
\* also while events are passed over beside it.
THEOREM NothingSlipsPast == Spec => []NothingMissedLive
  <1>1. TypeInv /\ LiveInv => NothingMissedLive
    <2> SUFFICES ASSUME TypeInv, LiveInv, NEW p \in Projectors, fiber[p].at = "live"
                 PROVE  {e \in Elements(fiber[p].queue) : e > fiber[p].cursor}
                            = ((fiber[p].cursor + 1)..announced) \ withheld
      BY DEF NothingMissedLive
    <2> DEFINE queue == fiber[p].queue
               c == fiber[p].cursor
    <2>1. /\ queue \in Seq(1..announced) /\ announced \in Nat /\ c \in Nat
          /\ DOMAIN queue = 1..Len(queue) /\ \A i \in 1..Len(queue) : queue[i] \in 1..announced
      <3>1. queue \in Seq(1..announced) /\ announced \in Nat /\ c \in Nat
        BY Numbers
      <3> QED
        BY <3>1
    <2>2. /\ \A i \in 1..Len(queue) : queue[i] \notin withheld
          /\ \A e \in (c + 1)..announced : e \in withheld \/ e \in Elements(queue)
      BY DEF LiveInv, InOrder, Subscribed, Reached, Ascends
    <2> HIDE DEF queue, c
    <2>3. \A e \in Elements(queue) : e \notin withheld /\ (e > c => e \in (c + 1)..announced)
      BY <2>1, <2>2 DEF Elements
    <2>4. \A e \in (c + 1)..announced : e > c
      BY <2>1
    <2> QED
      BY <2>2, <2>3, <2>4 DEF queue, c
  <1> QED
    BY <1>1, TypeInvInit, TypeInvStep, LiveInvInit, LiveInvStep, PTL DEF Spec

-----------------------------------------------------------------------------
(* The tables *)

Follows(p) == fiber[p].at \in {"catchUp1", "catchUp2", "live"}

\* A projector that is being rebuilt has no fiber; a process that is down
\* rebuilds nothing.
RebuildInv ==
    \A p \in Projectors :
        /\ rebuilding[p] \in {"stopped", "reset"} => fiber[p].at = "off"
        /\ rebuilding[p] # "no" => process # "down" /\ spent["rebuilds"] > 0

\* A table has the log up to its checkpoint, but for what was passed over, and the
\* fiber that follows the log stands at that checkpoint.
TableInv ==
    \A p \in Projectors :
        Undisturbed(p) =>
            /\ HoldsLog(applied[p], checkpoint[p])
            /\ Follows(p) => fiber[p].cursor = checkpoint[p]

LEMMA RebuildInvFibers ==
    ASSUME TypeInv, RebuildInv, NEW p \in Projectors
    PROVE  /\ FiberStep(p) => RebuildInv'
           /\ Fail(p) => RebuildInv'
           /\ StopProjector(p) => RebuildInv'
           /\ RebuildStep(p) => RebuildInv'
           /\ ResetFails(p) => RebuildInv'
  <1>1. ASSUME NEW at, NEW c, NEW g, NEW m, NEW q, Becomes(p, at, c, g, m, q),
               fiber[p].at # "off" \/ at = "off" \/ rebuilding'[p] = "no",
               UNCHANGED process, spent'["rebuilds"] >= spent["rebuilds"],
               spent["rebuilds"] \in Nat, spent'["rebuilds"] \in Nat,
               \A u \in Projectors \ {p} : rebuilding'[u] = rebuilding[u],
               rebuilding'[p] \in {"no", rebuilding[p]}
                  \/ (at = "off" /\ process # "down" /\ spent'["rebuilds"] > 0)
        PROVE  RebuildInv'
    <2> SUFFICES ASSUME NEW u \in Projectors
                 PROVE  /\ rebuilding'[u] \in {"stopped", "reset"} => fiber'[u].at = "off"
                        /\ rebuilding'[u] # "no" => process' # "down" /\ spent'["rebuilds"] > 0
      BY DEF RebuildInv
    <2>1. CASE u = p
      BY <1>1, <2>1 DEF RebuildInv, Becomes
    <2>2. CASE u # p
      BY <1>1, <2>2 DEF RebuildInv, Becomes
    <2> QED
      BY <2>1, <2>2
  <1>2. spent["rebuilds"] \in Nat /\ rebuilding \in [Projectors -> {"no", "stopped", "reset", "failed"}]
    BY DEF TypeInv
  <1>3. ASSUME fiber[p].at # "off", NEW at, NEW c, NEW g, NEW m, NEW q, Becomes(p, at, c, g, m, q),
               UNCHANGED <<process, rebuilding>>, UNCHANGED spent \/ Spend("failures", MaxFailures)
        PROVE  RebuildInv'
    <2>1. spent'["rebuilds"] = spent["rebuilds"]
      BY <1>3 DEF Spend, TypeInv
    <2> QED
      BY <1>1, <1>2, <1>3, <2>1
  <1>4. ASSUME Subscribe(p) PROVE RebuildInv'
    BY <1>3, <1>4, SubscribeIs DEF Subscribe
  <1>5. ASSUME ReadCheckpoint(p) PROVE RebuildInv'
    BY <1>3, <1>5, ReadCheckpointIs DEF ReadCheckpoint
  <1>6. ASSUME ReadPage(p) PROVE RebuildInv'
    BY <1>3, <1>6, ReadPageIs DEF ReadPage, CatchingUp
  <1>7. ASSUME ApplyPage(p) PROVE RebuildInv'
    BY <1>3, <1>7, ApplyPageIs DEF ApplyPage, CatchingUp
  <1>8. ASSUME CaughtUp(p) PROVE RebuildInv'
    BY <1>3, <1>8, CaughtUpIs DEF CaughtUp, CatchingUp
  <1>9. ASSUME ApplyLive(p) PROVE RebuildInv'
    BY <1>3, <1>9, ApplyLiveIs DEF ApplyLive
  <1>10. ASSUME Restart(p) PROVE RebuildInv'
    BY <1>3, <1>10, RestingIs DEF Restart
  <1>11. ASSUME StreamEnds(p) PROVE RebuildInv'
    BY <1>3, <1>11, RestingIs DEF StreamEnds
  <1>12. ASSUME Fail(p) PROVE RebuildInv'
    BY <1>3, <1>12, RestingIs DEF Fail, CatchingUp
  <1>13. ASSUME StopProjector(p) PROVE RebuildInv'
    <2>1. /\ spent'["rebuilds"] = spent["rebuilds"] + 1 /\ process # "down" /\ process' = process
          /\ rebuilding' = [rebuilding EXCEPT ![p] = "stopped"]
      BY <1>13 DEF StopProjector, Spend, TypeInv
    <2>2. Becomes(p, "off", 0, <<>>, "no", <<>>)
      BY <1>13, RestingIs
    <2> QED
      BY <1>1, <1>2, <2>1, <2>2
  <1>14. ASSUME StartProjector(p) PROVE RebuildInv'
    <2>1. /\ UNCHANGED <<spent, process>>
          /\ rebuilding' = [rebuilding EXCEPT ![p] = "no"]
      BY <1>14 DEF StartProjector
    <2>2. Becomes(p, "start", 0, <<>>, "no", <<>>)
      BY <1>14, RestingIs
    <2> QED
      BY <1>1, <1>2, <2>1, <2>2
  <1>15. ASSUME ResetProjector(p) \/ ResetFails(p) PROVE RebuildInv'
    <2>1. /\ UNCHANGED <<spent, process, fiber>> /\ rebuilding[p] = "stopped"
          /\ \E to \in {"reset", "failed"} : rebuilding' = [rebuilding EXCEPT ![p] = to]
      BY <1>15 DEF ResetProjector, ResetFails
    <2> QED
      BY <1>2, <2>1 DEF RebuildInv
  <1> QED
    BY <1>4, <1>5, <1>6, <1>7, <1>8, <1>9, <1>10, <1>11, <1>12, <1>13, <1>14, <1>15
    DEF FiberStep, RebuildStep

LEMMA RebuildInvStep == TypeInv /\ RebuildInv /\ [Next]_vars => RebuildInv'
  <1> SUFFICES ASSUME TypeInv, RebuildInv, [Next]_vars PROVE RebuildInv'
    OBVIOUS
  <1>1. ASSUME UNCHANGED rebuilding, process # "down" => process' # "down",
               \A p \in Projectors : fiber[p].at = "off" => fiber'[p].at = "off",
               spent'["rebuilds"] = spent["rebuilds"]
        PROVE  RebuildInv'
    BY <1>1 DEF RebuildInv
  <1>2. CASE Boot
    <2>1. \A p \in Projectors : rebuilding'[p] = "no"
      BY <1>2 DEF Boot, RebuildInv
    <2> QED
      BY <2>1 DEF RebuildInv
  <1>3. CASE Exit
    <2>1. \A p \in Projectors : rebuilding'[p] = "no"
      BY <1>3 DEF Exit
    <2> QED
      BY <2>1 DEF RebuildInv
  <1>4. CASE Publish \/ PassOver
    <2>1. PICK e \in (announced + 1)..head : Announce(e)
      BY <1>4, AnnouncesNext
    <2>2. \A p \in Projectors : fiber'[p].at = fiber[p].at
      BY <2>1, AnnounceIs
    <2> QED
      BY <1>1, <2>1, <2>2 DEF Announce
  <1>5. CASE Commit \/ EndStream \/ LoseReconcile
    <2>1. spent'["rebuilds"] = spent["rebuilds"]
      BY <1>5 DEF Commit, EndStream, LoseReconcile, Spend, TypeInv
    <2> QED
      BY <1>1, <1>5, <2>1 DEF Commit, EndStream, LoseReconcile
  <1>6. CASE Import
    <2>1. UNCHANGED pipeline
      BY <1>6 DEF Import, ImportBegin, ImportMeasure, ImportRead, ImportApply, ImportFails
    <2>2. spent'["rebuilds"] = spent["rebuilds"]
      BY <1>6 DEF Import, ImportBegin, ImportMeasure, ImportRead, ImportApply, ImportFails,
        Spend, TypeInv
    <2> QED
      BY <1>1, <2>1, <2>2 DEF pipeline
  <1>7. CASE UNCHANGED vars
    BY <1>1, <1>7 DEF vars
  <1> QED
    BY <1>2, <1>3, <1>4, <1>5, <1>6, <1>7, RebuildInvFibers DEF Next

LEMMA EmptyTable ==
    ASSUME NEW table, table = <<>>
    PROVE  HoldsLog(table, 0)
  <1>1. DOMAIN <<>> = {} /\ 1..0 = {}
    OBVIOUS
  <1> QED
    BY <1>1 DEF HoldsLog, Elements

\* A table that gets the next event that was not passed over.
LEMMA TableGrows ==
    ASSUME NEW table \in Seq(Nat), NEW c \in Nat, HoldsLog(table, c),
           NEW e \in Nat, c < e, ((c + 1)..(e - 1)) \subseteq withheld
    PROVE  HoldsLog(Append(table, e), e)
  <1> DEFINE new == Append(table, e)
             len == Len(table)
  <1>1. /\ len \in Nat /\ Len(new) = len + 1 /\ new[len + 1] = e
        /\ \A i \in 1..len : new[i] = table[i]
        /\ Elements(new) = Elements(table) \cup {e}
        /\ DOMAIN table = 1..len /\ DOMAIN new = 1..(len + 1)
        /\ new # <<>>
    <2>1. Elements(new) = Elements(table) \cup {e} /\ Len(new) = len + 1 /\ len \in Nat
          /\ new[len + 1] = e /\ \A i \in 1..len : new[i] = table[i]
          /\ new \in Seq(Nat)
      BY AppendIs
    <2>2. DOMAIN table = 1..len /\ DOMAIN new = 1..(len + 1)
      <3> HIDE DEF new
      <3> QED
        BY <2>1
    <2>3. new # <<>>
      <3> HIDE DEF new
      <3> QED
        BY <2>1
    <2> QED
      BY <2>1, <2>2, <2>3
  <1>2. /\ \A i, j \in 1..len : i < j => table[i] < table[j]
        /\ \A i \in 1..len : table[i] \in Elements(table) /\ table[i] \in 1..c
        /\ Elements(table) \subseteq 1..c /\ 1..c \ Elements(table) \subseteq withheld
    BY <1>1 DEF HoldsLog, Elements
  <1> HIDE DEF new, len
  <1>3. \A i \in 1..(len + 1) : i \in 1..len \/ i = len + 1
    BY <1>1
  <1>4. ASSUME NEW i \in 1..(len + 1), NEW j \in 1..(len + 1), i < j PROVE new[i] < new[j]
    <2>1. i \in 1..len
      BY <1>1, <1>4
    <2>2. CASE j \in 1..len
      BY <1>1, <1>2, <1>4, <2>1, <2>2
    <2>3. CASE j = len + 1
      <3>1. new[i] \in 1..c /\ new[j] = e
        BY <1>1, <1>2, <2>1, <2>3
      <3> QED
        BY <3>1
    <2> QED
      BY <1>3, <1>4, <2>2, <2>3
  <1>5. Elements(new) \subseteq 1..e
    BY <1>1, <1>2
  <1>6. ASSUME NEW x \in 1..e, x \notin Elements(new) PROVE x \in withheld
    <2>1. x # e /\ x \notin Elements(table)
      BY <1>1, <1>6
    <2>2. x \in 1..c \/ x \in (c + 1)..(e - 1)
      BY <2>1
    <2> QED
      BY <1>2, <2>1, <2>2
  <1>7. HoldsLog(new, e)
    BY <1>1, <1>4, <1>5, <1>6 DEF HoldsLog
  <1> QED
    BY <1>7 DEF new

\* applyIfNewer, of the next event that was not passed over, or of one at or
\* below the cursor.
LEMMA TableInvApply ==
    ASSUME TypeInv, TableInv, NEW p \in Projectors, NEW e \in 1..head,
           OnlyWithheldBefore(p, e), Follows(p), ApplyIfNewer(p, e),
           NEW at, NEW g, NEW m, NEW q, Becomes(p, at, Advanced(p, e), g, m, q),
           UNCHANGED <<imported, withheld>>
    PROVE  TableInv'
  <1> SUFFICES ASSUME NEW u \in Projectors, Undisturbed(u)
               PROVE  /\ HoldsLog(applied'[u], checkpoint'[u])
                      /\ Follows(u)' => fiber'[u].cursor = checkpoint'[u]
    BY DEF TableInv, Undisturbed, HoldsLog
  <1>1. /\ HoldsLog(applied[u], checkpoint[u])
        /\ Follows(u) => fiber[u].cursor = checkpoint[u]
    BY DEF TableInv
  <1>2. CASE u # p
    <2>1. applied'[u] = applied[u] /\ checkpoint'[u] = checkpoint[u] /\ fiber'[u] = fiber[u]
      BY <1>2 DEF ApplyIfNewer, Becomes, TypeInv
    <2> QED
      BY <1>1, <2>1 DEF Follows
  <1>3. CASE u = p /\ e <= fiber[p].cursor
    <2>1. applied' = applied /\ checkpoint' = checkpoint /\ fiber'[p].cursor = fiber[p].cursor
      BY <1>3 DEF ApplyIfNewer, Becomes, Advanced
    <2> QED
      BY <1>1, <1>3, <2>1
  <1>4. CASE u = p /\ ~(e <= fiber[p].cursor)
    <2>1. /\ checkpoint[p] \in Nat /\ e \in Nat /\ checkpoint[p] < e
          /\ ((checkpoint[p] + 1)..(e - 1)) \subseteq withheld
          /\ applied[p] \in Seq(Nat)
      <3>1. fiber[p].cursor \in Nat /\ fiber[p].cursor = checkpoint[p] /\ e \in Nat
            /\ applied[p] \in Seq(1..head)
        BY <1>1, <1>4, Numbers
      <3>2. applied[p] \in Seq(Nat)
        <4>1. 1..head \subseteq Nat
          OBVIOUS
        <4> QED
          BY <3>1, <4>1, SeqIs
      <3>3. ((checkpoint[p] + 1)..(e - 1)) \subseteq withheld
        BY <3>1 DEF OnlyWithheldBefore
      <3> QED
        BY <1>4, <3>1, <3>2, <3>3
    <2>2. applied'[p] = Append(applied[p], e) /\ checkpoint'[p] = e /\ fiber'[p].cursor = e
      BY <1>4 DEF ApplyIfNewer, Becomes, Advanced, TypeInv
    <2>3. HoldsLog(applied'[p], e)
      BY <1>1, <1>4, <2>1, <2>2, TableGrows
    <2> QED
      BY <1>4, <2>2, <2>3
  <1> QED
    BY <1>2, <1>3, <1>4

LEMMA TableInvFibers ==
    ASSUME TypeInv, LiveInv, RebuildInv, TableInv, NEW p \in Projectors
    PROVE  /\ FiberStep(p) => TableInv'
           /\ Fail(p) => TableInv'
           /\ StopProjector(p) => TableInv'
           /\ RebuildStep(p) => TableInv'
  <1>1. ASSUME NEW at, NEW c, NEW g, NEW m, NEW q, Becomes(p, at, c, g, m, q),
               UNCHANGED <<imported, withheld, applied, checkpoint>>,
               \/ at \notin {"catchUp1", "catchUp2", "live"}
               \/ c = checkpoint[p]
               \/ Follows(p) /\ c = fiber[p].cursor
        PROVE  TableInv'
    <2> SUFFICES ASSUME NEW u \in Projectors, Undisturbed(u)
                 PROVE  /\ HoldsLog(applied[u], checkpoint[u])
                        /\ Follows(u)' => fiber'[u].cursor = checkpoint[u]
      BY <1>1 DEF TableInv, Undisturbed, HoldsLog
    <2>1. CASE u = p
      BY <1>1, <2>1 DEF TableInv, Becomes, Follows
    <2>2. CASE u # p
      BY <1>1, <2>2 DEF TableInv, Becomes, Follows
    <2> QED
      BY <2>1, <2>2
  <1>2. ASSUME Subscribe(p) PROVE TableInv'
    BY <1>1, <1>2, SubscribeIs DEF Subscribe, durable, lost, importing
  <1>3. ASSUME ReadCheckpoint(p) PROVE TableInv'
    BY <1>1, <1>3, ReadCheckpointIs DEF ReadCheckpoint, durable, lost, importing
  <1>4. ASSUME ReadPage(p) PROVE TableInv'
    BY <1>1, <1>4, ReadPageIs DEF ReadPage, durable, lost, importing, CatchingUp, Follows
  <1>5. ASSUME ApplyPage(p) PROVE TableInv'
    <2>1. /\ Head(fiber[p].page) \in 1..head
          /\ Becomes(p, fiber[p].at, Advanced(p, Head(fiber[p].page)), Tail(fiber[p].page),
                     fiber[p].more, fiber[p].queue)
      BY <1>5, ApplyPageIs
    <2>2. OnlyWithheldBefore(p, Head(fiber[p].page))
      BY <1>5, NextIsNext
    <2> QED
      BY <1>5, <2>1, <2>2, TableInvApply DEF ApplyPage, CatchingUp, Follows, importing, lost
  <1>6. ASSUME CaughtUp(p) PROVE TableInv'
    BY <1>1, <1>6, CaughtUpIs DEF CaughtUp, durable, lost, importing, CatchingUp, Follows
  <1>7. ASSUME ApplyLive(p) PROVE TableInv'
    <2>1. /\ Head(fiber[p].queue) \in 1..head
          /\ Becomes(p, "live", Advanced(p, Head(fiber[p].queue)), fiber[p].page,
                     fiber[p].more, Tail(fiber[p].queue))
      BY <1>7, ApplyLiveIs
    <2>2. OnlyWithheldBefore(p, Head(fiber[p].queue))
      BY <1>7, NextIsNext
    <2> QED
      BY <1>7, <2>1, <2>2, TableInvApply DEF ApplyLive, Follows, importing, lost
  <1>8. Restart(p) => TableInv'
    BY <1>1, RestingIs DEF Restart, durable, lost, importing
  <1>9. StreamEnds(p) => TableInv'
    BY <1>1, RestingIs DEF StreamEnds, durable, lost, importing
  <1>10. Fail(p) => TableInv'
    BY <1>1, RestingIs DEF Fail, durable, lost, importing
  <1>11. StopProjector(p) => TableInv'
    BY <1>1, RestingIs DEF StopProjector, durable, lost, importing
  <1>12. StartProjector(p) => TableInv'
    BY <1>1, RestingIs DEF StartProjector, durable, lost, importing
  <1>13. ASSUME ResetProjector(p) PROVE TableInv'
    <2>1. /\ applied' = [applied EXCEPT ![p] = <<>>] /\ checkpoint' = [checkpoint EXCEPT ![p] = 0]
          /\ UNCHANGED <<fiber, imported, withheld>> /\ fiber[p].at = "off"
      BY <1>13 DEF ResetProjector, RebuildInv, importing, lost
    <2> SUFFICES ASSUME NEW u \in Projectors, Undisturbed(u)
                 PROVE  /\ HoldsLog(applied'[u], checkpoint'[u])
                        /\ Follows(u)' => fiber'[u].cursor = checkpoint'[u]
      BY <2>1 DEF TableInv, Undisturbed, HoldsLog
    <2>2. CASE u = p
      BY <2>1, <2>2, EmptyTable DEF Follows, TypeInv
    <2>3. CASE u # p
      BY <2>1, <2>3 DEF Follows, TypeInv, TableInv
    <2> QED
      BY <2>2, <2>3
  <1> QED
    BY <1>2, <1>3, <1>4, <1>5, <1>6, <1>7, <1>8, <1>9, <1>10, <1>11, <1>12, <1>13
    DEF FiberStep, RebuildStep

LEMMA TableInvStep ==
    TypeInv /\ LiveInv /\ RebuildInv /\ TableInv /\ [Next]_vars => TableInv'
  <1> SUFFICES ASSUME TypeInv, LiveInv, RebuildInv, TableInv, [Next]_vars PROVE TableInv'
    OBVIOUS
  <1>1. ASSUME UNCHANGED <<imported, applied, checkpoint>>, withheld \subseteq withheld',
               \A p \in Projectors : Follows(p)' => Follows(p) /\ fiber'[p].cursor = fiber[p].cursor
        PROVE  TableInv'
    BY <1>1 DEF TableInv, Undisturbed, HoldsLog
  <1>2. CASE Boot \/ Exit
    <2>1. \A p \in Projectors : ~Follows(p)'
      BY <1>2, StoppedIs DEF Boot, Exit, Follows
    <2> QED
      BY <1>1, <1>2, <2>1 DEF Boot, Exit, durable, lost, importing
  <1>3. CASE Publish \/ PassOver
    <2>1. PICK e \in (announced + 1)..head :
             Announce(e) /\ withheld' = withheld \cup (announced + 1)..(e - 1)
      BY <1>3, AnnouncesNext
    <2>2. \A p \in Projectors : fiber'[p].at = fiber[p].at /\ fiber'[p].cursor = fiber[p].cursor
      BY <2>1, AnnounceIs
    <2> QED
      BY <1>1, <2>1, <2>2 DEF Announce, durable, importing, Follows
  <1>4. CASE UNCHANGED <<imported, withheld, applied, checkpoint, fiber>>
    BY <1>1, <1>4 DEF Follows
  <1>5. CASE Commit \/ LoseReconcile \/ EndStream \/ UNCHANGED vars
    BY <1>4, <1>5 DEF Commit, LoseReconcile, EndStream, durable, lost, importing, vars
  <1>6. CASE ImportBegin \/ ImportMeasure \/ ImportRead \/ ImportFails
    BY <1>4, <1>6 DEF ImportBegin, ImportMeasure, ImportRead, ImportFails, durable, pipeline, lost
  <1>7. CASE ImportApply
    <2>1. imported' # {} /\ UNCHANGED <<fiber, withheld>>
      BY <1>7, ImportApplyIs DEF ImportApply, pipeline, lost
    <2> SUFFICES ASSUME NEW u \in Projectors, Undisturbed(u)'
                 PROVE  /\ HoldsLog(applied'[u], checkpoint'[u])
                        /\ Follows(u)' => fiber'[u].cursor = checkpoint'[u]
      BY <2>1 DEF TableInv, HoldsLog
    <2>2. u \notin Imported
      BY <2>1 DEF Undisturbed
    <2>3. applied'[u] = applied[u] /\ checkpoint'[u] = checkpoint[u]
      BY <1>7, <2>2 DEF ImportApply
    <2> QED
      BY <2>1, <2>2, <2>3 DEF TableInv, Undisturbed, Follows
  <1>8. CASE \E p \in Projectors : ResetFails(p)
    BY <1>4, <1>8 DEF ResetFails, durable, lost, importing
  <1> QED
    BY <1>2, <1>3, <1>5, <1>6, <1>7, <1>8, TableInvFibers DEF Next, Import

LEMMA TableInvInductive ==
    /\ Init => TypeInv /\ LiveInv /\ RebuildInv /\ TableInv
    /\ TypeInv /\ LiveInv /\ RebuildInv /\ TableInv /\ [Next]_vars
          => (TypeInv /\ LiveInv /\ RebuildInv /\ TableInv)'
  <1>1. Init => RebuildInv
    BY DEF Init, RebuildInv
  <1>2. Init => TableInv
    BY EmptyTable, StoppedIs DEF Init, TableInv, Follows
  <1> QED
    BY <1>1, <1>2, TypeInvInit, LiveInvInit, TypeInvStep, LiveInvStep, RebuildInvStep,
      TableInvStep

\* As long as only its projector writes it, a table has the log up to its
\* checkpoint, each event once and in order: whatever was read twice, and whenever
\* a fiber failed, was rebuilt, or the process ended.  It lacks at most events the
\* engine passed over.
THEOREM TablesFollowTheLog == Spec => []TablesHoldLog
  <1>1. TableInv => TablesHoldLog
    BY DEF TableInv, TablesHoldLog
  <1> QED
    BY <1>1, TableInvInductive, PTL DEF Spec

-----------------------------------------------------------------------------
(* Health *)

LEMMA NeverQuietStep == TypeInv /\ NeverQuiet /\ [Next]_vars => NeverQuiet'
  <1> SUFFICES ASSUME TypeInv, NeverQuiet, [Next]_vars PROVE NeverQuiet'
    OBVIOUS
  <1> DEFINE quiet == {"off", "backoff", "ended"}
  <1>1. ASSUME process' # "down" => process # "down", UNCHANGED <<fiber, health, rebuilding>>
        PROVE  NeverQuiet'
    BY <1>1 DEF NeverQuiet
  <1>2. ASSUME NEW p \in Projectors, NEW at, NEW c, NEW g, NEW m, NEW q,
               Becomes(p, at, c, g, m, q), UNCHANGED process,
               \A u \in Projectors \ {p} : health'[u] = health[u] /\ rebuilding'[u] = rebuilding[u],
               at \notin quiet \/ health'[p] = "degraded" \/ rebuilding'[p] # "no"
        PROVE  NeverQuiet'
    <2> SUFFICES ASSUME process # "down", NEW u \in Projectors,
                        fiber'[u].at \in quiet, rebuilding'[u] = "no"
                 PROVE  health'[u] = "degraded"
      BY <1>2 DEF NeverQuiet
    <2>1. CASE u = p
      BY <1>2, <2>1 DEF Becomes
    <2>2. CASE u # p
      BY <1>2, <2>2 DEF Becomes, NeverQuiet
    <2> QED
      BY <2>1, <2>2
  <1>3. /\ health \in [Projectors -> {"unknown", "healthy", "degraded"}]
        /\ rebuilding \in [Projectors -> {"no", "stopped", "reset", "failed"}]
    BY DEF TypeInv
  <1>4. CASE Boot
    <2>1. \A p \in Projectors : fiber'[p].at = "start"
      BY <1>4, StoppedIs DEF Boot
    <2> QED
      BY <2>1 DEF NeverQuiet
  <1>5. CASE Exit
    BY <1>5 DEF Exit, NeverQuiet
  <1>6. CASE Publish \/ PassOver
    <2>1. PICK e \in (announced + 1)..head : Announce(e)
      BY <1>6, AnnouncesNext
    <2>2. \A p \in Projectors : fiber'[p].at = fiber[p].at
      BY <2>1, AnnounceIs
    <2> QED
      BY <2>1, <2>2 DEF Announce, NeverQuiet
  <1>7. CASE Commit \/ LoseReconcile \/ EndStream \/ Import \/ UNCHANGED vars
    BY <1>1, <1>7 DEF Commit, LoseReconcile, EndStream, Import, ImportBegin, ImportMeasure,
      ImportRead, ImportApply, ImportFails, pipeline, vars
  <1>8. ASSUME NEW p \in Projectors, FiberStep(p) PROVE NeverQuiet'
    <2>1. CASE Subscribe(p)
      BY <1>2, <2>1, SubscribeIs DEF Subscribe
    <2>2. CASE ReadCheckpoint(p)
      BY <1>2, <2>2, ReadCheckpointIs DEF ReadCheckpoint
    <2>3. CASE ReadPage(p)
      BY <1>2, <2>3, ReadPageIs DEF ReadPage, CatchingUp
    <2>4. CASE ApplyPage(p)
      BY <1>2, <2>4, ApplyPageIs DEF ApplyPage, CatchingUp
    <2>5. CASE CaughtUp(p)
      <3>1. \A u \in Projectors \ {p} : health'[u] = health[u] /\ rebuilding'[u] = rebuilding[u]
        BY <1>3, <2>5 DEF CaughtUp
      <3> QED
        BY <1>2, <2>5, <3>1, CaughtUpIs DEF CaughtUp
    <2>6. CASE ApplyLive(p)
      BY <1>2, <2>6, ApplyLiveIs DEF ApplyLive
    <2>7. CASE Restart(p)
      BY <1>2, <2>7, RestingIs DEF Restart
    <2>8. CASE StreamEnds(p)
      <3>1. health' = [health EXCEPT ![p] = "degraded"] /\ UNCHANGED <<process, rebuilding>>
        BY <2>8 DEF StreamEnds
      <3> QED
        BY <1>2, <1>3, <2>8, <3>1, RestingIs
    <2> QED
      BY <1>8, <2>1, <2>2, <2>3, <2>4, <2>5, <2>6, <2>7, <2>8 DEF FiberStep
  <1>9. ASSUME NEW p \in Projectors, Fail(p) PROVE NeverQuiet'
    <2>1. health' = [health EXCEPT ![p] = "degraded"] /\ UNCHANGED <<process, rebuilding>>
      BY <1>9 DEF Fail
    <2> QED
      BY <1>2, <1>3, <1>9, <2>1, RestingIs
  <1>10. ASSUME NEW p \in Projectors, StopProjector(p) PROVE NeverQuiet'
    <2>1. rebuilding' = [rebuilding EXCEPT ![p] = "stopped"] /\ UNCHANGED <<process, health>>
      BY <1>10 DEF StopProjector
    <2> QED
      BY <1>2, <1>3, <1>10, <2>1, RestingIs
  <1>11. ASSUME NEW p \in Projectors, StartProjector(p) PROVE NeverQuiet'
    <2>1. /\ rebuilding' = [rebuilding EXCEPT ![p] = "no"] /\ UNCHANGED process
          /\ health' = [health EXCEPT ![p] = "healthy"]
      BY <1>11 DEF StartProjector
    <2> QED
      BY <1>2, <1>3, <1>11, <2>1, RestingIs
  <1>12. ASSUME NEW p \in Projectors, ResetProjector(p) \/ ResetFails(p) PROVE NeverQuiet'
    <2>1. /\ UNCHANGED <<process, fiber, health>>
          /\ \E to \in {"reset", "failed"} : rebuilding' = [rebuilding EXCEPT ![p] = to]
      BY <1>12 DEF ResetProjector, ResetFails
    <2> QED
      BY <1>3, <2>1 DEF NeverQuiet
  <1> QED
    BY <1>4, <1>5, <1>6, <1>7, <1>8, <1>9, <1>10, <1>11, <1>12 DEF Next, RebuildStep

\* A projector that is not running says "degraded", unless it is being rebuilt or
\* its rebuild failed.
THEOREM DownProjectorsSaySo == Spec => []NeverQuiet
  <1>1. Init => NeverQuiet
    BY DEF Init, NeverQuiet
  <1> QED
    BY <1>1, TypeInvInit, TypeInvStep, NeverQuietStep, PTL DEF Spec

-----------------------------------------------------------------------------
(* Imports *)

\* Nothing is promised before the first import has applied what it read.
CountInv ==
    /\ spent["imports"] = 0 => importer.at = "idle" /\ imported = {}
    /\ spent["imports"] = 1 /\ importer.at # "idle" => imported = {}

\* Event e is still to come in the catch-up of p.
Chasing(p, e) ==
    /\ CatchingUp(p) /\ e > fiber[p].cursor
    /\ fiber[p].more = "yes" \/ e <= fiber[p].cursor + Len(fiber[p].page)

\* What a table with one import behind it is owed: a promised event that is not in
\* it is above the checkpoint, and the fiber that fills it catches up to it before
\* it goes live.
Owed(p, e) ==
    \/ e \in Elements(applied[p])
    \/ /\ spent["rebuilds"] > 0
       /\ \/ spent["imports"] > 1
          \/ e > checkpoint[p] /\ (Follows(p) => Chasing(p, e))

ImportInv == CountInv /\ \A p \in Imported : \A e \in imported : Owed(p, e)

LEMMA ImportInvFibers ==
    ASSUME TypeInv, LiveInv, RebuildInv, ImportInv, NEW p \in Projectors
    PROVE  /\ FiberStep(p) => ImportInv'
           /\ Fail(p) => ImportInv'
           /\ StopProjector(p) => ImportInv'
           /\ RebuildStep(p) => ImportInv'
  <1>1. /\ \A u \in Imported : u \in Projectors
        /\ \A e \in imported : e \in Nat /\ e > 0
        /\ spent["rebuilds"] \in Nat
        /\ head \in Nat
    <2>1. head \in Nat /\ imported \in SUBSET (1..head) /\ spent["rebuilds"] \in Nat
      BY Numbers DEF TypeInv
    <2> QED
      BY <2>1, PipelineAssumption
  <1>2. ASSUME UNCHANGED <<imported, importer>>, spent'["imports"] = spent["imports"],
               spent'["rebuilds"] >= spent["rebuilds"], spent'["rebuilds"] \in Nat,
               NEW at, NEW c, NEW g, NEW m, NEW q, Becomes(p, at, c, g, m, q),
               UNCHANGED <<applied, checkpoint>>,
               \/ at \notin {"catchUp1", "catchUp2", "live"}
               \/ at = "catchUp1" /\ c = checkpoint[p] /\ m = "yes"
               \/ Follows(p) /\ \A e \in imported : Chasing(p, e) => Chasing(p, e)'
        PROVE  ImportInv'
    <2>1. CountInv'
      BY <1>2 DEF ImportInv, CountInv
    <2>2. ASSUME NEW u \in Imported, NEW e \in imported PROVE Owed(u, e)'
      <3>1. Owed(u, e)
        BY DEF ImportInv
      <3>2. CASE u = p
        <4>1. CASE at \notin {"catchUp1", "catchUp2", "live"}
          BY <1>1, <1>2, <3>1, <3>2, <4>1 DEF Owed, Becomes, Follows
        <4>2. CASE at = "catchUp1" /\ c = checkpoint[p] /\ m = "yes"
          BY <1>1, <1>2, <3>1, <3>2, <4>2 DEF Owed, Becomes, Follows, Chasing, CatchingUp
        <4>3. CASE Follows(p) /\ \A x \in imported : Chasing(p, x) => Chasing(p, x)'
          BY <1>1, <1>2, <3>1, <3>2, <4>3 DEF Owed
        <4> QED
          BY <1>2, <4>1, <4>2, <4>3
      <3>3. CASE u # p
        <4>1. fiber'[u] = fiber[u]
          BY <1>1, <1>2, <3>3 DEF Becomes
        <4> QED
          BY <1>1, <1>2, <3>1, <4>1 DEF Owed, Follows, Chasing, CatchingUp
      <3> QED
        BY <3>2, <3>3
    <2> QED
      BY <1>2, <2>1, <2>2 DEF ImportInv
  <1>3. ASSUME UNCHANGED <<imported, importer, spent>>, NEW e \in 1..head,
               Follows(p), ApplyIfNewer(p, e),
               NEW at, NEW g, NEW m, NEW q, Becomes(p, at, Advanced(p, e), g, m, q),
               \A x \in imported : Chasing(p, x) /\ x # e => x > e /\ Chasing(p, x)'
        PROVE  ImportInv'
    <2>1. CountInv'
      BY <1>3 DEF ImportInv, CountInv
    <2>2. ASSUME NEW u \in Imported, NEW x \in imported PROVE Owed(u, x)'
      <3>1. Owed(u, x) /\ u \in Projectors /\ x \in Nat
        BY <1>1 DEF ImportInv
      <3>2. CASE u # p
        <4>1. applied'[u] = applied[u] /\ checkpoint'[u] = checkpoint[u] /\ fiber'[u] = fiber[u]
          BY <1>3, <3>1, <3>2 DEF ApplyIfNewer, Becomes, TypeInv
        <4> QED
          BY <1>3, <3>1, <4>1 DEF Owed, Follows, Chasing, CatchingUp
      <3>3. CASE u = p /\ e <= fiber[p].cursor
        <4>1. applied' = applied /\ checkpoint' = checkpoint /\ (Chasing(p, x) => x # e)
          <5>1. fiber[p].cursor \in Nat /\ e \in Nat
            BY <1>1, Numbers
          <5> QED
            BY <1>3, <3>1, <3>3, <5>1 DEF ApplyIfNewer, Chasing
        <4> QED
          BY <1>3, <3>1, <3>3, <4>1 DEF Owed
      <3>4. CASE u = p /\ ~(e <= fiber[p].cursor)
        <4>1. applied'[p] = Append(applied[p], e) /\ checkpoint'[p] = e /\ fiber'[p].cursor = e
          BY <1>3, <3>4 DEF ApplyIfNewer, Becomes, Advanced, TypeInv
        <4>2. Elements(applied'[p]) = Elements(applied[p]) \cup {e}
          <5>1. applied[p] \in Seq(1..head) /\ e \in 1..head
            BY <1>3, Numbers
          <5> DEFINE events == 1..head
          <5>2. applied[p] \in Seq(events) /\ e \in events
            BY <5>1
          <5> HIDE DEF events
          <5>3. Elements(Append(applied[p], e)) = Elements(applied[p]) \cup {e}
            BY <5>2, AppendIs
          <5> QED
            BY <4>1, <5>3
        <4> QED
          BY <1>3, <3>1, <3>4, <4>1, <4>2 DEF Owed
      <3> QED
        BY <3>2, <3>3, <3>4
    <2> QED
      BY <1>3, <2>1, <2>2 DEF ImportInv
  <1>2a. ASSUME UNCHANGED <<imported, importer, spent, applied, checkpoint>>,
                NEW at, NEW c, NEW g, NEW m, NEW q, Becomes(p, at, c, g, m, q),
                \/ at \notin {"catchUp1", "catchUp2", "live"}
                \/ at = "catchUp1" /\ c = checkpoint[p] /\ m = "yes"
                \/ Follows(p) /\ \A e \in imported : Chasing(p, e) => Chasing(p, e)'
         PROVE  ImportInv'
    <2>1. /\ spent'["imports"] = spent["imports"]
          /\ spent'["rebuilds"] >= spent["rebuilds"] /\ spent'["rebuilds"] \in Nat
      BY <1>1, <1>2a
    <2> QED
      BY <1>2, <1>2a, <2>1
  <1>4. Subscribe(p) => ImportInv'
    BY <1>2a, SubscribeIs DEF Subscribe, durable, importing
  <1>5. ReadCheckpoint(p) => ImportInv'
    BY <1>2a, ReadCheckpointIs DEF ReadCheckpoint, durable, importing
  <1>6. ASSUME ReadPage(p) PROVE ImportInv'
    <2> DEFINE page == Page(fiber[p].cursor)
               more == IF Len(page) = PageSize THEN "yes" ELSE "no"
    <2>1. Becomes(p, fiber[p].at, fiber[p].cursor, page, more, fiber[p].queue)
      BY <1>6, ReadPageIs
    <2>2. /\ fiber[p].cursor \in 0..head /\ imported \in SUBSET (1..head)
          /\ Len(page) # PageSize => fiber[p].cursor + Len(page) = head
      <3>1. fiber[p].cursor \in 0..head /\ imported \in SUBSET (1..head)
        BY Numbers DEF TypeInv
      <3> QED
        BY <3>1, PageIs
    <2>3. Follows(p) /\ CatchingUp(p)
      BY <1>6 DEF ReadPage, CatchingUp, Follows
    <2> HIDE DEF page
    <2>4. ASSUME NEW e \in imported, Chasing(p, e) PROVE Chasing(p, e)'
      <3>1. e <= head /\ e > fiber[p].cursor
        BY <2>2, <2>4 DEF Chasing
      <3>2. more = "yes" \/ e <= fiber[p].cursor + Len(page)
        BY <2>2, <3>1
      <3> QED
        BY <2>1, <2>3, <3>1, <3>2 DEF Chasing, CatchingUp, Becomes
    <2>5. UNCHANGED <<imported, importer, spent, applied, checkpoint>>
      BY <1>6 DEF ReadPage, durable, importing
    <2> QED
      BY <1>2a, <2>1, <2>3, <2>4, <2>5
  <1>7. ASSUME ApplyPage(p) PROVE ImportInv'
    <2>1. /\ Head(fiber[p].page) \in 1..head
          /\ Becomes(p, fiber[p].at, Advanced(p, Head(fiber[p].page)), Tail(fiber[p].page),
                     fiber[p].more, fiber[p].queue)
      BY <1>7, ApplyPageIs
    <2> DEFINE e == Head(fiber[p].page)
    <2>2. /\ e = fiber[p].cursor + 1 /\ fiber[p].cursor \in Nat
          /\ Len(fiber[p].page) \in Nat /\ Len(Tail(fiber[p].page)) = Len(fiber[p].page) - 1
      <3>1. fiber[p].page \in Seq(1..head) /\ fiber[p].cursor \in Nat
        BY Numbers
      <3> QED
        BY <1>7, <3>1, NextIsNext, TailIs DEF ApplyPage
    <2>3. Follows(p) /\ CatchingUp(p) /\ Advanced(p, e) = e
      BY <1>7, <2>2 DEF ApplyPage, CatchingUp, Follows, Advanced
    <2>4. UNCHANGED <<imported, importer, spent>> /\ ApplyIfNewer(p, e)
      BY <1>7 DEF ApplyPage, importing
    <2>5. Becomes(p, fiber[p].at, Advanced(p, e), Tail(fiber[p].page), fiber[p].more,
                  fiber[p].queue) /\ e \in 1..head
      BY <2>1
    <2> HIDE DEF e
    <2>6. ASSUME NEW x \in imported, Chasing(p, x), x # e PROVE x > e /\ Chasing(p, x)'
      <3>1. x \in Nat /\ x > e
        BY <1>1, <2>2, <2>6 DEF Chasing
      <3>2. x <= fiber[p].cursor + Len(fiber[p].page) => x <= e + Len(Tail(fiber[p].page))
        BY <2>2, <3>1
      <3> QED
        BY <2>3, <2>5, <2>6, <3>1, <3>2 DEF Chasing, CatchingUp, Becomes
    <2> QED
      BY <1>3, <2>3, <2>4, <2>5, <2>6
  <1>8. ASSUME CaughtUp(p) PROVE ImportInv'
    <2>1. \A e \in imported : ~Chasing(p, e)
      <3>1. fiber[p].page = <<>> /\ fiber[p].more = "no" /\ fiber[p].cursor \in Nat
        BY <1>8, Numbers DEF CaughtUp
      <3> QED
        BY <1>1, <3>1 DEF Chasing
    <2>2. UNCHANGED <<imported, importer, spent, applied, checkpoint>> /\ Follows(p)
      BY <1>8 DEF CaughtUp, durable, importing, CatchingUp, Follows
    <2>3. \E at, c, g, m, q : Becomes(p, at, c, g, m, q)
      BY <1>8, CaughtUpIs
    <2> QED
      BY <1>2a, <2>1, <2>2, <2>3
  <1>9. ASSUME ApplyLive(p) PROVE ImportInv'
    <2>1. /\ Head(fiber[p].queue) \in 1..head
          /\ Becomes(p, "live", Advanced(p, Head(fiber[p].queue)), fiber[p].page,
                     fiber[p].more, Tail(fiber[p].queue))
      BY <1>9, ApplyLiveIs
    <2>2. Follows(p) /\ \A x \in imported : ~Chasing(p, x)
      BY <1>9 DEF ApplyLive, Follows, Chasing, CatchingUp
    <2> QED
      BY <1>3, <1>9, <2>1, <2>2 DEF ApplyLive, importing
  <1>10. Restart(p) => ImportInv'
    BY <1>2a, RestingIs DEF Restart, durable, importing
  <1>11. StreamEnds(p) => ImportInv'
    BY <1>2a, RestingIs DEF StreamEnds, durable, importing
  <1>12. ASSUME Fail(p) PROVE ImportInv'
    <2>1. spent'["rebuilds"] = spent["rebuilds"] /\ spent'["imports"] = spent["imports"]
      BY <1>12 DEF Fail, Spend, TypeInv
    <2>2. spent'["rebuilds"] >= spent["rebuilds"] /\ spent'["rebuilds"] \in Nat
      BY <1>1, <2>1
    <2>3. UNCHANGED <<imported, importer, applied, checkpoint>>
      BY <1>12 DEF Fail, durable, importing
    <2>4. Becomes(p, "backoff", fiber[p].cursor, <<>>, "no", <<>>)
      BY <1>12, RestingIs
    <2> QED
      BY <1>2, <2>1, <2>2, <2>3, <2>4
  <1>13. ASSUME StopProjector(p) PROVE ImportInv'
    <2>1. spent'["rebuilds"] = spent["rebuilds"] + 1 /\ spent'["imports"] = spent["imports"]
      BY <1>13 DEF StopProjector, Spend, TypeInv
    <2>2. spent'["rebuilds"] >= spent["rebuilds"] /\ spent'["rebuilds"] \in Nat
      BY <1>1, <2>1
    <2>3. UNCHANGED <<imported, importer, applied, checkpoint>>
      BY <1>13 DEF StopProjector, durable, importing
    <2>4. Becomes(p, "off", 0, <<>>, "no", <<>>)
      BY <1>13, RestingIs
    <2> QED
      BY <1>2, <2>1, <2>2, <2>3, <2>4
  <1>14. StartProjector(p) => ImportInv'
    BY <1>2a, RestingIs DEF StartProjector, durable, importing
  <1>15. ASSUME ResetProjector(p) PROVE ImportInv'
    <2>1. /\ applied' = [applied EXCEPT ![p] = <<>>] /\ checkpoint' = [checkpoint EXCEPT ![p] = 0]
          /\ UNCHANGED <<fiber, imported, importer, spent>>
          /\ fiber[p].at = "off" /\ spent["rebuilds"] > 0
      BY <1>15 DEF ResetProjector, RebuildInv, importing
    <2>2. CountInv'
      BY <2>1 DEF ImportInv, CountInv
    <2>3. ASSUME NEW u \in Imported, NEW e \in imported PROVE Owed(u, e)'
      <3>1. CASE u = p
        <4>1. checkpoint'[u] = 0 /\ ~Follows(u)' /\ e > 0 /\ spent'["rebuilds"] > 0
          BY <1>1, <2>1, <3>1 DEF Follows, TypeInv
        <4> QED
          BY <4>1 DEF Owed
      <3>2. CASE u # p
        <4>1. applied'[u] = applied[u] /\ checkpoint'[u] = checkpoint[u]
          BY <1>1, <2>1, <3>2 DEF TypeInv
        <4> QED
          BY <2>1, <4>1 DEF ImportInv, Owed, Follows, Chasing, CatchingUp
      <3> QED
        BY <3>1, <3>2
    <2> QED
      BY <2>1, <2>2, <2>3 DEF ImportInv
  <1> QED
    BY <1>4, <1>5, <1>6, <1>7, <1>8, <1>9, <1>10, <1>11, <1>12, <1>13, <1>14, <1>15
    DEF FiberStep, RebuildStep

LEMMA ImportInvImport ==
    ASSUME TypeInv, ImportInv, Import
    PROVE  ImportInv'
  <1>1. spent \in [{"failures", "rebuilds", "imports"} -> Nat]
    BY DEF TypeInv
  <1>2. ASSUME UNCHANGED <<durable, pipeline, imported>>, CountInv',
               spent'["rebuilds"] = spent["rebuilds"], spent'["imports"] >= spent["imports"],
               spent'["imports"] \in Nat
        PROVE  ImportInv'
    BY <1>1, <1>2 DEF ImportInv, Owed, Follows, Chasing, CatchingUp, durable, pipeline
  <1>3. CASE ImportBegin
    <2>1. spent'["imports"] = spent["imports"] + 1 /\ spent'["rebuilds"] = spent["rebuilds"]
      BY <1>1, <1>3 DEF ImportBegin, Spend
    <2>2. CountInv'
      BY <1>1, <1>3, <2>1 DEF ImportBegin, ImportInv, CountInv
    <2> QED
      BY <1>1, <1>2, <1>3, <2>1, <2>2 DEF ImportBegin
  <1>4. CASE ImportMeasure \/ ImportRead
    <2>1. UNCHANGED <<spent, imported>> /\ importer.at # "idle"
      BY <1>4 DEF ImportMeasure, ImportRead
    <2>2. CountInv'
      BY <2>1 DEF ImportInv, CountInv
    <2> QED
      BY <1>1, <1>2, <1>4, <2>1, <2>2 DEF ImportMeasure, ImportRead
  <1>5. CASE ImportFails
    <2>1. spent'["imports"] = spent["imports"] /\ spent'["rebuilds"] = spent["rebuilds"]
      BY <1>1, <1>5 DEF ImportFails, Spend
    <2>2. CountInv'
      BY <1>5, <2>1 DEF ImportFails, ImportInv, CountInv, NoImport
    <2> QED
      BY <1>1, <1>2, <1>5, <2>1, <2>2 DEF ImportFails
  <1>6. CASE ImportApply
    <2> DEFINE range == Span(importer.before + 1, importer.last)
               promised == (importer.before + 1)..importer.after
    <2>1. range \in Seq(1..head) /\ promised \subseteq Elements(range)
      BY <1>6, ImportApplyIs
    <2>2. /\ imported' = imported \cup promised /\ UNCHANGED <<spent, fiber>>
          /\ importer' = NoImport /\ importer.at = "apply"
      BY <1>6 DEF ImportApply, pipeline
    <2>3. CountInv'
      BY <1>1, <2>2 DEF ImportInv, CountInv, NoImport
    <2> SUFFICES ASSUME NEW u \in Imported, NEW e \in imported' PROVE Owed(u, e)'
      BY <2>3 DEF ImportInv
    <2>4. u \in Projectors /\ applied[u] \in Seq(1..head)
      BY PipelineAssumption, Numbers
    <2> HIDE DEF range, promised
    <2>5. Elements(applied'[u]) = Elements(applied[u]) \cup Elements(range)
      <3>1. applied'[u] = applied[u] \o range
        BY <1>6, <2>4 DEF ImportApply, range
      <3> QED
        BY <2>1, <2>4, <3>1, ConcatIs
    <2>6. CASE e \in promised
      BY <2>1, <2>5, <2>6 DEF Owed
    <2>7. CASE e \in imported
      <3>1. Owed(u, e)
        BY <2>7 DEF ImportInv
      <3>2. spent["imports"] > 1
        BY <1>1, <2>2, <2>7 DEF ImportInv, CountInv
      <3> QED
        BY <2>2, <2>5, <3>1, <3>2 DEF Owed
    <2> QED
      BY <2>2, <2>6, <2>7
  <1> QED
    BY <1>3, <1>4, <1>5, <1>6 DEF Import

LEMMA ImportInvStep ==
    TypeInv /\ LiveInv /\ RebuildInv /\ ImportInv /\ [Next]_vars => ImportInv'
  <1> SUFFICES ASSUME TypeInv, LiveInv, RebuildInv, ImportInv, [Next]_vars PROVE ImportInv'
    OBVIOUS
  <1>1. ASSUME UNCHANGED <<imported, applied, checkpoint>>,
               spent'["imports"] = spent["imports"], spent'["rebuilds"] = spent["rebuilds"],
               importer' = importer \/ importer'.at = "idle",
               \A p \in Projectors :
                  Follows(p)' => Follows(p) /\ \A e \in imported : Chasing(p, e)' = Chasing(p, e)
        PROVE  ImportInv'
    <2>1. CountInv'
      BY <1>1 DEF ImportInv, CountInv
    <2>2. \A p \in Imported : p \in Projectors
      BY PipelineAssumption
    <2> QED
      BY <1>1, <2>1, <2>2 DEF ImportInv, Owed
  <1>2. CASE Boot
    <2>1. \A p \in Projectors : ~Follows(p)'
      BY <1>2, StoppedIs DEF Boot, Follows
    <2> QED
      BY <1>1, <1>2, <2>1 DEF Boot, durable, importing
  <1>3. CASE Exit
    <2>1. \A p \in Projectors : ~Follows(p)'
      BY <1>3, StoppedIs DEF Exit, Follows
    <2> QED
      BY <1>1, <1>3, <2>1 DEF Exit, durable, NoImport
  <1>4. CASE Publish \/ PassOver
    <2>1. PICK e \in (announced + 1)..head : Announce(e)
      BY <1>4, AnnouncesNext
    <2>2. \A p \in Projectors :
             /\ fiber'[p].at = fiber[p].at /\ fiber'[p].cursor = fiber[p].cursor
             /\ fiber'[p].page = fiber[p].page /\ fiber'[p].more = fiber[p].more
      BY <2>1, AnnounceIs
    <2> QED
      BY <1>1, <2>1, <2>2 DEF Announce, durable, importing, Follows, Chasing, CatchingUp
  <1>5. CASE Commit \/ LoseReconcile \/ EndStream \/ UNCHANGED vars
    <2>1. /\ UNCHANGED <<imported, applied, checkpoint, importer, fiber>>
          /\ spent'["imports"] = spent["imports"] /\ spent'["rebuilds"] = spent["rebuilds"]
      BY <1>5 DEF Commit, LoseReconcile, Spend, EndStream, durable, importing, vars, TypeInv
    <2> QED
      BY <1>1, <2>1 DEF Follows, Chasing, CatchingUp
  <1>6. CASE \E p \in Projectors : ResetFails(p)
    BY <1>1, <1>6 DEF ResetFails, durable, importing, Follows, Chasing, CatchingUp
  <1> QED
    BY <1>2, <1>3, <1>4, <1>5, <1>6, ImportInvImport, ImportInvFibers DEF Next

\* What an import returned for is in the tables it wrote, or is filled in again by
\* the projector after a rebuild; only another import can move the checkpoint past
\* what is still to be filled in.
THEOREM ImportsAreComplete == Spec => []ImportIsComplete
  <1>1. Init => TypeInv /\ LiveInv /\ RebuildInv /\ ImportInv
    <2>1. Init => RebuildInv /\ ImportInv
      BY DEF Init, RebuildInv, ImportInv, CountInv, NoImport
    <2> QED
      BY <2>1, TypeInvInit, LiveInvInit
  <1>2. TypeInv /\ LiveInv /\ RebuildInv /\ ImportInv /\ [Next]_vars
            => (TypeInv /\ LiveInv /\ RebuildInv /\ ImportInv)'
    BY TypeInvStep, LiveInvStep, RebuildInvStep, ImportInvStep
  <1>3. ImportInv => ImportIsComplete
    BY DEF ImportInv, Owed, ImportIsComplete
  <1> QED
    BY <1>1, <1>2, <1>3, PTL DEF Spec

-----------------------------------------------------------------------------
(* A projector is a subscriber of the event feed *)

\* The projectors whose tables nobody else writes.
Sole == Projectors \ Imported

\* The consumer of such a projector is its table, opened at 0: reset opens it
\* again, and every event applied to the table is delivered.  Only events the
\* engine passed over are passed over by a projector.
Feed == INSTANCE EventFeed WITH
    Subscribers <- Sole,
    start <- [p \in Sole |-> 0],
    received <- [p \in Sole |-> applied[p]]

LEMMA FeedInit == Init => Feed!Init
  BY DEF Init, Feed!Init, Sole

LEMMA FeedRests ==
    ASSUME UNCHANGED <<head, withheld>>, \A p \in Sole : applied'[p] = applied[p]
    PROVE  UNCHANGED Feed!feedVars
  BY DEF Feed!feedVars

\* The last event of a table stands at its checkpoint.
LEMMA TablePosition ==
    ASSUME TypeInv, TableInv, NEW p \in Sole
    PROVE  Feed!Position(p) = checkpoint[p]
  <1>1. HoldsLog(applied[p], checkpoint[p])
    BY DEF Sole, TableInv, Undisturbed
  <1>2. Feed!Position(p) = IF applied[p] = <<>> THEN 0 ELSE applied[p][Len(applied[p])]
    BY DEF Feed!Position
  <1> QED
    BY <1>1, <1>2 DEF HoldsLog

\* applyIfNewer delivers the next event that was not passed over, or leaves the
\* table.
LEMMA FeedDelivers ==
    ASSUME TypeInv, TableInv, NEW p \in Projectors, NEW e \in 1..head,
           OnlyWithheldBefore(p, e), Follows(p), ApplyIfNewer(p, e),
           UNCHANGED <<head, withheld>>
    PROVE  [Feed!Next]_Feed!feedVars
  <1>1. CASE e <= fiber[p].cursor
    BY <1>1, FeedRests DEF ApplyIfNewer
  <1>2. CASE p \notin Sole
    <2>1. \A q \in Sole : applied'[q] = applied[q]
      BY <1>2 DEF ApplyIfNewer, TypeInv, Sole
    <2> QED
      BY <2>1, FeedRests
  <1>3. CASE p \in Sole /\ ~(e <= fiber[p].cursor)
    <2>1. fiber[p].cursor = checkpoint[p] /\ checkpoint[p] \in Nat /\ head \in Nat
      BY <1>3, Numbers DEF Sole, TableInv, Undisturbed
    <2>2. e \in 0..head /\ e \in (checkpoint[p] + 1)..head
      BY <1>3, <2>1
    <2>3. ((checkpoint[p] + 1)..(e - 1)) \subseteq withheld
      BY <2>1 DEF OnlyWithheldBefore
    <2>4. applied' = [applied EXCEPT ![p] = Append(@, e)] /\ applied \in [Projectors -> Seq(1..head)]
      BY <1>3 DEF ApplyIfNewer, TypeInv
    <2>5. [q \in Sole |-> applied'[q]]
            = [[q \in Sole |-> applied[q]] EXCEPT ![p] = Append(@, e)]
      BY <1>3, <2>4 DEF Sole
    <2>6. Feed!Position(p) = checkpoint[p]
      BY <1>3, TablePosition
    <2>7. Feed!Deliver(p, e)
      BY <2>2, <2>3, <2>5, <2>6 DEF Feed!Deliver
    <2> QED
      BY <1>3, <2>2, <2>7 DEF Feed!Next
  <1> QED
    BY <1>1, <1>2, <1>3

LEMMA FeedStep ==
    TypeInv /\ LiveInv /\ TableInv /\ [Next]_vars => [Feed!Next]_Feed!feedVars
  <1> SUFFICES ASSUME TypeInv, LiveInv, TableInv, [Next]_vars
               PROVE  [Feed!Next]_Feed!feedVars
    OBVIOUS
  <1>1. ASSUME UNCHANGED <<head, withheld, applied>> PROVE [Feed!Next]_Feed!feedVars
    BY <1>1, FeedRests
  <1>2. CASE Commit
    <2>1. Feed!Commit
      BY <1>2 DEF Commit, Feed!Commit, lost
    <2> QED
      BY <2>1 DEF Feed!Next
  <1>3. CASE Boot \/ Publish \/ LoseReconcile \/ EndStream \/ Exit \/ UNCHANGED vars
    BY <1>1, <1>3 DEF Boot, Publish, Announce, LoseReconcile, EndStream, Exit, durable, lost, vars
  <1>3a. CASE PassOver
    <2>1. announced \in Nat /\ head \in Nat /\ abandoned \in Nat
      BY Numbers DEF TypeInv
    <2>2. announced + 1 \in 1..head /\ abandoned \in 1..head
      BY <1>3a, <2>1 DEF PassOver
    <2>3. Feed!Withhold(announced + 1, abandoned)
      BY <1>3a, <2>2 DEF PassOver, Announce, durable, Feed!Withhold
    <2> QED
      BY <2>2, <2>3 DEF Feed!Next
  <1>4. CASE ImportBegin \/ ImportMeasure \/ ImportRead \/ ImportFails
    BY <1>1, <1>4 DEF ImportBegin, ImportMeasure, ImportRead, ImportFails, durable, pipeline, lost
  <1>5. CASE ImportApply
    <2>1. \A q \in Sole : applied'[q] = applied[q]
      BY <1>5 DEF ImportApply, Sole
    <2> QED
      BY <1>5, <2>1, FeedRests DEF ImportApply, pipeline, lost
  <1>6. ASSUME NEW p \in Projectors, ApplyPage(p) PROVE [Feed!Next]_Feed!feedVars
    <2>1. Head(fiber[p].page) \in 1..head
      BY <1>6, ApplyPageIs
    <2>2. OnlyWithheldBefore(p, Head(fiber[p].page))
      BY <1>6, NextIsNext
    <2> QED
      BY <1>6, <2>1, <2>2, FeedDelivers DEF ApplyPage, CatchingUp, Follows, lost
  <1>7. ASSUME NEW p \in Projectors, ApplyLive(p) PROVE [Feed!Next]_Feed!feedVars
    <2>1. Head(fiber[p].queue) \in 1..head
      BY <1>7, ApplyLiveIs
    <2>2. OnlyWithheldBefore(p, Head(fiber[p].queue))
      BY <1>7, NextIsNext
    <2> QED
      BY <1>7, <2>1, <2>2, FeedDelivers DEF ApplyLive, Follows, lost
  <1>8. ASSUME NEW p \in Projectors, ResetProjector(p) PROVE [Feed!Next]_Feed!feedVars
    <2>1. applied' = [applied EXCEPT ![p] = <<>>]
          /\ UNCHANGED <<head, withheld>>
          /\ applied \in [Projectors -> Seq(1..head)] /\ head \in Nat
      BY <1>8, Numbers DEF ResetProjector, TypeInv, lost
    <2>2. CASE p \notin Sole
      <3>1. \A q \in Sole : applied'[q] = applied[q]
        BY <2>1, <2>2 DEF Sole
      <3> QED
        BY <2>1, <3>1, FeedRests
    <2>3. CASE p \in Sole
      <3>1. 0 \in 0..head
        BY <2>1
      <3>2. [q \in Sole |-> applied'[q]] = [[q \in Sole |-> applied[q]] EXCEPT ![p] = <<>>]
        BY <2>1, <2>3 DEF Sole
      <3>3. [q \in Sole |-> 0] = [[q \in Sole |-> 0] EXCEPT ![p] = 0]
        BY <2>3
      <3>4. Feed!Open(p, 0)
        BY <2>1, <3>1, <3>2, <3>3 DEF Feed!Open
      <3> QED
        BY <2>3, <3>1, <3>4 DEF Feed!Next
    <2> QED
      BY <2>2, <2>3
  <1>9. ASSUME NEW p \in Projectors,
               \/ Subscribe(p) \/ ReadCheckpoint(p) \/ ReadPage(p) \/ CaughtUp(p) \/ Restart(p)
               \/ StreamEnds(p) \/ Fail(p) \/ StopProjector(p) \/ StartProjector(p) \/ ResetFails(p)
        PROVE  [Feed!Next]_Feed!feedVars
    <2>1. UNCHANGED <<durable, lost>>
      BY <1>9 DEF Subscribe, ReadCheckpoint, ReadPage, CaughtUp, Restart, StreamEnds, Fail,
        StopProjector, StartProjector, ResetFails
    <2> QED
      BY <1>1, <2>1 DEF durable, lost
  <1> QED
    BY <1>2, <1>3, <1>3a, <1>4, <1>5, <1>6, <1>7, <1>8, <1>9 DEF Next, Import, FiberStep, RebuildStep

\* Every projector whose tables only it writes is a subscriber of EventFeed that
\* starts at 0: between two resets its table gets the events of the log, once and
\* in order, and passes over none but those the engine itself passed over, whatever
\* fails, is rebuilt or crashes.
THEOREM ProjectorsAreFed == Spec => Feed!Spec
  <1>1. Init => Feed!Init
    BY FeedInit
  <1>2. TypeInv /\ LiveInv /\ RebuildInv /\ TableInv /\ [Next]_vars
            => [Feed!Next]_Feed!feedVars
    BY FeedStep
  <1> QED
    BY <1>1, <1>2, TableInvInductive, PTL DEF Spec, Feed!Spec

-----------------------------------------------------------------------------
(* No event is out of reach, and nothing rests before it has caught up *)

\* A table has every event up to its cursor, once its projector is live, until an
\* import writes the table, but for what the engine passed over: RestartSameTables,
\* with the two ways to break it.
SameTablesUntilImported ==
    \A p \in Projectors :
        Undisturbed(p) /\ fiber[p].at = "live" =>
            1..fiber[p].cursor \subseteq Elements(applied[p]) \cup withheld

\* Once a fiber has read its last page, whatever was announced is in the table,
\* in the page, or in the queue of its subscription.
EventsOnTheirWay ==
    \A p \in Projectors :
        Undisturbed(p) /\ Follows(p) /\ (CatchingUp(p) => fiber[p].more = "no") =>
            (1..announced) \ withheld \subseteq Elements(applied[p]) \cup Elements(fiber[p].page)
                                                   \cup Elements(fiber[p].queue)

\* The guards of FiberStep and RebuildStep: whether p has something to do.
CanStep(p) ==
    \/ fiber[p].at \in {"start", "resume", "backoff"}
    \/ CatchingUp(p)
    \/ fiber[p].at = "live" /\ (fiber[p].queue # <<>> \/ process = "closing")
    \/ rebuilding[p] \in {"stopped", "reset"}

\* A projector with nothing left to do, while the stream runs, is live and has
\* every announced event in its table, unless its rebuild failed.
RestsCaughtUp ==
    \A p \in Projectors :
        process = "up" /\ ~CanStep(p) =>
            \/ rebuilding[p] = "failed"
            \/ /\ fiber[p].at = "live"
               /\ Undisturbed(p) => (1..announced) \ withheld \subseteq Elements(applied[p])

\* While the process is up, a fiber is off only for a rebuild, and has not ended.
UpInv ==
    \A p \in Projectors :
        /\ process # "down" /\ fiber[p].at = "off" => rebuilding[p] # "no"
        /\ process = "up" => fiber[p].at # "ended"

\* The table of a fiber that follows the log has all events up to its cursor.
LEMMA TableReachesCursor ==
    ASSUME TypeInv, TableInv, NEW p \in Projectors, Undisturbed(p), Follows(p)
    PROVE  1..fiber[p].cursor \subseteq Elements(applied[p]) \cup withheld
  BY DEF TableInv, HoldsLog

\* A page holds the events after the cursor.
LEMMA PageReaches ==
    ASSUME TypeInv, LiveInv, NEW p \in Projectors, CatchingUp(p),
           NEW n \in Nat, n > fiber[p].cursor, n <= fiber[p].cursor + Len(fiber[p].page)
    PROVE  n \in Elements(fiber[p].page)
  <1> DEFINE page == fiber[p].page
             c == fiber[p].cursor
  <1>1. /\ c \in Nat /\ page \in Seq(1..head) /\ n > c /\ n <= c + Len(page)
        /\ \A i \in 1..Len(page) : page[i] = c + i
    BY Numbers DEF LiveInv, InOrder
  <1> HIDE DEF page, c
  <1>2. Len(page) \in Nat /\ DOMAIN page = 1..Len(page)
    BY <1>1
  <1>3. n - c \in 1..Len(page) /\ c + (n - c) = n
    BY <1>1, <1>2
  <1> QED
    BY <1>1, <1>2, <1>3 DEF Elements, page

LEMMA OnTheirWay ==
    ASSUME TypeInv, LiveInv, TableInv
    PROVE  SameTablesUntilImported /\ EventsOnTheirWay
  <1>1. SameTablesUntilImported
    BY TableReachesCursor DEF SameTablesUntilImported, Follows
  <1>2. ASSUME NEW p \in Projectors, Undisturbed(p), Follows(p),
               CatchingUp(p) => fiber[p].more = "no", NEW n \in 1..announced, n \notin withheld
        PROVE  \/ n \in Elements(applied[p]) \/ n \in Elements(fiber[p].page)
               \/ n \in Elements(fiber[p].queue)
    <2> DEFINE c == fiber[p].cursor
               len == Len(fiber[p].page)
    <2>1. c \in Nat /\ n \in 1..announced /\ announced \in Nat /\ len \in Nat
      <3>1. fiber[p].page \in Seq(1..head) /\ c \in Nat /\ announced \in Nat
        BY Numbers
      <3> QED
        BY <3>1
    <2>2. n \in 1..c => n \in Elements(applied[p])
      BY <1>2, TableReachesCursor
    <2>3. (CatchingUp(p) /\ Reached(p, c + len)) \/ Reached(p, c)
      BY <1>2 DEF LiveInv, InOrder, CatchingUp, Follows
    <2>4. CatchingUp(p) /\ n > c /\ n <= c + len => n \in Elements(fiber[p].page)
      BY <2>1, PageReaches
    <2> HIDE DEF c, len
    <2>5. n \in 1..c \/ n \in (c + 1)..announced
      BY <2>1
    <2>6. n \in (c + 1)..announced => n > c /\ (n <= c + len \/ n \in ((c + len) + 1)..announced)
      BY <2>1
    <2> QED
      BY <1>2, <2>2, <2>3, <2>4, <2>5, <2>6 DEF Reached
  <1>3. EventsOnTheirWay
    BY <1>2 DEF EventsOnTheirWay
  <1> QED
    BY <1>1, <1>3

\* An event that is missing from the table of a live projector was passed over by
\* the engine, or an import has written the table: nothing else, no failure, no
\* restart and no rebuild, takes one away.
THEOREM OnlyImportsAndLostCommits == Spec => []SameTablesUntilImported
  <1>1. TypeInv /\ LiveInv /\ TableInv => SameTablesUntilImported
    BY OnTheirWay
  <1> QED
    BY <1>1, TableInvInductive, PTL DEF Spec

\* No announced event is out of reach of a projector that has read its last page,
\* whatever was published between the pages, the second catch-up and the stream.
THEOREM NoEventOutOfReach == Spec => []EventsOnTheirWay
  <1>1. TypeInv /\ LiveInv /\ TableInv => EventsOnTheirWay
    BY OnTheirWay
  <1> QED
    BY <1>1, TableInvInductive, PTL DEF Spec

LEMMA UpInvStep == TypeInv /\ RebuildInv /\ UpInv /\ [Next]_vars => UpInv'
  <1> SUFFICES ASSUME TypeInv, RebuildInv, UpInv, [Next]_vars PROVE UpInv'
    OBVIOUS
  <1>1. ASSUME process' # "down" => process # "down", process' = "up" => process = "up",
               \A p \in Projectors : fiber'[p].at = fiber[p].at, UNCHANGED rebuilding
        PROVE  UpInv'
    BY <1>1 DEF UpInv
  <1>2. ASSUME NEW p \in Projectors, NEW at, NEW c, NEW g, NEW m, NEW q,
               Becomes(p, at, c, g, m, q), UNCHANGED process,
               \A u \in Projectors \ {p} : rebuilding'[u] = rebuilding[u],
               at = "off" => rebuilding'[p] # "no", at = "ended" => process # "up"
        PROVE  UpInv'
    <2> SUFFICES ASSUME NEW u \in Projectors
                 PROVE  /\ process # "down" /\ fiber'[u].at = "off" => rebuilding'[u] # "no"
                        /\ process = "up" => fiber'[u].at # "ended"
      BY <1>2 DEF UpInv
    <2>1. CASE u = p
      BY <1>2, <2>1 DEF Becomes
    <2>2. CASE u # p
      BY <1>2, <2>2 DEF UpInv, Becomes
    <2> QED
      BY <2>1, <2>2
  <1>3. CASE Boot \/ Exit
    BY <1>3, StoppedIs DEF Boot, Exit, UpInv
  <1>4. CASE Publish \/ PassOver
    <2>1. PICK e \in (announced + 1)..head : Announce(e)
      BY <1>4, AnnouncesNext
    <2>2. \A p \in Projectors : fiber'[p].at = fiber[p].at
      BY <2>1, AnnounceIs
    <2> QED
      BY <1>1, <2>1, <2>2 DEF Announce
  <1>5. CASE Commit \/ LoseReconcile \/ EndStream \/ Import \/ UNCHANGED vars
    <2>1. /\ UNCHANGED <<fiber, rebuilding>>
          /\ process' = process \/ (process = "up" /\ process' = "closing")
      BY <1>5 DEF Commit, LoseReconcile, EndStream, Import, ImportBegin, ImportMeasure,
        ImportRead, ImportApply, ImportFails, pipeline, vars
    <2> QED
      BY <1>1, <2>1
  <1>6. ASSUME NEW p \in Projectors, FiberStep(p) \/ Fail(p) PROVE UpInv'
    <2>1. UNCHANGED <<process, rebuilding>>
      BY <1>6 DEF FiberStep, Subscribe, ReadCheckpoint, ReadPage, ApplyPage, CaughtUp,
        ApplyLive, Restart, StreamEnds, Fail
    <2>2. ASSUME Subscribe(p) PROVE UpInv'
      BY <1>2, <2>1, <2>2, SubscribeIs
    <2>3. ASSUME ReadCheckpoint(p) PROVE UpInv'
      BY <1>2, <2>1, <2>3, ReadCheckpointIs
    <2>4. ASSUME ReadPage(p) PROVE UpInv'
      BY <1>2, <2>1, <2>4, ReadPageIs DEF ReadPage, CatchingUp
    <2>5. ASSUME ApplyPage(p) PROVE UpInv'
      BY <1>2, <2>1, <2>5, ApplyPageIs DEF ApplyPage, CatchingUp
    <2>6. ASSUME CaughtUp(p) PROVE UpInv'
      BY <1>2, <2>1, <2>6, CaughtUpIs
    <2>7. ASSUME ApplyLive(p) PROVE UpInv'
      BY <1>2, <2>1, <2>7, ApplyLiveIs
    <2>8. ASSUME Restart(p) \/ Fail(p) PROVE UpInv'
      BY <1>2, <2>1, <2>8, RestingIs
    <2>9. ASSUME StreamEnds(p) PROVE UpInv'
      <3>1. process # "up"
        BY <2>9 DEF StreamEnds
      <3> QED
        BY <1>2, <2>1, <2>9, <3>1, RestingIs
    <2> QED
      BY <1>6, <2>2, <2>3, <2>4, <2>5, <2>6, <2>7, <2>8, <2>9 DEF FiberStep
  <1>7. ASSUME NEW p \in Projectors, StopProjector(p) PROVE UpInv'
    <2>1. /\ rebuilding' = [rebuilding EXCEPT ![p] = "stopped"] /\ process' = process
          /\ rebuilding \in [Projectors -> {"no", "stopped", "reset", "failed"}]
      BY <1>7 DEF StopProjector, TypeInv
    <2> QED
      BY <1>2, <1>7, <2>1, RestingIs
  <1>8. ASSUME NEW p \in Projectors, StartProjector(p) PROVE UpInv'
    <2>1. /\ rebuilding' = [rebuilding EXCEPT ![p] = "no"] /\ process' = process
          /\ rebuilding \in [Projectors -> {"no", "stopped", "reset", "failed"}]
      BY <1>8 DEF StartProjector, TypeInv
    <2> QED
      BY <1>2, <1>8, <2>1, RestingIs
  <1>9. ASSUME NEW p \in Projectors, ResetProjector(p) \/ ResetFails(p) PROVE UpInv'
    <2>1. /\ UNCHANGED <<process, fiber>>
          /\ \E to \in {"reset", "failed"} : rebuilding' = [rebuilding EXCEPT ![p] = to]
          /\ rebuilding \in [Projectors -> {"no", "stopped", "reset", "failed"}]
      BY <1>9 DEF ResetProjector, ResetFails, TypeInv
    <2> QED
      BY <2>1 DEF UpInv
  <1> QED
    BY <1>3, <1>4, <1>5, <1>6, <1>7, <1>8, <1>9 DEF Next, RebuildStep

\* A projector that rests has caught up: with nothing left to read, to apply or to
\* rebuild, it is live and its table has every announced event.
THEOREM ProjectorsRestCaughtUp == Spec => []RestsCaughtUp
  <1>1. TypeInv /\ LiveInv /\ RebuildInv /\ TableInv /\ UpInv => RestsCaughtUp
    <2> SUFFICES ASSUME TypeInv, LiveInv, RebuildInv, TableInv, UpInv,
                        NEW p \in Projectors, process = "up", ~CanStep(p),
                        rebuilding[p] # "failed"
                 PROVE  /\ fiber[p].at = "live"
                        /\ Undisturbed(p) =>
                              (1..announced) \ withheld \subseteq Elements(applied[p])
      BY DEF RestsCaughtUp
    <2>1. fiber[p] \in FiberType(head, announced)
          /\ rebuilding[p] \in {"no", "stopped", "reset", "failed"}
      BY Numbers DEF TypeInv
    <2>2. fiber[p].at = "live" /\ fiber[p].queue = <<>>
      BY <2>1 DEF CanStep, CatchingUp, FiberType, UpInv
    <2>3. ASSUME Undisturbed(p), NEW n \in 1..announced, n \notin withheld
          PROVE  n \in Elements(applied[p])
      <3>1. Follows(p) /\ ~CatchingUp(p)
        BY <2>2 DEF Follows, CatchingUp
      <3>2. n \notin Elements(fiber[p].queue)
        BY <2>2 DEF Elements
      <3>3. Reached(p, fiber[p].cursor)
        BY <2>2 DEF LiveInv, InOrder
      <3>4. n \in 1..fiber[p].cursor
        BY <2>3, <3>2, <3>3, Numbers DEF Reached
      <3> QED
        BY <2>3, <3>1, <3>4, TableReachesCursor
    <2> QED
      BY <2>2, <2>3
  <1>2. Init => UpInv
    BY DEF Init, UpInv
  <1>3. TypeInv /\ RebuildInv /\ UpInv /\ [Next]_vars => UpInv'
    BY UpInvStep
  <1> QED
    BY <1>1, <1>2, <1>3, TableInvInductive, PTL DEF Spec

-----------------------------------------------------------------------------
(* A projector that steps gets on *)

\* The steps a fiber has to take at most until it has the h events of the store,
\* by where it is: two for every event above the cursor in each catch-up, one for
\* every event in the live queue.  The phases are set apart far enough that
\* going on to the next is a step down, too.
WorkOf(h, at, cursor, page, more, queue, rebuild) ==
    LET reading == 2 * (h - cursor) + (IF page = <<>> THEN 1 ELSE 0)
                                    + (IF more = "yes" THEN 1 ELSE 0)
    IN  CASE at = "live"     -> Len(queue) + 1
          [] at = "catchUp2" -> reading + h + 1
          [] at = "catchUp1" -> reading + h + 3
          [] at = "resume"   -> 3 * h + 6
          [] at = "start"    -> 3 * h + 7
          [] at = "backoff"  -> 3 * h + 8
          [] at = "off" /\ rebuild = "reset"   -> 3 * h + 9
          [] at = "off" /\ rebuild = "stopped" -> 3 * h + 10
          [] OTHER -> 0

WorkLeft(p) ==
    WorkOf(head, fiber[p].at, fiber[p].cursor, fiber[p].page, fiber[p].more,
           fiber[p].queue, rebuilding[p])

\* Every step of a fiber, or of its rebuild, leaves it less to do, and the others
\* as much as before.
GetsOn ==
    \A p \in Projectors :
        FiberStep(p) \/ RebuildStep(p) =>
            /\ WorkLeft(p) \in Nat /\ WorkLeft(p)' < WorkLeft(p)
            /\ \A q \in Projectors \ {p} : WorkLeft(q)' = WorkLeft(q)

LEMMA WorkIs ==
    ASSUME NEW h, NEW c, NEW page, NEW more, NEW queue, NEW r
    PROVE  /\ WorkOf(h, "live", c, page, more, queue, r) = Len(queue) + 1
           /\ WorkOf(h, "catchUp2", c, page, more, queue, r)
                 = 2 * (h - c) + (IF page = <<>> THEN 1 ELSE 0)
                               + (IF more = "yes" THEN 1 ELSE 0) + h + 1
           /\ WorkOf(h, "catchUp1", c, page, more, queue, r)
                 = 2 * (h - c) + (IF page = <<>> THEN 1 ELSE 0)
                               + (IF more = "yes" THEN 1 ELSE 0) + h + 3
           /\ WorkOf(h, "resume", c, page, more, queue, r) = 3 * h + 6
           /\ WorkOf(h, "start", c, page, more, queue, r) = 3 * h + 7
           /\ WorkOf(h, "backoff", c, page, more, queue, r) = 3 * h + 8
           /\ WorkOf(h, "ended", c, page, more, queue, r) = 0
  BY DEF WorkOf

LEMMA WorkOfRebuild ==
    ASSUME NEW h, NEW c, NEW page, NEW more, NEW queue
    PROVE  /\ WorkOf(h, "off", c, page, more, queue, "reset") = 3 * h + 9
           /\ WorkOf(h, "off", c, page, more, queue, "stopped") = 3 * h + 10
  BY DEF WorkOf

\* There is always a natural number of steps left.
LEMMA WorkIsNat ==
    ASSUME NEW h \in Nat, NEW a \in Nat, NEW f \in FiberType(h, a), NEW r
    PROVE  WorkOf(h, f.at, f.cursor, f.page, f.more, f.queue, r) \in Nat
  <1> DEFINE w == WorkOf(h, f.at, f.cursor, f.page, f.more, f.queue, r)
             d == h - f.cursor
             x == IF f.page = <<>> THEN 1 ELSE 0
             y == IF f.more = "yes" THEN 1 ELSE 0
             len == Len(f.queue)
  <1>1. d \in Nat /\ len \in Nat /\ x \in Nat /\ y \in Nat
    <2>1. f.cursor \in 0..h /\ f.queue \in Seq(1..a)
      BY DEF FiberType
    <2> QED
      BY <2>1
  <1>2. w \in {2 * d + x + y + h + 1, 2 * d + x + y + h + 3, len + 1, 3 * h + 6, 3 * h + 7,
               3 * h + 8, 3 * h + 9, 3 * h + 10, 0}
    BY Zenon DEF WorkOf
  <1> HIDE DEF w, d, x, y, len
  <1>3. w \in Nat
    BY <1>1, <1>2
  <1> QED
    BY <1>3 DEF w

\* A step of one fiber leaves the others the work they had.
LEMMA OthersWork ==
    ASSUME NEW p \in Projectors, NEW at, NEW c, NEW g, NEW m, NEW u,
           Becomes(p, at, c, g, m, u), UNCHANGED head,
           \A q \in Projectors \ {p} : rebuilding'[q] = rebuilding[q]
    PROVE  /\ WorkLeft(p)' = WorkOf(head, at, c, g, m, u, rebuilding'[p])
           /\ \A q \in Projectors \ {p} : WorkLeft(q)' = WorkLeft(q)
  BY DEF WorkLeft, Becomes

LEMMA ReadPageWork ==
    ASSUME TypeInv, LiveInv, NEW p \in Projectors, ReadPage(p)
    PROVE  WorkOf(head, fiber[p].at, fiber[p].cursor, Page(fiber[p].cursor),
                  IF Len(Page(fiber[p].cursor)) = PageSize THEN "yes" ELSE "no",
                  fiber[p].queue, rebuilding[p]) < WorkLeft(p)
  <1> DEFINE page == Page(fiber[p].cursor)
             more == IF Len(page) = PageSize THEN "yes" ELSE "no"
             d == 2 * (head - fiber[p].cursor)
             old == 2
             new == (IF page = <<>> THEN 1 ELSE 0) + (IF more = "yes" THEN 1 ELSE 0)
  <1>1. /\ head \in Nat /\ fiber[p].cursor \in 0..head /\ PageSize \in Nat \ {0}
        /\ page \in Seq(1..head)
    BY Numbers, PageIs
  <1>2. d \in Nat
    BY <1>1
  <1>3. new < 2 /\ new \in Nat
    <2> HIDE DEF page
    <2>1. CASE page = <<>>
      <3>1. Len(page) = 0
        BY <2>1
      <3> QED
        BY <1>1, <2>1, <3>1
    <2>2. CASE page # <<>>
      BY <2>2
    <2> QED
      BY <2>1, <2>2
  <1>4. /\ fiber[p].at \in {"catchUp1", "catchUp2"}
        /\ fiber[p].page = <<>> /\ fiber[p].more = "yes"
    BY DEF ReadPage, CatchingUp
  <1> HIDE DEF page, more
  <1>5. CASE fiber[p].at = "catchUp1"
    <2>1. WorkOf(head, "catchUp1", fiber[p].cursor, page, more, fiber[p].queue, rebuilding[p])
            = d + (IF page = <<>> THEN 1 ELSE 0) + (IF more = "yes" THEN 1 ELSE 0) + head + 3
      BY WorkIs
    <2>2. WorkLeft(p) = d + 1 + 1 + head + 3
      BY <1>4, <1>5, WorkIs DEF WorkLeft
    <2>3. d + (IF page = <<>> THEN 1 ELSE 0) + (IF more = "yes" THEN 1 ELSE 0) + head + 3
            < d + 1 + 1 + head + 3
      <3> HIDE DEF d
      <3> QED
        BY <1>1, <1>2, <1>3
    <2> QED
      BY <1>5, <2>1, <2>2, <2>3 DEF page, more
  <1>6. CASE fiber[p].at = "catchUp2"
    <2>1. WorkOf(head, "catchUp2", fiber[p].cursor, page, more, fiber[p].queue, rebuilding[p])
            = d + (IF page = <<>> THEN 1 ELSE 0) + (IF more = "yes" THEN 1 ELSE 0) + head + 1
      BY WorkIs
    <2>2. WorkLeft(p) = d + 1 + 1 + head + 1
      BY <1>4, <1>6, WorkIs DEF WorkLeft
    <2>3. d + (IF page = <<>> THEN 1 ELSE 0) + (IF more = "yes" THEN 1 ELSE 0) + head + 1
            < d + 1 + 1 + head + 1
      <3> HIDE DEF d
      <3> QED
        BY <1>1, <1>2, <1>3
    <2> QED
      BY <1>6, <2>1, <2>2, <2>3 DEF page, more
  <1> QED
    BY <1>4, <1>5, <1>6

LEMMA ApplyPageWork ==
    ASSUME TypeInv, LiveInv, NEW p \in Projectors, ApplyPage(p)
    PROVE  WorkOf(head, fiber[p].at, Advanced(p, Head(fiber[p].page)), Tail(fiber[p].page),
                  fiber[p].more, fiber[p].queue, rebuilding[p]) < WorkLeft(p)
  <1> DEFINE tail == Tail(fiber[p].page)
             more == fiber[p].more
             c == fiber[p].cursor
             e == Head(fiber[p].page)
             d == Advanced(p, e)
             m == IF more = "yes" THEN 1 ELSE 0
             t == IF tail = <<>> THEN 1 ELSE 0
  <1>1. head \in Nat /\ c \in 0..head /\ e \in 1..head /\ e = c + 1
    BY Numbers, ApplyPageIs, NextIsNext
  <1>2. d = c + 1
    <2> HIDE DEF c, e
    <2>1. ~(e <= c)
      BY <1>1
    <2> QED
      BY <1>1, <2>1 DEF Advanced, c
  <1>3. m \in 0..1 /\ t \in 0..1
    OBVIOUS
  <1>4. fiber[p].at \in {"catchUp1", "catchUp2"} /\ fiber[p].page # <<>>
    BY DEF ApplyPage, CatchingUp
  <1>5. /\ WorkOf(head, "catchUp1", d, tail, more, fiber[p].queue, rebuilding[p])
            = 2 * (head - d) + t + m + head + 3
        /\ WorkOf(head, "catchUp1", c, fiber[p].page, more, fiber[p].queue, rebuilding[p])
            = 2 * (head - c) + 0 + m + head + 3
        /\ WorkOf(head, "catchUp2", d, tail, more, fiber[p].queue, rebuilding[p])
            = 2 * (head - d) + t + m + head + 1
        /\ WorkOf(head, "catchUp2", c, fiber[p].page, more, fiber[p].queue, rebuilding[p])
            = 2 * (head - c) + 0 + m + head + 1
    <2> HIDE DEF c, d, tail, more
    <2> QED
      BY <1>4, WorkIs DEF t, m
  <1>6. /\ 2 * (head - d) + t + m + head + 3 < 2 * (head - c) + 0 + m + head + 3
        /\ 2 * (head - d) + t + m + head + 1 < 2 * (head - c) + 0 + m + head + 1
    <2> HIDE DEF c, d, t, m
    <2> QED
      BY <1>1, <1>2, <1>3
  <1>7. WorkLeft(p) = WorkOf(head, fiber[p].at, c, fiber[p].page, more, fiber[p].queue,
                             rebuilding[p])
    BY DEF WorkLeft
  <1> HIDE DEF c, d, tail, more, t, m
  <1>8. WorkOf(head, fiber[p].at, d, tail, more, fiber[p].queue, rebuilding[p]) < WorkLeft(p)
    BY <1>4, <1>5, <1>6, <1>7
  <1> QED
    BY <1>8 DEF d, tail, more, e

LEMMA CaughtUpWork ==
    ASSUME TypeInv, LiveInv, NEW p \in Projectors, CaughtUp(p)
    PROVE  /\ fiber[p].at = "catchUp1" =>
                 WorkOf(head, "catchUp2", fiber[p].cursor, fiber[p].page, "yes",
                        fiber[p].queue, rebuilding[p]) < WorkLeft(p)
           /\ fiber[p].at = "catchUp2" =>
                 WorkOf(head, "live", fiber[p].cursor, fiber[p].page, fiber[p].more,
                        fiber[p].queue, rebuilding[p]) < WorkLeft(p)
  <1> DEFINE d == 2 * (head - fiber[p].cursor)
             len == Len(fiber[p].queue)
  <1>1. head \in Nat /\ d \in Nat
    <2>1. head \in Nat /\ fiber[p].cursor \in 0..head
      BY Numbers
    <2> QED
      BY <2>1
  <1>2. fiber[p].page = <<>> /\ fiber[p].more = "no"
    BY DEF CaughtUp
  <1>3. ASSUME fiber[p].at = "catchUp1"
        PROVE  WorkOf(head, "catchUp2", fiber[p].cursor, fiber[p].page, "yes",
                      fiber[p].queue, rebuilding[p]) < WorkLeft(p)
    <2>1. WorkOf(head, "catchUp2", fiber[p].cursor, fiber[p].page, "yes",
                 fiber[p].queue, rebuilding[p]) = d + 1 + 1 + head + 1
      BY <1>2, WorkIs
    <2>2. WorkLeft(p) = d + 1 + 0 + head + 3
      BY <1>2, <1>3, WorkIs DEF WorkLeft
    <2>3. d + 1 + 1 + head + 1 < d + 1 + 0 + head + 3
      <3> HIDE DEF d
      <3> QED
        BY <1>1
    <2> QED
      BY <2>1, <2>2, <2>3
  <1>4. ASSUME fiber[p].at = "catchUp2", len \in Nat, len <= head
        PROVE  WorkOf(head, "live", fiber[p].cursor, fiber[p].page, fiber[p].more,
                      fiber[p].queue, rebuilding[p]) < WorkLeft(p)
    <2>1. WorkOf(head, "live", fiber[p].cursor, fiber[p].page, fiber[p].more,
                 fiber[p].queue, rebuilding[p]) = len + 1
      BY WorkIs
    <2>2. WorkLeft(p) = d + 1 + 0 + head + 1
      BY <1>2, <1>4, WorkIs DEF WorkLeft
    <2>3. len + 1 < d + 1 + 0 + head + 1
      <3> HIDE DEF d, len
      <3> QED
        BY <1>1, <1>4
    <2> QED
      BY <2>1, <2>2, <2>3
  <1>5. len \in Nat /\ len <= head
    <2>1. fiber[p].queue \in Seq(1..announced) /\ announced <= head /\ announced \in Nat
      BY Numbers
    <2>2. Ascends(fiber[p].queue)
      BY DEF LiveInv, InOrder, Subscribed, CaughtUp, CatchingUp
    <2>3. len \in Nat /\ \A i \in 1..len : i <= fiber[p].queue[i] /\ fiber[p].queue[i] \in 1..announced
      BY <2>1, <2>2 DEF Ascends
    <2>4. len = 0 \/ len \in 1..len
      BY <2>3
    <2>5. ASSUME len \in 1..len PROVE len <= head
      <3>1. len <= fiber[p].queue[len] /\ fiber[p].queue[len] \in 1..announced
        BY <2>3, <2>5
      <3> HIDE DEF len
      <3> QED
        BY <1>1, <2>1, <2>3, <3>1
    <2> HIDE DEF len
    <2> QED
      BY <1>1, <2>3, <2>4, <2>5
  <1> QED
    BY <1>3, <1>4, <1>5

LEMMA FiberGetsOn ==
    ASSUME TypeInv, LiveInv, RebuildInv, NEW p \in Projectors, FiberStep(p) \/ RebuildStep(p)
    PROVE  /\ WorkLeft(p) \in Nat /\ WorkLeft(p)' < WorkLeft(p)
           /\ \A q \in Projectors \ {p} : WorkLeft(q)' = WorkLeft(q)
  <1>1. head \in Nat /\ announced \in Nat /\ fiber[p] \in FiberType(head, announced)
    BY Numbers
  <1>2. WorkLeft(p) \in Nat
    BY <1>1, WorkIsNat DEF WorkLeft
  <1>3. /\ 3 * head + 6 < 3 * head + 7 /\ 3 * head + 7 < 3 * head + 8
        /\ 3 * head + 7 < 3 * head + 9 /\ 3 * head + 9 < 3 * head + 10
    BY <1>1
  <1>4. ASSUME NEW at, NEW c, NEW g, NEW m, NEW u, Becomes(p, at, c, g, m, u), UNCHANGED head,
               \A q \in Projectors \ {p} : rebuilding'[q] = rebuilding[q],
               WorkOf(head, at, c, g, m, u, rebuilding'[p]) < WorkLeft(p)
        PROVE  /\ WorkLeft(p)' < WorkLeft(p)
               /\ \A q \in Projectors \ {p} : WorkLeft(q)' = WorkLeft(q)
    BY <1>4, OthersWork
  <1> DEFINE Down == /\ WorkLeft(p)' < WorkLeft(p)
                     /\ \A q \in Projectors \ {p} : WorkLeft(q)' = WorkLeft(q)
  <1> HIDE DEF Down
  <1>5. FiberStep(p) => UNCHANGED <<head, rebuilding>>
    BY DEF FiberStep, Subscribe, ReadCheckpoint, ReadPage, ApplyPage, CaughtUp, ApplyLive,
      Restart, StreamEnds, durable
  <1>6. ASSUME Subscribe(p) PROVE Down
    <2>1. fiber[p].at = "start" /\ UNCHANGED <<head, rebuilding>>
      BY <1>5, <1>6 DEF Subscribe, FiberStep
    <2>2. Becomes(p, "resume", fiber[p].cursor, fiber[p].page, fiber[p].more, <<>>)
      BY <1>6, SubscribeIs
    <2>3. WorkLeft(p) = 3 * head + 7
      BY <2>1, WorkIs DEF WorkLeft
    <2>4. WorkOf(head, "resume", fiber[p].cursor, fiber[p].page, fiber[p].more, <<>>,
                 rebuilding'[p]) = 3 * head + 6
      BY WorkIs
    <2> QED
      BY <1>3, <1>4, <2>1, <2>2, <2>3, <2>4 DEF Down
  <1>7. ASSUME ReadCheckpoint(p) PROVE Down
    <2>1. fiber[p].at = "resume" /\ UNCHANGED <<head, rebuilding>>
      BY <1>5, <1>7 DEF ReadCheckpoint, FiberStep
    <2>2. Becomes(p, "catchUp1", checkpoint[p], <<>>, "yes", fiber[p].queue)
      BY <1>7, ReadCheckpointIs
    <2>3. WorkLeft(p) = 3 * head + 6
      BY <2>1, WorkIs DEF WorkLeft
    <2>4. WorkOf(head, "catchUp1", checkpoint[p], <<>>, "yes", fiber[p].queue, rebuilding'[p])
            = 2 * (head - checkpoint[p]) + 1 + 1 + head + 3
      BY WorkIs
    <2>5. 2 * (head - checkpoint[p]) + 1 + 1 + head + 3 < 3 * head + 6
      <3>1. checkpoint[p] \in 0..head
        BY Numbers
      <3> QED
        BY <1>1, <3>1
    <2> QED
      BY <1>4, <2>1, <2>2, <2>3, <2>4, <2>5 DEF Down
  <1>8. ASSUME ReadPage(p) PROVE Down
    <2>1. UNCHANGED <<head, rebuilding>>
      BY <1>5, <1>8 DEF FiberStep
    <2>2. Becomes(p, fiber[p].at, fiber[p].cursor, Page(fiber[p].cursor),
                  IF Len(Page(fiber[p].cursor)) = PageSize THEN "yes" ELSE "no", fiber[p].queue)
      BY <1>8, ReadPageIs
    <2> QED
      BY <1>4, <1>8, <2>1, <2>2, ReadPageWork DEF Down
  <1>9. ASSUME ApplyPage(p) PROVE Down
    <2>1. UNCHANGED <<head, rebuilding>>
      BY <1>5, <1>9 DEF FiberStep
    <2> QED
      BY <1>4, <1>9, <2>1, ApplyPageIs, ApplyPageWork DEF Down
  <1>10. ASSUME CaughtUp(p) PROVE Down
    <2>1. UNCHANGED <<head, rebuilding>>
      BY <1>5, <1>10 DEF FiberStep
    <2> QED
      BY <1>4, <1>10, <2>1, CaughtUpIs, CaughtUpWork DEF Down
  <1>11. ASSUME ApplyLive(p) PROVE Down
    <2>1. UNCHANGED <<head, rebuilding>>
      BY <1>5, <1>11 DEF FiberStep
    <2>2. Becomes(p, "live", Advanced(p, Head(fiber[p].queue)), fiber[p].page, fiber[p].more,
                  Tail(fiber[p].queue))
      BY <1>11, ApplyLiveIs
    <2>3. fiber[p].at = "live" /\ fiber[p].queue # <<>> /\ fiber[p].queue \in Seq(1..announced)
      BY <1>11, Numbers DEF ApplyLive
    <2>4. WorkLeft(p) = Len(fiber[p].queue) + 1
      BY <2>3, WorkIs DEF WorkLeft
    <2>5. WorkOf(head, "live", Advanced(p, Head(fiber[p].queue)), fiber[p].page, fiber[p].more,
                 Tail(fiber[p].queue), rebuilding'[p]) = Len(Tail(fiber[p].queue)) + 1
      <3>1. \A c, u : WorkOf(head, "live", c, fiber[p].page, fiber[p].more, u, rebuilding'[p])
                         = Len(u) + 1
        BY WorkIs
      <3> QED
        BY <3>1, Zenon
    <2>6. Len(Tail(fiber[p].queue)) + 1 < Len(fiber[p].queue) + 1
      BY <2>3, TailIs
    <2> QED
      BY <1>4, <2>1, <2>2, <2>4, <2>5, <2>6 DEF Down
  <1>12. ASSUME Restart(p) PROVE Down
    <2>1. fiber[p].at = "backoff" /\ UNCHANGED <<head, rebuilding>>
      BY <1>5, <1>12 DEF Restart, FiberStep
    <2>2. Becomes(p, "start", fiber[p].cursor, fiber[p].page, fiber[p].more, fiber[p].queue)
      BY <1>12, RestingIs
    <2>3. WorkLeft(p) = 3 * head + 8
      BY <2>1, WorkIs DEF WorkLeft
    <2>4. WorkOf(head, "start", fiber[p].cursor, fiber[p].page, fiber[p].more, fiber[p].queue,
                 rebuilding'[p]) = 3 * head + 7
      BY WorkIs
    <2> QED
      BY <1>3, <1>4, <2>1, <2>2, <2>3, <2>4 DEF Down
  <1>13. ASSUME StreamEnds(p) PROVE Down
    <2>1. /\ fiber[p].at = "live" /\ fiber[p].queue = <<>> /\ UNCHANGED <<head, rebuilding>>
      BY <1>5, <1>13 DEF StreamEnds, FiberStep
    <2>2. Becomes(p, "ended", fiber[p].cursor, fiber[p].page, fiber[p].more, fiber[p].queue)
      BY <1>13, RestingIs
    <2>3. WorkLeft(p) = Len(<<>>) + 1
      BY <2>1, WorkIs DEF WorkLeft
    <2>4. WorkOf(head, "ended", fiber[p].cursor, fiber[p].page, fiber[p].more, fiber[p].queue,
                 rebuilding'[p]) = 0
      BY WorkIs
    <2>5. 0 < Len(<<>>) + 1
      OBVIOUS
    <2> QED
      BY <1>4, <2>1, <2>2, <2>3, <2>4, <2>5 DEF Down
  <1>14. ASSUME StartProjector(p) PROVE Down
    <2>1. /\ rebuilding[p] = "reset" /\ rebuilding' = [rebuilding EXCEPT ![p] = "no"]
          /\ UNCHANGED head /\ fiber[p].at = "off"
      BY <1>14 DEF StartProjector, durable, RebuildInv
    <2>2. Becomes(p, "start", 0, <<>>, "no", <<>>)
      BY <1>14, RestingIs
    <2>3. WorkLeft(p) = 3 * head + 9
      BY <2>1, WorkOfRebuild DEF WorkLeft
    <2>4. WorkOf(head, "start", 0, <<>>, "no", <<>>, rebuilding'[p]) = 3 * head + 7
      BY WorkIs
    <2> QED
      BY <1>3, <1>4, <2>1, <2>2, <2>3, <2>4 DEF Down
  <1>15. ASSUME ResetProjector(p) PROVE Down
    <2>1. /\ rebuilding[p] = "stopped" /\ rebuilding' = [rebuilding EXCEPT ![p] = "reset"]
          /\ UNCHANGED <<head, fiber>> /\ fiber[p].at = "off"
          /\ rebuilding \in [Projectors -> {"no", "stopped", "reset", "failed"}]
      BY <1>15 DEF ResetProjector, RebuildInv, TypeInv
    <2>2. WorkLeft(p) = 3 * head + 10
      BY <2>1, WorkOfRebuild DEF WorkLeft
    <2>3. WorkLeft(p)' = 3 * head + 9
      <3>1. rebuilding'[p] = "reset"
        BY <2>1
      <3> QED
        BY <2>1, <3>1, WorkOfRebuild DEF WorkLeft
    <2>4. \A q \in Projectors \ {p} : WorkLeft(q)' = WorkLeft(q)
      BY <2>1 DEF WorkLeft
    <2> QED
      BY <1>3, <2>2, <2>3, <2>4 DEF Down
  <1>16. Down
    BY <1>6, <1>7, <1>8, <1>9, <1>10, <1>11, <1>12, <1>13, <1>14, <1>15
    DEF FiberStep, RebuildStep
  <1> QED
    BY <1>2, <1>16 DEF Down

\* A projector that steps gets on: no fiber reads, applies or starts again for
\* ever without an event being committed, a failure or a rebuild.  With
\* ProjectorsRestCaughtUp this is CatchesUp and Recovers, but for the fairness.
THEOREM ProjectorsAlwaysGetOn == Spec => [][GetsOn]_vars
  <1>1. TypeInv /\ LiveInv /\ RebuildInv /\ [Next]_vars => [GetsOn]_vars
    BY FiberGetsOn DEF GetsOn
  <1> QED
    BY <1>1, TableInvInductive, PTL DEF Spec
=============================================================================

------------------------ MODULE ReadModelReplay_proofs ------------------------
(***************************************************************************)
(* What the engine of OrchestrationEngine publishes and decides on: that    *)
(* subscribers see the log, and that the read model is the fold of the      *)
(* log, for any commands, batches, decider, projector and bounds.           *)
(***************************************************************************)
EXTENDS OrchestrationEngine_proofs, WellFoundedInduction

-----------------------------------------------------------------------------
(* Induction, from the well-foundedness of the order of the naturals *)

\* A set of numbers that is not empty has a least one.
LEMMA LeastNumber ==
    ASSUME NEW T, T \subseteq Nat, T # {}
    PROVE  \E x \in T : \A y \in T : x <= y
  <1>1. IsWellFoundedOn(OpToRel(<, Nat), Nat)
    BY NatLessThanWellFounded
  <1>2. \E R : /\ IsWellFoundedOn(R, Nat)
               /\ \A x \in Nat, y \in Nat : y < x => <<y, x>> \in R
    <2>1. \A x \in Nat, y \in Nat : y < x => <<y, x>> \in OpToRel(<, Nat)
      BY DEF OpToRel
    <2> QED
      BY <1>1, <2>1
  <1>3. PICK R : /\ IsWellFoundedOn(R, Nat)
                 /\ \A x \in Nat, y \in Nat : y < x => <<y, x>> \in R
    BY <1>2
  <1>4. PICK x \in T : \A y \in T : <<y, x>> \notin R
    BY <1>3, WFMin
  <1>5. \A y \in T : ~(y < x)
    BY <1>3, <1>4
  <1> QED
    BY <1>5

\* So a set with 0 that is closed under successor holds every number.
LEMMA InductiveSet ==
    ASSUME NEW S, 0 \in S, \A n \in Nat : n \in S => n + 1 \in S
    PROVE  \A n \in Nat : n \in S
  <1> SUFFICES ASSUME Nat \ S # {} PROVE FALSE
    OBVIOUS
  <1>1. PICK x \in Nat \ S : \A y \in Nat \ S : x <= y
    BY LeastNumber
  <1>2. x - 1 \in Nat /\ x - 1 \in S
    BY <1>1
  <1> QED
    BY <1>1, <1>2

-----------------------------------------------------------------------------
(* Folds: projectEvents one event after the other *)

\* f holds the states on the way of folding the first k events from state.
FoldsTo(f, state, events, k) ==
    /\ DOMAIN f = 0..k /\ f = [n \in 0..k |-> f[n]]
    /\ f[0] = state
    /\ \A n \in 1..k : f[n] = Project(f[n - 1], events[n])

\* There is one, for every number of events.
LEMMA FoldExists ==
    ASSUME NEW state, NEW events
    PROVE  \A k \in Nat : \E f : FoldsTo(f, state, events, k)
  <1> DEFINE S == {k \in Nat : \E f : FoldsTo(f, state, events, k)}
  <1>1. 0 \in S
    <2>1. FoldsTo([n \in 0..0 |-> state], state, events, 0)
      BY DEF FoldsTo
    <2> QED
      BY <2>1
  <1>2. ASSUME NEW k \in Nat, k \in S PROVE k + 1 \in S
    <2>1. PICK f : FoldsTo(f, state, events, k)
      BY <1>2
    <2> DEFINE g == [n \in 0..(k + 1) |-> IF n <= k THEN f[n] ELSE Project(f[k], events[k + 1])]
    <2>2. /\ DOMAIN g = 0..(k + 1) /\ g = [n \in 0..(k + 1) |-> g[n]]
          /\ g[0] = state
      BY <2>1 DEF FoldsTo
    <2>3. ASSUME NEW n \in 1..(k + 1) PROVE g[n] = Project(g[n - 1], events[n])
      <3>1. CASE n <= k
        <4>1. \A i \in 1..k : f[i] = Project(f[i - 1], events[i])
          BY <2>1, Zenon DEF FoldsTo
        <4>2. f[n] = Project(f[n - 1], events[n])
          BY <3>1, <4>1
        <4>3. g[n] = f[n] /\ g[n - 1] = f[n - 1]
          BY <3>1
        <4> HIDE DEF g
        <4> QED
          BY <4>2, <4>3
      <3>2. CASE n = k + 1
        <4>1. g[k] = f[k]
          OBVIOUS
        <4>2. g[k + 1] = Project(f[k], events[k + 1])
          OBVIOUS
        <4>3. n - 1 = k
          BY <3>2
        <4> HIDE DEF g
        <4> QED
          BY <3>2, <4>1, <4>2, <4>3
      <3> QED
        BY <3>1, <3>2
    <2> HIDE DEF g
    <2>4. FoldsTo(g, state, events, k + 1)
      BY <2>2, <2>3 DEF FoldsTo
    <2> QED
      BY <2>4
  <1> HIDE DEF S
  <1>3. \A k \in Nat : k \in S
    BY <1>1, <1>2, InductiveSet
  <1> QED
    BY <1>3 DEF S

\* FoldEvents is the last state of such a way.
LEMMA FoldEventsIsFold ==
    ASSUME NEW state, NEW events, Len(events) \in Nat
    PROVE  \E f : /\ FoldsTo(f, state, events, Len(events))
                  /\ FoldEvents(state, events) = f[Len(events)]
  <1> DEFINE k == Len(events)
             Fold(f) == f = [n \in 0..k |-> IF n = 0 THEN state
                                            ELSE Project(f[n - 1], events[n])]
  <1>1. \A f : Fold(f) => FoldsTo(f, state, events, k)
    <2> SUFFICES ASSUME NEW f, Fold(f) PROVE FoldsTo(f, state, events, k)
      OBVIOUS
    <2> DEFINE body(n) == IF n = 0 THEN state ELSE Project(f[n - 1], events[n])
    <2>1. DOMAIN f = 0..k /\ \A n \in 0..k : f[n] = body(n)
      OBVIOUS
    <2>2. f = [n \in 0..k |-> f[n]]
      <3>1. f = [n \in 0..k |-> body(n)]
        OBVIOUS
      <3>2. f \in [0..k -> {body(n) : n \in 0..k}]
        BY <3>1
      <3> QED
        BY <3>2
    <2> QED
      BY <2>1, <2>2 DEF FoldsTo
  <1>2. \E f : Fold(f)
    <2>1. PICK f : FoldsTo(f, state, events, k)
      BY FoldExists
    <2>2. \A n \in 0..k : f[n] = IF n = 0 THEN state ELSE Project(f[n - 1], events[n])
      BY <2>1 DEF FoldsTo
    <2>3. f = [n \in 0..k |-> f[n]]
      BY <2>1 DEF FoldsTo
    <2>4. Fold(f)
      BY <2>2, <2>3
    <2> QED
      BY <2>4
  <1> DEFINE fold == CHOOSE f : Fold(f)
  <1>3. Fold(fold)
    BY <1>2
  <1>4. FoldEvents(state, events) = fold[k]
    BY DEF FoldEvents
  <1> QED
    BY <1>1, <1>3, <1>4

\* f folds k events of a, from where g has folded from events of b, and a is what
\* comes next in b.
Continues(f, a, k, g, b, m, from) ==
    /\ k \in Nat /\ m \in Nat /\ from \in Nat /\ from + k <= m
    /\ FoldsTo(f, g[from], a, k) /\ \E state : FoldsTo(g, state, b, m)
    /\ \A n \in 1..k : a[n] = b[from + n]

\* Then the two go through the same states.
LEMMA FoldsAgree ==
    ASSUME NEW a, NEW b, NEW f, NEW g, NEW k, NEW m, NEW from,
           Continues(f, a, k, g, b, m, from)
    PROVE  \A n \in 0..k : f[n] = g[from + n]
  <1>0. /\ k \in Nat /\ m \in Nat /\ from \in Nat /\ from + k <= m
        /\ \A n \in 1..k : a[n] = b[from + n]
        /\ f[0] = g[from]
        /\ \A n \in 1..k : f[n] = Project(f[n - 1], a[n])
        /\ \A n \in 1..m : g[n] = Project(g[n - 1], b[n])
    BY Zenon DEF Continues, FoldsTo
  <1> DEFINE S == {n \in Nat : n <= k => f[n] = g[from + n]}
  <1>1. 0 \in S
    BY <1>0
  <1>2. ASSUME NEW n \in Nat, n \in S PROVE n + 1 \in S
    <2> SUFFICES ASSUME n + 1 <= k PROVE f[n + 1] = g[from + (n + 1)]
      OBVIOUS
    <2>1. f[n] = g[from + n] /\ n + 1 \in 1..k
      BY <1>0, <1>2
    <2>2. f[n + 1] = Project(f[n], a[n + 1])
      <3>1. (n + 1) - 1 = n
        OBVIOUS
      <3>2. f[n + 1] = Project(f[(n + 1) - 1], a[n + 1])
        BY <1>0, <2>1
      <3> QED
        BY <3>1, <3>2
    <2>3. from + (n + 1) \in 1..m /\ (from + (n + 1)) - 1 = from + n
      BY <1>0, <2>1
    <2>4. g[from + (n + 1)] = Project(g[from + n], b[from + (n + 1)])
      BY <1>0, <2>3
    <2> QED
      BY <1>0, <2>1, <2>2, <2>4
  <1> HIDE DEF S
  <1>3. \A n \in Nat : n \in S
    BY <1>1, <1>2, InductiveSet
  <1> QED
    BY <1>3 DEF S

\* Folding a, and then b from there, is folding the two in one go.
LEMMA FoldInTwoParts ==
    ASSUME NEW state, NEW a, NEW b, NEW c,
           Len(a) \in Nat, Len(b) \in Nat, Len(c) = Len(a) + Len(b),
           \A n \in 1..Len(a) : a[n] = c[n],
           \A n \in 1..Len(b) : b[n] = c[Len(a) + n]
    PROVE  FoldEvents(FoldEvents(state, a), b) = FoldEvents(state, c)
  <1>0. Len(c) \in Nat /\ 0 + Len(a) <= Len(c) /\ Len(a) + Len(b) <= Len(c)
    OBVIOUS
  <1>1. PICK h : FoldsTo(h, state, c, Len(c)) /\ FoldEvents(state, c) = h[Len(c)]
    BY <1>0, FoldEventsIsFold
  <1>2. PICK f : FoldsTo(f, state, a, Len(a)) /\ FoldEvents(state, a) = f[Len(a)]
    BY FoldEventsIsFold
  <1>3. FoldEvents(state, a) = h[Len(a)]
    <2>1. h[0] = state
      BY <1>1 DEF FoldsTo
    <2>2. \A n \in 1..Len(a) : a[n] = c[0 + n]
      OBVIOUS
    <2>3. Continues(f, a, Len(a), h, c, Len(c), 0)
      BY <1>0, <1>1, <1>2, <2>1, <2>2 DEF Continues
    <2>4. \A n \in 0..Len(a) : f[n] = h[0 + n]
      BY <2>3, FoldsAgree
    <2> QED
      BY <1>2, <2>4
  <1>4. PICK g : /\ FoldsTo(g, h[Len(a)], b, Len(b))
                 /\ FoldEvents(h[Len(a)], b) = g[Len(b)]
    BY FoldEventsIsFold
  <1>5. \A n \in 0..Len(b) : g[n] = h[Len(a) + n]
    <2>1. Continues(g, b, Len(b), h, c, Len(c), Len(a))
      BY <1>0, <1>1, <1>4 DEF Continues
    <2> QED
      BY <2>1, FoldsAgree
  <1> QED
    BY <1>1, <1>3, <1>4, <1>5

-----------------------------------------------------------------------------
(* The invariant *)

Reads == {"lookup", "decide", "commit", "adopt", "failed"}
ReadModelSeq == commandReadModel.seq
SizeOfWork == Len(EventsOf(CurrentWork))

\* An envelope's cursor is where the read model stands until it is adopted or
\* reconciled, and what waits to be adopted lies behind it, at the end of the log.
CursorInv ==
    /\ commandReadModel = [seq |-> commandReadModel.seq, state |-> commandReadModel.state]
    /\ phase = "down" => worker.at = "idle"
    /\ phase # "down" => hydrated <= ReadModelSeq
    /\ worker.at \in Reads => worker.start = ReadModelSeq
    /\ worker.at = "adopt" =>
          /\ ReadModelSeq + SizeOfWork <= Len(log)
          /\ \A i \in 1..SizeOfWork :
                log[(Len(log) - SizeOfWork) + i] = Entries(CurrentWork)[i]

\* What was published is durable, in order, and not ahead of the read model.
DurableInv ==
    phase # "down" =>
        \A i \in 1..Len(published) :
            /\ published[i].seq \in (hydrated + 1)..ReadModelSeq
            /\ published[i].entry = log[published[i].seq]
            /\ i > 1 => published[i - 1].seq < published[i].seq

\* With no reconcile lost, it is everything up to the read model, which lacks
\* at most what the envelope in hand has committed.
ExactInv ==
    "reconcile" \notin Faults /\ phase # "down" =>
        /\ hydrated + Len(published) = ReadModelSeq
        /\ \A i \in 1..Len(published) : published[i].seq = hydrated + i
        /\ worker.at \notin {"adopt", "failed"} => ReadModelSeq = Len(log)
        /\ worker.at = "adopt" => ReadModelSeq + SizeOfWork = Len(log)
        /\ worker.at = "failed" =>
              /\ Len(log) <= ReadModelSeq + PageSize
              /\ worker.outcome = "refused" => ReadModelSeq = Len(log)

\* And the read model is the fold of the log as far as it goes.
EventsUpTo(n) == [i \in 1..n |-> log[i].event]
FoldInv ==
    "reconcile" \notin Faults /\ phase # "down" =>
        commandReadModel.state = FoldEvents(EmptyState, EventsUpTo(ReadModelSeq))

ReplayInv == CursorInv /\ DurableInv /\ ExactInv /\ FoldInv

\* Nothing is published, folded or read before the first boot.
LEMMA ReplayInvInit == Init => ReplayInv
  BY DEF Init, ReplayInv, CursorInv, DurableInv, ExactInv, FoldInv, Reads, IdleWorker, EmptyModel

\* hydrateReadModel starts from the whole log.
LEMMA ReplayInvBoot == TypeInv /\ ReplayInv /\ Boot => ReplayInv'
  <1> SUFFICES ASSUME TypeInv, ReplayInv, Boot PROVE ReplayInv'
    OBVIOUS
  <1>1. /\ worker' = worker /\ worker.at = "idle" /\ log' = log
        /\ commandReadModel' = [seq |-> Len(log), state |-> Replay(log)]
        /\ hydrated' = Len(log) /\ published' = <<>> /\ Len(log) \in Nat
    BY DEF Boot, ReplayInv, CursorInv, TypeInv, TypeOK, durable
  <1>2. ReadModelSeq' = Len(log)' /\ commandReadModel'.state = Replay(log)
    BY <1>1 DEF ReadModelSeq
  <1>3. Replay(log) = FoldEvents(EmptyState, EventsUpTo(Len(log)))
    BY DEF Replay, EventsUpTo
  <1>4. CursorInv'
    BY <1>1, <1>2 DEF CursorInv, Reads
  <1>5. DurableInv' /\ ExactInv'
    BY <1>1, <1>2 DEF DurableInv, ExactInv
  <1>6. FoldInv'
    BY <1>1, <1>2, <1>3 DEF FoldInv, EventsUpTo
  <1> QED
    BY <1>4, <1>5, <1>6 DEF ReplayInv

\* A process that is down promises nothing but an idle worker.
LEMMA ReplayInvStops ==
    ASSUME TypeInv, ReplayInv, FinishShutdown \/ Crash PROVE ReplayInv'
  <1>1. /\ phase' = "down" /\ worker'.at = "idle"
        /\ commandReadModel' = commandReadModel \/ commandReadModel' = EmptyModel
    BY DEF FinishShutdown, Crash, IdleWorker
  <1> QED
    BY <1>1 DEF ReplayInv, CursorInv, DurableInv, ExactInv, FoldInv, Reads, EmptyModel

\* The steps that publish nothing, commit nothing, and leave the read model alone.
Quiet ==
    /\ UNCHANGED <<log, commandReadModel, hydrated, published>>
    /\ phase = "down" => phase' = "down" /\ worker' = worker
    /\ phase # "down" => phase' # "down"
    /\ \/ worker' = worker /\ (worker.at # "idle" => CurrentWork' = CurrentWork)
       \/ /\ worker'.at # "adopt"
          /\ worker'.at \in Reads => worker'.start = ReadModelSeq
          /\ \/ worker.at \notin {"adopt", "failed"}
             \/ "reconcile" \in Faults
             \/ worker.at = "failed" /\ worker.outcome = "refused"

\* Such a step keeps what it does not touch.
LEMMA ReplayInvQuiet ==
    ASSUME TypeInv, ReplayInv, Quiet PROVE ReplayInv'
  <1>1. ReadModelSeq' = ReadModelSeq /\ Len(log)' = Len(log) /\ ReadModelSeq \in Nat /\ Len(log) \in Nat
    BY DEF Quiet, ReadModelSeq, TypeInv, TypeOK
  <1>2. PageSize \in Nat
    BY BoundsAssumption
  <1>3. worker' = worker /\ worker.at = "adopt" => SizeOfWork' = SizeOfWork /\ CurrentWork' = CurrentWork
    BY DEF Quiet, SizeOfWork
  <1>4. CursorInv'
    BY <1>1, <1>3 DEF Quiet, ReplayInv, CursorInv, Entries
  <1>5. DurableInv'
    BY <1>1 DEF Quiet, ReplayInv, DurableInv
  <1>6. ExactInv'
    BY <1>1, <1>2, <1>3 DEF Quiet, ReplayInv, ExactInv
  <1>7. FoldInv'
    BY <1>1 DEF Quiet, ReplayInv, FoldInv, EventsUpTo
  <1> QED
    BY <1>4, <1>5, <1>6, <1>7 DEF ReplayInv

\* Calls that come, go or wait do not change the work in hand.
LEMMA QuietCalls ==
    ASSUME TypeInv, ReplayInv, (\E w \in Work : Dispatch(w)) \/ (\E t \in DOMAIN calls : Abandon(t))
    PROVE  Quiet
  <1>1. \A t \in 1..Len(calls) : calls'[t].work = calls[t].work
    <2>1. CASE \E w \in Work : Dispatch(w)
      <3>1. calls \in Seq(Call) /\ \E call : calls' = Append(calls, call)
        BY <2>1 DEF Dispatch, TypeInv, TypeOK
      <3> QED
        BY <3>1
    <2>2. CASE \E t \in DOMAIN calls : Abandon(t)
      <3>1. PICK t \in DOMAIN calls : calls' = [calls EXCEPT ![t].outcome = "lost"]
        BY <2>2 DEF Abandon
      <3>2. calls \in Seq(Call) /\ calls[t] \in Call
        BY <3>1 DEF TypeInv, TypeOK
      <3>3. [calls[t] EXCEPT !.outcome = "lost"].work = calls[t].work
        BY <3>2 DEF Call
      <3> QED
        BY <3>1, <3>2, <3>3
    <2> QED
      BY <2>1, <2>2
  <1>2. worker' = worker /\ UNCHANGED <<log, phase, commandReadModel, hydrated, published>>
    BY DEF Dispatch, Abandon, durable
  <1>3. worker.at # "idle" => worker.ticket \in 1..Len(calls)
    BY CurrentWorkTyped
  <1> QED
    BY <1>1, <1>2, <1>3 DEF Quiet, CurrentWork

\* The steps of the worker before its transaction, and after its effects.
LEMMA QuietWorker ==
    ASSUME TypeInv, ReplayInv,
           \/ Take \/ Lookup \/ LookupFails \/ DecideCommand \/ IdentityFails \/ CommitRollsBack
           \/ RecordRejection \/ RecordFails \/ Answer
    PROVE  Quiet
  <1>1. /\ UNCHANGED <<log, phase, commandReadModel, hydrated, published>>
        /\ worker.at \notin {"adopt", "failed"}
    BY DEF Take, Lookup, LookupFails, DecideCommand, IdentityFails, CommitRollsBack,
           RecordRejection, RecordFails, Answer, durable
  <1>2. phase # "down"
    BY <1>1 DEF ReplayInv, CursorInv, Take, Lookup, LookupFails, DecideCommand, IdentityFails,
                CommitRollsBack, RecordRejection, RecordFails, Answer
  <1>3. worker \in WorkerState
    BY DEF TypeInv, TypeOK
  <1>4. worker'.at # "adopt" /\ (worker'.at \in Reads => worker'.start = ReadModelSeq)
    <2>1. CASE Take
      BY <2>1 DEF Take, ReadModelSeq
    <2>2. CASE Lookup \/ LookupFails \/ DecideCommand \/ IdentityFails \/ CommitRollsBack
      <3>1. /\ worker'.start = worker.start /\ worker.start = ReadModelSeq
            /\ worker'.at \in {"answer", "failed", "decide", "commit"}
        BY <1>3, <2>2 DEF Lookup, LookupFails, DecideCommand, IdentityFails, CommitRollsBack,
                          Goto, Finish, WorkerState, ReplayInv, CursorInv, Reads
      <3> QED
        BY <3>1
    <2>3. CASE RecordRejection \/ RecordFails \/ Answer
      BY <1>3, <2>3 DEF RecordRejection, RecordFails, Answer, Goto, IdleWorker, WorkerState, Reads
    <2> QED
      BY <2>1, <2>2, <2>3
  <1> QED
    BY <1>1, <1>2, <1>4 DEF Quiet

\* A shutdown that begins, a reconcile that is lost or skipped, and no step at all.
LEMMA QuietOthers ==
    ASSUME TypeInv, ReplayInv,
           \/ BeginShutdown \/ ReconcileFails \/ UNCHANGED vars
           \/ Reconcile /\ worker.outcome = "refused"
    PROVE  Quiet
  <1>1. CASE BeginShutdown \/ UNCHANGED vars
    BY <1>1 DEF BeginShutdown, vars, Quiet, CurrentWork, durable
  <1>2. CASE ReconcileFails \/ (Reconcile /\ worker.outcome = "refused")
    <2>1. /\ UNCHANGED <<log, phase, commandReadModel, hydrated, published>>
          /\ worker.at = "failed" /\ worker' = [worker EXCEPT !.at = AfterReconcile]
          /\ "reconcile" \in Faults \/ worker.outcome = "refused"
      BY <1>2 DEF ReconcileFails, Reconcile, Goto, Fault, durable
    <2>2. worker \in WorkerState /\ phase # "down"
      BY <2>1 DEF TypeInv, TypeOK, ReplayInv, CursorInv
    <2>3. worker'.at \in {"record", "answer"}
      BY <2>1, <2>2 DEF WorkerState, AfterReconcile
    <2> QED
      BY <2>1, <2>2, <2>3 DEF Quiet, Reads
  <1> QED
    BY <1>1, <1>2

\* A commit leaves the events of its work at the end of the log, to be adopted,
\* or to be reconciled when its answer is lost.
LEMMA ReplayInvCommit ==
    ASSUME TypeInv, ReplayInv, Commit \/ CommitAckLost PROVE ReplayInv'
  <1> DEFINE w == CurrentWork
  <1>1. /\ worker.at = "commit" /\ w \in Work /\ EventsOf(w) # <<>> /\ CommitRows(w)
        /\ UNCHANGED <<phase, commandReadModel, hydrated, published, calls>>
    BY CurrentWorkTyped DEF Commit, CommitAckLost, TypeInv, WorkerOK
  <1>2. worker \in WorkerState /\ phase # "down"
    BY <1>1 DEF TypeInv, TypeOK, ReplayInv, CursorInv
  <1>3. /\ worker'.at \in {"adopt", "failed"} /\ worker'.start = worker.start
        /\ worker'.ticket = worker.ticket
        /\ worker'.at = "failed" => worker'.outcome = "failed"
    BY <1>2 DEF Commit, CommitAckLost, Finish, WorkerState
  <1>4. /\ Len(EventsOf(w)) \in Nat \ {0}
        /\ Len(log) \in Nat /\ Len(log') = Len(log) + Len(EventsOf(w))
        /\ \A i \in 1..Len(log) : log'[i] = log[i]
        /\ \A i \in 1..Len(EventsOf(w)) :
              log'[Len(log) + i] = [work |-> w, event |-> EventsOf(w)[i]]
    BY <1>1, CommitGrowsLog
  <1>5. /\ CurrentWork' = w /\ SizeOfWork' = Len(EventsOf(w)) /\ ReadModelSeq' = ReadModelSeq
        /\ ReadModelSeq \in 0..Len(log)
    BY <1>1, <1>3 DEF CurrentWork, SizeOfWork, ReadModelSeq, TypeInv, TypeOK
  <1>6. CursorInv'
    <2>1. \A i \in 1..SizeOfWork' :
              log'[(Len(log') - SizeOfWork') + i] = Entries(CurrentWork')[i]
      <3>1. Len(log') - SizeOfWork' = Len(log)
        BY <1>4, <1>5
      <3>2. \A i \in 1..Len(EventsOf(w)) : Entries(w)[i] = [work |-> w, event |-> EventsOf(w)[i]]
        BY <1>1, EntriesOfWork
      <3>3. \A i \in 1..Len(EventsOf(w)) : log'[Len(log) + i] = Entries(w)[i]
        BY <1>4, <3>2
      <3> QED
        BY <1>5, <3>1, <3>3
    <2>2. ReadModelSeq' + SizeOfWork' <= Len(log')
      BY <1>4, <1>5
    <2>3. worker'.start = ReadModelSeq'
      BY <1>1, <1>3, <1>5 DEF ReplayInv, CursorInv, Reads
    <2>4. /\ commandReadModel' = [seq |-> commandReadModel'.seq, state |-> commandReadModel'.state]
          /\ hydrated' <= ReadModelSeq' /\ phase' # "down"
      BY <1>1, <1>2, <1>5 DEF ReplayInv, CursorInv
    <2> QED
      BY <1>3, <2>1, <2>2, <2>3, <2>4 DEF CursorInv, Entries
  <1>7. DurableInv'
    <2> SUFFICES ASSUME NEW i \in 1..Len(published)
                 PROVE  /\ published[i].seq \in (hydrated + 1)..ReadModelSeq
                        /\ published[i].entry = log'[published[i].seq]
                        /\ i > 1 => published[i - 1].seq < published[i].seq
      BY <1>1, <1>5 DEF DurableInv
    <2>1. /\ published[i].seq \in (hydrated + 1)..ReadModelSeq
          /\ published[i].entry = log[published[i].seq]
          /\ i > 1 => published[i - 1].seq < published[i].seq
      BY <1>2 DEF ReplayInv, DurableInv
    <2>2. hydrated \in Nat
      BY DEF TypeInv, TypeOK
    <2>3. published[i].seq \in 1..Len(log)
      BY <1>4, <1>5, <2>1, <2>2
    <2> QED
      BY <1>4, <2>1, <2>3
  <1>8. ExactInv'
    <2> SUFFICES ASSUME "reconcile" \notin Faults PROVE ExactInv'
      BY DEF ExactInv
    <2>1. /\ hydrated + Len(published) = ReadModelSeq /\ ReadModelSeq = Len(log)
          /\ \A i \in 1..Len(published) : published[i].seq = hydrated + i
      BY <1>1, <1>2 DEF ReplayInv, ExactInv
    <2>2. Len(EventsOf(w)) <= PageSize /\ PageSize \in Nat
      BY <1>1, WorkAssumption, BoundsAssumption
    <2>3. Len(log') <= ReadModelSeq' + PageSize /\ ReadModelSeq' + SizeOfWork' = Len(log')
      BY <1>4, <1>5, <2>1, <2>2
    <2> QED
      BY <1>1, <1>3, <1>5, <2>1, <2>3 DEF ExactInv
  <1>9. FoldInv'
    <2>1. EventsUpTo(ReadModelSeq)' = EventsUpTo(ReadModelSeq)
      BY <1>4, <1>5 DEF EventsUpTo
    <2> QED
      BY <1>1, <1>2, <2>1 DEF ReplayInv, FoldInv
  <1> QED
    BY <1>6, <1>7, <1>8, <1>9 DEF ReplayInv

\* Adopt and Reconcile fold and publish the same events: those of the log that
\* end at last, none of which the read model has.
Publishes(entries, last) ==
    /\ entries \in Seq(Entry) /\ last \in 0..Len(log)
    /\ ReadModelSeq + Len(entries) <= last
    /\ \A i \in 1..Len(entries) : entries[i] = log[(last - Len(entries)) + i]
    /\ LET committed == AssignCommittedSequences(entries, last)
       IN  /\ commandReadModel' = ProjectEvents(commandReadModel, committed)
           /\ published' = published \o committed

\* What comes out of it.
LEMMA PublishedEvents ==
    ASSUME TypeInv, CursorInv, NEW entries, NEW last, Publishes(entries, last)
    PROVE  /\ Len(entries) \in Nat /\ last \in Nat /\ ReadModelSeq \in Nat
           /\ Len(published') = Len(published) + Len(entries)
           /\ \A i \in 1..Len(published) : published'[i] = published[i]
           /\ \A i \in 1..Len(entries) :
                 /\ published'[Len(published) + i].seq = (last - Len(entries)) + i
                 /\ published'[Len(published) + i].entry = log[(last - Len(entries)) + i]
           /\ commandReadModel'
                = [seq |-> commandReadModel'.seq, state |-> commandReadModel'.state]
           /\ Len(entries) > 0 => ReadModelSeq' = last
           /\ Len(entries) = 0 => ReadModelSeq' = ReadModelSeq
           /\ commandReadModel'.state
                = FoldEvents(commandReadModel.state, [i \in 1..Len(entries) |-> entries[i].event])
  <1> DEFINE committed == AssignCommittedSequences(entries, last)
  <1>1. /\ entries \in Seq(Entry) /\ last \in Nat /\ Len(log) \in Nat /\ last <= Len(log)
        /\ ReadModelSeq \in Nat /\ Len(entries) \in Nat /\ Len(entries) <= last
        /\ \A i \in 1..Len(entries) : entries[i] = log[(last - Len(entries)) + i]
        /\ commandReadModel' = ProjectEvents(commandReadModel, committed)
        /\ published' = published \o committed
    BY DEF Publishes, ReadModelSeq, TypeInv, TypeOK
  <1>2. /\ committed \in Seq([seq : 1..Len(log), entry : Entry])
        /\ Len(committed) = Len(entries)
        /\ \A i \in 1..Len(entries) :
              committed[i] = [seq |-> (last - Len(entries)) + i, entry |-> entries[i]]
    BY <1>1, CommittedSequences
  <1> HIDE DEF committed
  <1>3. published \in Seq([seq : 1..Len(log), entry : Entry])
    BY DEF TypeInv, TypeOK
  <1> DEFINE S == [seq : 1..Len(log), entry : Entry]
  <1> HIDE DEF S
  <1>4. /\ Len(published') = Len(published) + Len(entries)
        /\ \A i \in 1..Len(published) : published'[i] = published[i]
        /\ \A i \in 1..Len(entries) : published'[Len(published) + i] = committed[i]
    <2>1. /\ Len(published') = Len(published) + Len(committed)
          /\ \A i \in 1..(Len(published) + Len(committed)) :
                published'[i] = IF i <= Len(published) THEN published[i]
                                ELSE committed[i - Len(published)]
      <3>1. published' = published \o committed
        BY <1>1
      <3>2. committed \in Seq(S) /\ published \in Seq(S)
        BY <1>2, <1>3 DEF S
      <3> QED
        BY <3>1, <3>2, ConcatProperties
    <2>2. Len(published) \in Nat
      BY <1>3
    <2> QED
      BY <1>1, <1>2, <2>1, <2>2
  <1>5. \A i \in 1..Len(entries) :
            /\ published'[Len(published) + i].seq = (last - Len(entries)) + i
            /\ published'[Len(published) + i].entry = log[(last - Len(entries)) + i]
    <2> SUFFICES ASSUME NEW i \in 1..Len(entries)
                 PROVE  /\ published'[Len(published) + i].seq = (last - Len(entries)) + i
                        /\ published'[Len(published) + i].entry = log[(last - Len(entries)) + i]
      OBVIOUS
    <2>1. published'[Len(published) + i] = committed[i]
      BY <1>4
    <2>2. committed[i] = [seq |-> (last - Len(entries)) + i, entry |-> entries[i]]
      BY <1>2
    <2>3. entries[i] = log[(last - Len(entries)) + i]
      BY <1>1
    <2> QED
      BY <2>1, <2>2, <2>3
  <1>6. commandReadModel'.seq = IF committed = <<>> THEN commandReadModel.seq
                                ELSE committed[Len(committed)].seq
    BY <1>1 DEF ProjectEvents
  <1>7. Len(entries) > 0 => ReadModelSeq' = last
    <2> SUFFICES ASSUME Len(entries) > 0 PROVE ReadModelSeq' = last
      OBVIOUS
    <2>1. committed # <<>> /\ Len(entries) \in 1..Len(entries)
      BY <1>1, <1>2
    <2>2. committed[Len(entries)].seq = last
      <3>1. committed[Len(entries)]
              = [seq |-> (last - Len(entries)) + Len(entries), entry |-> entries[Len(entries)]]
        BY <1>2, <2>1
      <3>2. (last - Len(entries)) + Len(entries) = last
        BY <1>1
      <3> QED
        BY <3>1, <3>2
    <2> QED
      BY <1>2, <1>6, <2>1, <2>2 DEF ReadModelSeq
  <1>8. Len(entries) = 0 => ReadModelSeq' = ReadModelSeq
    <2>1. Len(entries) = 0 => committed = <<>>
      BY <1>2
    <2> QED
      BY <1>6, <2>1 DEF ReadModelSeq
  <1>9. commandReadModel'.state
          = FoldEvents(commandReadModel.state, [i \in 1..Len(entries) |-> entries[i].event])
    <2>1. [i \in 1..Len(committed) |-> committed[i].entry.event]
            = [i \in 1..Len(entries) |-> entries[i].event]
      <3>1. \A i \in 1..Len(entries) : committed[i].entry.event = entries[i].event
        <4> SUFFICES ASSUME NEW i \in 1..Len(entries)
                     PROVE  committed[i].entry.event = entries[i].event
          OBVIOUS
        <4>1. committed[i] = [seq |-> (last - Len(entries)) + i, entry |-> entries[i]]
          BY <1>2
        <4> QED
          BY <4>1
      <3>2. Len(committed) = Len(entries)
        BY <1>2
      <3> QED
        BY <3>1, <3>2
    <2>2. commandReadModel'.state
            = FoldEvents(commandReadModel.state, [i \in 1..Len(committed) |-> committed[i].entry.event])
      BY <1>1 DEF ProjectEvents
    <2> QED
      BY <2>1, <2>2
  <1>10. commandReadModel'
           = [seq |-> commandReadModel'.seq, state |-> commandReadModel'.state]
    BY <1>1 DEF ProjectEvents
  <1> QED
    BY <1>1, <1>4, <1>5, <1>7, <1>8, <1>9, <1>10

\* A step that publishes so much that nothing is left keeps the invariant.
LEMMA ReplayInvPublishes ==
    ASSUME TypeInv, ReplayInv, NEW entries, NEW last, Publishes(entries, last),
           UNCHANGED <<log, phase, hydrated>>, phase # "down",
           worker'.at \in {"record", "answer"},
           "reconcile" \notin Faults =>
               /\ ReadModelSeq + Len(entries) = last /\ last = Len(log)
    PROVE  ReplayInv'
  <1>1. /\ Len(entries) \in Nat /\ last \in Nat /\ ReadModelSeq \in Nat
        /\ Len(published') = Len(published) + Len(entries)
        /\ \A i \in 1..Len(published) : published'[i] = published[i]
        /\ \A i \in 1..Len(entries) :
              /\ published'[Len(published) + i].seq = (last - Len(entries)) + i
              /\ published'[Len(published) + i].entry = log[(last - Len(entries)) + i]
        /\ commandReadModel'
             = [seq |-> commandReadModel'.seq, state |-> commandReadModel'.state]
        /\ Len(entries) > 0 => ReadModelSeq' = last
        /\ Len(entries) = 0 => ReadModelSeq' = ReadModelSeq
        /\ commandReadModel'.state
             = FoldEvents(commandReadModel.state, [i \in 1..Len(entries) |-> entries[i].event])
    BY PublishedEvents, Zenon DEF ReplayInv
  <1>2. /\ ReadModelSeq + Len(entries) <= last /\ last <= Len(log) /\ Len(log) \in Nat
        /\ \A i \in 1..Len(entries) : entries[i] = log[(last - Len(entries)) + i]
        /\ hydrated \in Nat /\ hydrated <= ReadModelSeq /\ Len(published) \in Nat
    BY DEF Publishes, TypeInv, TypeOK, ReplayInv, CursorInv
  <1>3. ReadModelSeq' \in Nat /\ ReadModelSeq <= ReadModelSeq' /\ ReadModelSeq' <= Len(log)
    BY <1>1, <1>2 DEF ReadModelSeq, TypeInv, TypeOK
  <1>4. CursorInv'
    BY <1>1, <1>2, <1>3 DEF ReplayInv, CursorInv, Reads
  <1>5. DurableInv'
    <2> SUFFICES ASSUME NEW i \in 1..Len(published')
                 PROVE  /\ published'[i].seq \in (hydrated + 1)..ReadModelSeq'
                        /\ published'[i].entry = log[published'[i].seq]
                        /\ i > 1 => published'[i - 1].seq < published'[i].seq
      BY DEF DurableInv
    <2>1. \A j \in 1..Len(published) :
              /\ published[j].seq \in (hydrated + 1)..ReadModelSeq
              /\ published[j].entry = log[published[j].seq]
              /\ j > 1 => published[j - 1].seq < published[j].seq
      BY DEF ReplayInv, DurableInv
    <2>2. CASE i <= Len(published)
      <3>1. published'[i] = published[i] /\ (i > 1 => published'[i - 1] = published[i - 1])
        BY <1>1, <1>2, <2>2
      <3>2. i \in 1..Len(published)
        BY <1>2, <2>2
      <3> QED
        BY SMTT(30), <1>1, <1>2, <1>3, <2>1, <3>1, <3>2
    <2>3. CASE i > Len(published)
      <3> DEFINE k == i - Len(published)
      <3>1. k \in 1..Len(entries) /\ i = Len(published) + k
        BY <1>1, <1>2, <2>3
      <3>2. /\ published'[i].seq = (last - Len(entries)) + k
            /\ published'[i].entry = log[(last - Len(entries)) + k]
        BY <1>1, <3>1
      <3>3. ReadModelSeq' = last
        BY <1>1, <3>1
      <3>4. i > 1 => published'[i - 1].seq < published'[i].seq
        <4>1. CASE k > 1
          <5>1. k - 1 \in 1..Len(entries) /\ i - 1 = Len(published) + (k - 1)
            BY <1>1, <3>1, <4>1
          <5>2. published'[i - 1].seq = (last - Len(entries)) + (k - 1)
            BY <1>1, <5>1
          <5> QED
            BY <1>1, <3>1, <3>2, <5>2
        <4>2. CASE k = 1 /\ i > 1
          <5>1. i - 1 \in 1..Len(published)
            BY <1>2, <3>1, <4>2
          <5>2. published'[i - 1].seq <= ReadModelSeq /\ published'[i - 1].seq \in Int
            BY <1>1, <1>2, <2>1, <5>1
          <5> QED
            BY <1>1, <1>2, <3>2, <4>2, <5>2
        <4> QED
          BY <3>1, <4>1, <4>2
      <3> QED
        BY SMTT(30), <1>1, <1>2, <3>1, <3>2, <3>3, <3>4
    <2> QED
      BY <1>2, <2>2, <2>3
  <1>6. ExactInv'
    <2> SUFFICES ASSUME "reconcile" \notin Faults PROVE ExactInv'
      BY DEF ExactInv
    <2>1. /\ hydrated + Len(published) = ReadModelSeq
          /\ \A i \in 1..Len(published) : published[i].seq = hydrated + i
      BY DEF ReplayInv, ExactInv
    <2>2. ReadModelSeq + Len(entries) = last /\ last = Len(log)
      OBVIOUS
    <2>3. ReadModelSeq' = Len(log) /\ hydrated + Len(published') = ReadModelSeq'
      BY <1>1, <1>2, <2>1, <2>2
    <2>4. ASSUME NEW i \in 1..Len(published') PROVE published'[i].seq = hydrated + i
      <3>1. CASE i <= Len(published)
        BY <1>1, <1>2, <2>1, <3>1
      <3>2. CASE i > Len(published)
        <4>1. i - Len(published) \in 1..Len(entries) /\ i = Len(published) + (i - Len(published))
          BY <1>1, <1>2, <3>2
        <4>2. published'[i].seq = (last - Len(entries)) + (i - Len(published))
          BY <1>1, <4>1
        <4>3. last - Len(entries) = hydrated + Len(published)
          <5>1. Len(entries) \in Nat /\ last \in Nat /\ ReadModelSeq \in Nat
            BY <1>1
          <5>2. hydrated + Len(published) = ReadModelSeq
            BY <2>1
          <5> QED
            BY <2>2, <5>1, <5>2
        <4>4. i \in Int /\ Len(published) \in Int /\ hydrated \in Int
          BY <1>1, <1>2
        <4> QED
          BY <4>2, <4>3, <4>4
      <3> QED
        BY <1>2, <3>1, <3>2
    <2> QED
      BY <2>3, <2>4 DEF ExactInv
  <1>7. FoldInv'
    <2> SUFFICES ASSUME "reconcile" \notin Faults
                 PROVE  commandReadModel'.state = FoldEvents(EmptyState, EventsUpTo(ReadModelSeq'))
      BY DEF FoldInv, EventsUpTo
    <2> DEFINE a == EventsUpTo(ReadModelSeq)
               b == [i \in 1..Len(entries) |-> entries[i].event]
               c == EventsUpTo(ReadModelSeq')
    <2>1. commandReadModel.state = FoldEvents(EmptyState, a)
      BY DEF ReplayInv, FoldInv
    <2>2. ReadModelSeq' = ReadModelSeq + Len(entries) /\ last - Len(entries) = ReadModelSeq
      BY <1>1, <1>2
    <2>3. Len(a) = ReadModelSeq /\ Len(b) = Len(entries) /\ Len(c) = ReadModelSeq'
      BY <1>1, <1>3 DEF EventsUpTo
    <2>4. \A n \in 1..Len(a) : a[n] = c[n]
      BY <1>1, <1>3, <2>3 DEF EventsUpTo
    <2>5. \A n \in 1..Len(b) : b[n] = c[Len(a) + n]
      <3> SUFFICES ASSUME NEW n \in 1..Len(b) PROVE b[n] = c[Len(a) + n]
        OBVIOUS
      <3>1. n \in 1..Len(entries) /\ Len(a) + n \in 1..ReadModelSeq'
        BY <1>1, <2>2, <2>3
      <3>2. entries[n] = log[ReadModelSeq + n]
        BY <1>2, <2>2, <3>1
      <3>3. b[n] = entries[n].event /\ c[Len(a) + n] = log[Len(a) + n].event
        BY <3>1 DEF EventsUpTo
      <3> QED
        BY <2>3, <3>2, <3>3
    <2>6. Len(a) \in Nat /\ Len(b) \in Nat /\ Len(c) = Len(a) + Len(b)
      BY <1>1, <1>3, <2>2, <2>3
    <2> HIDE DEF a, b, c
    <2>7. FoldEvents(FoldEvents(EmptyState, a), b) = FoldEvents(EmptyState, c)
      BY <2>4, <2>5, <2>6, FoldInTwoParts
    <2>8. commandReadModel'.state = FoldEvents(commandReadModel.state, b)
      BY <1>1 DEF b
    <2> QED
      BY <2>1, <2>7, <2>8 DEF c
  <1> QED
    BY <1>4, <1>5, <1>6, <1>7 DEF ReplayInv

\* Adopting the work just committed, whose events end the log.
LEMMA ReplayInvAdopt == TypeInv /\ ReplayInv /\ Adopt => ReplayInv'
  <1> SUFFICES ASSUME TypeInv, ReplayInv, Adopt PROVE ReplayInv'
    OBVIOUS
  <1> DEFINE entries == Entries(CurrentWork)
  <1>1. /\ worker.at = "adopt" /\ worker.seq = Len(log) /\ Len(log) \in Nat
        /\ CurrentWork \in Work /\ worker \in WorkerState
    BY CurrentWorkTyped DEF Adopt, TypeInv, TypeOK, WorkerOK
  <1>2. /\ entries \in Seq(Entry) /\ Len(entries) = SizeOfWork
        /\ ReadModelSeq + SizeOfWork <= Len(log)
        /\ \A i \in 1..SizeOfWork : log[(Len(log) - SizeOfWork) + i] = entries[i]
    BY <1>1, EntriesOfWork DEF ReplayInv, CursorInv, SizeOfWork
  <1>3. /\ commandReadModel'
             = ProjectEvents(commandReadModel, AssignCommittedSequences(entries, Len(log)))
        /\ published' = published \o AssignCommittedSequences(entries, Len(log))
    BY <1>1 DEF Adopt
  <1> HIDE DEF entries
  <1>4. Publishes(entries, Len(log))
    BY <1>1, <1>2, <1>3 DEF Publishes
  <1>5. /\ UNCHANGED <<log, phase, hydrated>> /\ worker'.at = "answer" /\ phase # "down"
    BY <1>1 DEF Adopt, Goto, WorkerState, durable, ReplayInv, CursorInv
  <1>6. "reconcile" \notin Faults => ReadModelSeq + Len(entries) = Len(log)
    BY <1>1, <1>2, <1>5 DEF ReplayInv, ExactInv
  <1> QED
    BY <1>4, <1>5, <1>6, ReplayInvPublishes

\* Reconciling reads on from the cursor of the envelope, which is where the read
\* model stands; a page holds all that the envelope can have committed.
LEMMA ReplayInvReconcile == TypeInv /\ ReplayInv /\ Reconcile => ReplayInv'
  <1> SUFFICES ASSUME TypeInv, ReplayInv, Reconcile PROVE ReplayInv'
    OBVIOUS
  <1>1. CASE worker.outcome = "refused"
    BY <1>1, QuietOthers, ReplayInvQuiet
  <1>2. CASE worker.outcome # "refused"
    <2> DEFINE page == ReadFrom(worker.start)
               last == worker.start + Len(page)
    <2>1. /\ worker.at = "failed" /\ worker \in WorkerState /\ log \in Seq(Entry)
          /\ phase # "down" /\ worker.start = ReadModelSeq /\ ReadModelSeq \in 0..Len(log)
          /\ Len(log) \in Nat
      BY DEF Reconcile, TypeInv, TypeOK, ReplayInv, CursorInv, Reads, ReadModelSeq
    <2>2. /\ page \in Seq(Entry) /\ Len(page) \in Nat /\ worker.start + Len(page) <= Len(log)
          /\ \A i \in 1..Len(page) : page[i] = log[worker.start + i]
      BY <2>1, PageOfLog
    <2>3. /\ commandReadModel'
               = ProjectEvents(commandReadModel, AssignCommittedSequences(page, last))
          /\ published' = published \o AssignCommittedSequences(page, last)
      BY <1>2 DEF Reconcile
    <2>4. "reconcile" \notin Faults => last = Len(log)
      <3> SUFFICES ASSUME "reconcile" \notin Faults PROVE last = Len(log)
        OBVIOUS
      <3>1. Len(log) <= ReadModelSeq + PageSize /\ PageSize \in Nat
        BY <2>1, BoundsAssumption DEF ReplayInv, ExactInv
      <3>2. page = SubSeq(log, worker.start + 1, Len(log))
        BY <2>1, <3>1 DEF ReadFrom
      <3>3. Len(page) = Len(log) - worker.start
        BY <2>1, <3>2
      <3> QED
        BY <2>1, <3>3
    <2> HIDE DEF page
    <2>5. Publishes(page, last)
      <3>1. last \in 0..Len(log) /\ ReadModelSeq + Len(page) <= last /\ last - Len(page) = worker.start
        BY <2>1, <2>2
      <3> QED
        BY <2>2, <2>3, <3>1 DEF Publishes
    <2>6. UNCHANGED <<log, phase, hydrated>> /\ worker'.at \in {"record", "answer"}
      BY <2>1 DEF Reconcile, Goto, AfterReconcile, WorkerState, durable
    <2>7. ReadModelSeq + Len(page) = last
      BY <2>1
    <2> HIDE DEF last
    <2> QED
      BY <2>1, <2>4, <2>5, <2>6, <2>7, ReplayInvPublishes
  <1> QED
    BY <1>1, <1>2

\* Every step keeps the invariant.
LEMMA ReplayInvStep == TypeInv /\ ReplayInv /\ [Next]_vars => ReplayInv'
  <1> SUFFICES ASSUME TypeInv, ReplayInv, [Next]_vars PROVE ReplayInv'
    OBVIOUS
  <1>1. CASE Boot \/ FinishShutdown \/ Crash
    BY <1>1, ReplayInvBoot, ReplayInvStops
  <1>2. CASE (\E w \in Work : Dispatch(w)) \/ (\E t \in DOMAIN calls : Abandon(t))
    BY <1>2, QuietCalls, ReplayInvQuiet
  <1>3. CASE WorkerStep
    <2>1. CASE Commit \/ CommitAckLost
      BY <2>1, ReplayInvCommit
    <2>2. CASE Adopt \/ Reconcile
      BY <2>2, ReplayInvAdopt, ReplayInvReconcile
    <2>3. CASE ReconcileFails
      BY <2>3, QuietOthers, ReplayInvQuiet
    <2>4. CASE \/ Take \/ Lookup \/ LookupFails \/ DecideCommand \/ IdentityFails
               \/ CommitRollsBack \/ RecordRejection \/ RecordFails \/ Answer
      BY <2>4, QuietWorker, ReplayInvQuiet
    <2> QED
      BY <1>3, <2>1, <2>2, <2>3, <2>4 DEF WorkerStep
  <1>4. CASE BeginShutdown \/ UNCHANGED vars
    BY <1>4, QuietOthers, ReplayInvQuiet
  <1> QED
    BY <1>1, <1>2, <1>3, <1>4 DEF Next

-----------------------------------------------------------------------------
(* The theorems *)

\* Even when a reconcile is lost nothing is published that is not durable, under
\* another sequence than its own, twice, or out of order.
THEOREM SubscribersSeeDurableEvents == Spec => []PublishedIsDurable
  <1>1. TypeInv /\ ReplayInv => PublishedIsDurable
    <2> SUFFICES ASSUME TypeInv, ReplayInv, phase # "down", NEW i \in 1..Len(published)
                 PROVE  /\ published[i].seq \in (hydrated + 1)..Len(log)
                        /\ published[i].entry = log[published[i].seq]
                        /\ i > 1 => published[i - 1].seq < published[i].seq
      BY DEF PublishedIsDurable
    <2>1. /\ ReadModelSeq \in 0..Len(log) /\ Len(log) \in Nat /\ hydrated \in Nat
      BY DEF TypeInv, TypeOK, ReadModelSeq
    <2>2. /\ published[i].seq \in (hydrated + 1)..ReadModelSeq
          /\ published[i].entry = log[published[i].seq]
          /\ i > 1 => published[i - 1].seq < published[i].seq
      BY DEF ReplayInv, DurableInv
    <2> QED
      BY <2>1, <2>2
  <1> QED
    BY <1>1, TypeInvInit, TypeInvStep, ReplayInvInit, ReplayInvStep, PTL DEF Spec

\* With no reconcile lost subscribers see the log since boot, in order and
\* without a gap, and all of it once the worker settles.
THEOREM SubscribersSeeTheLog == Spec => []PublishedIsLog
  <1>1. TypeInv /\ ReplayInv => PublishedIsLog
    <2> SUFFICES ASSUME TypeInv, ReplayInv, phase # "down", "reconcile" \notin Faults
                 PROVE  /\ hydrated + Len(published) <= Len(log)
                        /\ \A i \in 1..Len(published) :
                              published[i] = [seq |-> hydrated + i, entry |-> log[hydrated + i]]
                        /\ Settled => hydrated + Len(published) = Len(log)
      BY DEF PublishedIsLog
    <2>1. /\ ReadModelSeq \in 0..Len(log) /\ Len(log) \in Nat /\ hydrated \in Nat
          /\ published \in Seq([seq : 1..Len(log), entry : Entry])
      BY DEF TypeInv, TypeOK, ReadModelSeq
    <2>2. /\ hydrated + Len(published) = ReadModelSeq
          /\ \A i \in 1..Len(published) : published[i].seq = hydrated + i
          /\ worker.at \notin {"adopt", "failed"} => ReadModelSeq = Len(log)
      BY DEF ReplayInv, ExactInv
    <2>3. ASSUME NEW i \in 1..Len(published)
          PROVE  published[i] = [seq |-> hydrated + i, entry |-> log[hydrated + i]]
      <3> DEFINE S == [seq : 1..Len(log), entry : Entry]
      <3>0. published \in Seq(S)
        BY <2>1
      <3>1. published[i] \in S
        <4> HIDE DEF S
        <4> QED  BY <3>0, ElementOfSeq
      <3>2. published[i] = [seq |-> published[i].seq, entry |-> published[i].entry]
        BY <3>1
      <3>3. published[i].seq = hydrated + i /\ published[i].entry = log[published[i].seq]
        BY <2>2 DEF ReplayInv, DurableInv
      <3> QED
        BY <3>2, <3>3
    <2> QED
      BY <2>1, <2>2, <2>3 DEF Settled
  <1> QED
    BY <1>1, TypeInvInit, TypeInvStep, ReplayInvInit, ReplayInvStep, PTL DEF Spec

\* With no reconcile lost, and past any crash, the state a command is decided on
\* is the fold of everything durable.
THEOREM DecisionsSeeTheLog == Spec => []ReadModelIsReplay
  <1>1. TypeInv /\ ReplayInv => ReadModelIsReplay
    <2> SUFFICES ASSUME TypeInv, ReplayInv, "reconcile" \notin Faults, Settled
                 PROVE  commandReadModel = [seq |-> Len(log), state |-> Replay(log)]
      BY DEF ReadModelIsReplay
    <2>1. commandReadModel.seq = Len(log)
      BY DEF ReplayInv, ExactInv, Settled, ReadModelSeq
    <2>2. commandReadModel.state = FoldEvents(EmptyState, [i \in 1..Len(log) |-> log[i].event])
      BY <2>1 DEF ReplayInv, FoldInv, Settled, EventsUpTo, ReadModelSeq
    <2>3. commandReadModel.state = Replay(log)
      BY <2>2 DEF Replay
    <2>4. commandReadModel = [seq |-> commandReadModel.seq, state |-> commandReadModel.state]
      BY DEF ReplayInv, CursorInv
    <2> QED
      BY <2>1, <2>3, <2>4
  <1> QED
    BY <1>1, TypeInvInit, TypeInvStep, ReplayInvInit, ReplayInvStep, PTL DEF Spec
===============================================================================

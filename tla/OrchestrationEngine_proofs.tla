--------------------- MODULE OrchestrationEngine_proofs ---------------------
(***************************************************************************)
(* Theorems about OrchestrationEngine, for any commands, batches, decider, *)
(* projector and bounds that meet its assumptions.                         *)
(***************************************************************************)
EXTENDS OrchestrationEngine, SequenceTheorems, TLAPS

-----------------------------------------------------------------------------
(* The log and what is cut from it *)

\* A stretch of a sequence is the same stretch of any longer one it begins.
LEMMA SubSeqOfLonger ==
    ASSUME NEW S, NEW s \in Seq(S), NEW t \in Seq(S), Len(s) <= Len(t),
           \A i \in 1..Len(s) : t[i] = s[i],
           NEW size \in Nat, NEW last \in Nat, size <= last, last <= Len(s)
    PROVE  SubSeq(t, (last - size) + 1, last) = SubSeq(s, (last - size) + 1, last)
  <1> DEFINE first == (last - size) + 1
  <1>1. /\ Len(s) \in Nat /\ Len(t) \in Nat
        /\ first \in 1..(Len(s) + 1) /\ (last - first) + 1 = size
    OBVIOUS
  <1>2. \A i \in 1..size : t[(first + i) - 1] = s[(first + i) - 1]
    BY <1>1
  <1>3. SubSeq(s, first, last) = [i \in 1..size |-> s[(first + i) - 1]]
    BY <1>1
  <1>4. SubSeq(t, first, last) = [i \in 1..size |-> t[(first + i) - 1]]
    BY <1>1
  <1> QED
    BY <1>2, <1>3, <1>4

\* The last element of a stretch of a sequence.
LEMMA SubSeqLast ==
    ASSUME NEW S, NEW s \in Seq(S), NEW size \in Nat \ {0}, NEW last \in Nat,
           size <= last, last <= Len(s)
    PROVE  SubSeq(s, (last - size) + 1, last)[size] = s[last]
  <1> DEFINE first == (last - size) + 1
  <1>1. first \in Int /\ last \in Int /\ size \in 1..((last - first) + 1)
        /\ (first + size) - 1 = last /\ \A i \in first..last : s[i] \in S
    OBVIOUS
  <1>2. SubSeq(s, first, last)[size] = s[(first + size) - 1]
    BY <1>1, SubSeqProperties
  <1> QED
    BY <1>1, <1>2

\* The events of a command or a batch are numbered from one.
LEMMA EventsAreSequences ==
    ASSUME NEW w \in Work
    PROVE  /\ Len(EventsOf(w)) \in Nat
           /\ DOMAIN EventsOf(w) = 1..Len(EventsOf(w))
           /\ EventsOf(w) # <<>> <=> Len(EventsOf(w)) > 0
  BY WorkAssumption DEF Work

\* The entries of a unit of work: its events in order, each with its work.
LEMMA EntriesOfWork ==
    ASSUME NEW w \in Work
    PROVE  /\ Entries(w) \in Seq(Entry)
           /\ Len(Entries(w)) = Len(EventsOf(w))
           /\ \A i \in 1..Len(EventsOf(w)) :
                 Entries(w)[i] = [work |-> w, event |-> EventsOf(w)[i]]
  <1>1. Len(EventsOf(w)) \in Nat
    BY EventsAreSequences
  <1>2. \A i \in 1..Len(EventsOf(w)) : Entries(w)[i] \in Entry
    BY <1>1 DEF Entry
  <1> QED
    BY <1>1, <1>2 DEF Entries

\* An entry of the log carries the work it came from.
LEMMA EntryNamesItsWork ==
    ASSUME NEW e \in Entry
    PROVE  e.work \in Work
  <1>1. PICK w \in Work : e \in {Entries(w)[i] : i \in 1..Len(EventsOf(w))}
    BY DEF Entry
  <1>2. PICK i \in 1..Len(EventsOf(w)) : e = Entries(w)[i]
    BY <1>1
  <1>3. e = [work |-> w, event |-> EventsOf(w)[i]]
    BY <1>2, EntriesOfWork
  <1> QED
    BY <1>3

\* The committed form of entries: same order, consecutive sequences.
LEMMA CommittedSequences ==
    ASSUME NEW entries \in Seq(Entry), NEW last \in Nat, Len(entries) <= last,
           NEW bound \in Nat, last <= bound
    PROVE  LET committed == AssignCommittedSequences(entries, last)
           IN  /\ committed \in Seq([seq : 1..bound, entry : Entry])
               /\ Len(committed) = Len(entries)
               /\ \A i \in 1..Len(entries) :
                     committed[i] = [seq |-> (last - Len(entries)) + i, entry |-> entries[i]]
  <1> DEFINE committed == AssignCommittedSequences(entries, last)
  <1>1. Len(entries) \in Nat
    OBVIOUS
  <1>2. \A i \in 1..Len(entries) :
            /\ (last - Len(entries)) + i \in 1..bound
            /\ entries[i] \in Entry
    BY <1>1
  <1>3. committed = [i \in 1..Len(entries) |->
                        [seq |-> (last - Len(entries)) + i, entry |-> entries[i]]]
    BY DEF AssignCommittedSequences
  <1> QED
    BY <1>1, <1>2, <1>3

\* A page of the log: the entries after from, at most PageSize of them.
LEMMA PageOfLog ==
    ASSUME NEW from \in 0..Len(log), log \in Seq(Entry)
    PROVE  /\ ReadFrom(from) \in Seq(Entry) /\ Len(ReadFrom(from)) \in Nat
           /\ from + Len(ReadFrom(from)) <= Len(log)
           /\ \A i \in 1..Len(ReadFrom(from)) : ReadFrom(from)[i] = log[from + i]
  <1> DEFINE to == IF from + PageSize < Len(log) THEN from + PageSize ELSE Len(log)
  <1>1. /\ PageSize \in Nat /\ Len(log) \in Nat
        /\ to \in from..Len(log)
    BY BoundsAssumption
  <1>2. ReadFrom(from) = [i \in 1..(to - from) |-> log[from + i]]
    BY <1>1 DEF ReadFrom
  <1>3. \A i \in 1..(to - from) : log[from + i] \in Entry
    BY <1>1
  <1> QED
    BY <1>1, <1>2, <1>3

-----------------------------------------------------------------------------
(* Type correctness *)

\* What the worker holds at each point of processEnvelope.
WorkerOK ==
    /\ worker.at \in {"lookup", "decide", "record"} => CurrentWork \in Commands
    /\ worker.at = "failed" =>
          /\ worker.outcome \in {"failed", "rejected", "refused"}
          /\ worker.outcome # "failed" => CurrentWork \in Commands
    /\ worker.at \in {"commit", "adopt"} => EventsOf(CurrentWork) # <<>>
    /\ worker.at = "adopt" =>
          /\ worker.outcome = "accepted"
          /\ worker.seq = Len(log)
          /\ Len(EventsOf(CurrentWork)) <= Len(log)
    /\ worker.at \in {"record", "answer"} => worker.outcome \in CallOutcomes

TypeInv == TypeOK /\ WorkerOK

\* A sequence over a set is one over any larger set.
LEMMA SeqOfMore ==
    ASSUME NEW S, NEW T, S \subseteq T, NEW q \in Seq(S)
    PROVE  q \in Seq(T)
  OBVIOUS

\* Moving the worker on, and settling a call, stay in their types.
LEMMA WorkerMoves ==
    ASSUME worker \in WorkerState, NEW at \in WorkerPoints,
           NEW outcome \in CallOutcomes, NEW seq \in 0..Len(log)
    PROVE  /\ [worker EXCEPT !.at = at] \in WorkerState
           /\ [worker EXCEPT !.at = at, !.outcome = outcome, !.seq = seq] \in WorkerState
  BY DEF WorkerState

\* Changing the outcome of one call leaves a sequence of calls.
LEMMA CallUpdate ==
    ASSUME NEW call \in Call, NEW outcome, NEW seq
    PROVE  [call EXCEPT !.outcome = outcome, !.seq = seq]
              = [work |-> call.work, outcome |-> outcome, seq |-> seq]
  <1> DEFINE updated == [call EXCEPT !.outcome = outcome, !.seq = seq]
  <1>1. DOMAIN call = {"work", "outcome", "seq"}
    BY DEF Call
  <1>2. updated = [f \in {"work", "outcome", "seq"} |-> updated[f]]
    BY <1>1
  <1>3. updated.work = call.work /\ updated.outcome = outcome /\ updated.seq = seq
    BY <1>1
  <1> HIDE DEF updated
  <1>4. updated = [work |-> call.work, outcome |-> outcome, seq |-> seq]
    BY <1>2, <1>3
  <1> QED
    BY <1>4 DEF updated

\* So does answering one call (Deferred.done).
LEMMA CallSettles ==
    ASSUME calls \in Seq(Call), NEW t \in 1..Len(calls),
           NEW outcome \in CallOutcomes, NEW seq \in Nat,
           calls' = [calls EXCEPT ![t] = [work |-> calls[t].work, outcome |-> outcome, seq |-> seq]]
    PROVE  /\ calls' \in Seq(Call)
           /\ Len(calls') = Len(calls)
           /\ \A u \in 1..Len(calls) : calls'[u].work = calls[u].work
  <1>1. calls[t] \in Call
    OBVIOUS
  <1>2. [work |-> calls[t].work, outcome |-> outcome, seq |-> seq] \in Call
    BY <1>1 DEF Call
  <1> QED
    BY <1>2

\* The type invariant holds at the start.
LEMMA TypeInvInit == Init => TypeInv
  <1> SUFFICES ASSUME Init PROVE TypeInv
    OBVIOUS
  <1>1. log \in Seq(Entry) /\ Len(log) = 0
    BY DEF Init
  <1>2. calls \in Seq(Call) /\ Len(calls) = 0
    BY DEF Init
  <1>3. receipts \in [Commands -> Receipt(Len(log))]
    BY DEF Init, Receipt
  <1>4. worker \in WorkerState
    BY <1>1, <1>2 DEF Init, WorkerState, IdleWorker, WorkerPoints
  <1>5. commandQueue \in Seq(1..Len(calls)) /\ published \in Seq([seq : 1..Len(log), entry : Entry])
    BY DEF Init
  <1>6. TypeOK
    BY <1>1, <1>2, <1>3, <1>4, <1>5, BoundsAssumption DEF Init, TypeOK, EmptyModel, IdleWorker
  <1> QED
    BY <1>6 DEF Init, TypeInv, WorkerOK, IdleWorker

\* hydrateReadModel keeps the type invariant.
LEMMA TypeInvBoot == TypeInv /\ Boot => TypeInv'
  BY DEF TypeInv, TypeOK, WorkerOK, WorkerState, CurrentWork, Boot, durable, environment

\* dispatch and Abandon change calls; no ticket changes its work.
LEMMA TypeInvDispatch ==
    ASSUME NEW w \in Work, TypeInv, Dispatch(w) PROVE TypeInv'
  <1> DEFINE call(outcome) == [work |-> w, outcome |-> outcome, seq |-> 0]
  <1>1. PICK outcome \in {"waiting", "shutdown"} : calls' = Append(calls, call(outcome))
    BY DEF Dispatch
  <1>2. calls \in Seq(Call) /\ call(outcome) \in Call
    BY DEF TypeInv, TypeOK, Call, CallOutcomes
  <1>3. /\ calls' \in Seq(Call)
        /\ Len(calls) \in Nat /\ Len(calls') = Len(calls) + 1
        /\ \A t \in 1..Len(calls) : calls'[t] = calls[t]
    BY <1>1, <1>2
  <1>4. commandQueue \in Seq(1..Len(calls'))
    BY <1>3, SeqOfMore DEF TypeInv, TypeOK
  <1>5. commandQueue' \in Seq(1..Len(calls'))
    <2>1. commandQueue' = commandQueue \/ commandQueue' = Append(commandQueue, Len(calls) + 1)
      BY DEF Dispatch
    <2> QED
      BY <1>3, <1>4, <2>1
  <1>6. /\ worker' = worker
        /\ worker' \in WorkerState'
    BY <1>3 DEF TypeInv, TypeOK, Dispatch, WorkerState, durable
  <1>7. TypeOK'
    BY <1>3, <1>5, <1>6 DEF TypeInv, TypeOK, Dispatch, durable, environment
  <1>8. worker.at # "idle" => worker.ticket \in 1..Len(calls)
    BY <1>3 DEF TypeInv, TypeOK, WorkerState
  <1>9. worker.at # "idle" => CurrentWork' = CurrentWork
    BY <1>3, <1>6, <1>8 DEF CurrentWork
  <1> QED
    BY <1>6, <1>7, <1>9 DEF TypeInv, WorkerOK, Dispatch, durable

\* So does the interruption of a caller.
LEMMA TypeInvAbandon ==
    ASSUME NEW t \in DOMAIN calls, TypeInv, Abandon(t) PROVE TypeInv'
  <1>1. /\ calls \in Seq(Call)
        /\ calls' = [calls EXCEPT ![t].outcome = "lost"]
    BY DEF TypeInv, TypeOK, Abandon
  <1>2. /\ calls' \in Seq(Call) /\ Len(calls') = Len(calls)
        /\ \A u \in 1..Len(calls) : calls'[u].work = calls[u].work
    <2>1. calls[t] \in Call /\ t \in 1..Len(calls)
      BY <1>1
    <2>2. [calls[t] EXCEPT !.outcome = "lost"]
              = [work |-> calls[t].work, outcome |-> "lost", seq |-> calls[t].seq]
      BY <2>1 DEF Call
    <2> QED
      BY <1>1, <2>1, <2>2, CallSettles DEF Call, CallOutcomes
  <1>3. TypeOK'
    BY <1>2 DEF TypeInv, TypeOK, Abandon, durable, environment, WorkerState
  <1>4. worker.at # "idle" => worker.ticket \in 1..Len(calls)
    BY <1>1 DEF TypeInv, TypeOK, WorkerState
  <1> QED
    BY <1>2, <1>3, <1>4 DEF TypeInv, WorkerOK, CurrentWork, Abandon, durable

\* The worker takes the first ticket of the queue, and the queue holds made calls only.
LEMMA TypeInvTake == TypeInv /\ Take => TypeInv'
  <1> SUFFICES ASSUME TypeInv, Take PROVE TypeInv'
    OBVIOUS
  <1>1. /\ Head(commandQueue) \in 1..Len(calls)
        /\ commandQueue' \in Seq(1..Len(calls))
        /\ Len(calls) \in Nat
    BY DEF TypeInv, TypeOK, Take
  <1>2. calls[Head(commandQueue)] \in Call
    BY <1>1 DEF TypeInv, TypeOK
  <1>3. worker' \in WorkerState'
    BY <1>1 DEF TypeInv, TypeOK, Take, WorkerPoints, WorkerState, durable
  <1>4. TypeOK'
    BY <1>1, <1>3 DEF TypeInv, TypeOK, Take, durable, environment
  <1>5. CurrentWork' = calls[Head(commandQueue)].work
    BY DEF Take, CurrentWork
  <1>6. WorkerOK'
    BY <1>2, <1>5, WorkAssumption DEF WorkerOK, Take, Work, Call
  <1> QED
    BY <1>4, <1>6 DEF TypeInv

\* The steps that only move the worker on, and perhaps count a fault.
LEMMA OnlyWorkerMoves ==
    ASSUME TypeInv, worker' \in WorkerState, worker'.at # "idle" => worker'.ticket # 0,
           UNCHANGED <<log, receipts, phase, commandReadModel, hydrated, commandQueue,
                       published, calls>>,
           UNCHANGED environment \/ \E point \in FaultPoints : Fault(point)
    PROVE  TypeOK'
  <1>1. faults' \in 0..MaxFaults /\ crashes' \in 0..MaxCrashes
    BY BoundsAssumption DEF TypeInv, TypeOK, Fault, environment
  <1> QED
    BY <1>1 DEF TypeInv, TypeOK, WorkerState

\* receipts.replay answers with a stored sequence, which exists.
LEMMA TypeInvLookup == TypeInv /\ Lookup => TypeInv'
  <1> SUFFICES ASSUME TypeInv, Lookup PROVE TypeInv'
    OBVIOUS
  <1>1. receipts[CurrentWork] \in Receipt(Len(log))
    BY DEF TypeInv, TypeOK, WorkerOK, Lookup
  <1>2. receipts[CurrentWork].status = "accepted" => receipts[CurrentWork].seq \in 0..Len(log)
    BY <1>1 DEF Receipt, Undecided, Rejected, AcceptedAt
  <1>3. \/ worker' = [worker EXCEPT !.at = "decide"]
        \/ worker' = [worker EXCEPT !.at = "failed", !.outcome = "refused", !.seq = 0]
        \/ /\ receipts[CurrentWork].status = "accepted"
           /\ worker' = [worker EXCEPT !.at = "answer", !.outcome = "accepted",
                                       !.seq = receipts[CurrentWork].seq]
    BY DEF Lookup, Goto, Finish
  <1>4. worker' \in WorkerState
    <2>1. /\ worker \in WorkerState /\ 0 \in 0..Len(log)
          /\ {"decide", "failed", "answer"} \subseteq WorkerPoints
          /\ {"refused", "accepted"} \subseteq CallOutcomes
      BY DEF TypeInv, TypeOK, WorkerPoints, CallOutcomes
    <2>2. /\ [worker EXCEPT !.at = "decide"] \in WorkerState
          /\ [worker EXCEPT !.at = "failed", !.outcome = "refused", !.seq = 0] \in WorkerState
      BY <2>1, WorkerMoves
    <2>3. receipts[CurrentWork].status = "accepted" =>
              [worker EXCEPT !.at = "answer", !.outcome = "accepted",
                             !.seq = receipts[CurrentWork].seq] \in WorkerState
      BY <1>2, <2>1, WorkerMoves
    <2> QED
      BY <1>3, <2>2, <2>3
  <1>5. TypeOK'
    BY <1>3, <1>4, OnlyWorkerMoves DEF TypeInv, TypeOK, WorkerState, Lookup, durable
  <1>6. CurrentWork' = CurrentWork
    BY <1>3 DEF TypeInv, TypeOK, WorkerState, Lookup, CurrentWork
  <1>7. WorkerOK'
    BY <1>3, <1>6 DEF TypeInv, TypeOK, WorkerState, WorkerOK, Lookup, CallOutcomes
  <1> QED
    BY <1>5, <1>7 DEF TypeInv

\* The steps that give up on the envelope, or go on to decide or commit it.
LEMMA TypeInvGivesUp ==
    ASSUME TypeInv, LookupFails \/ DecideCommand \/ IdentityFails \/ CommitRollsBack
    PROVE  TypeInv'
  <1>1. \/ worker' = [worker EXCEPT !.at = "failed", !.outcome = "failed", !.seq = 0]
        \/ /\ worker' = [worker EXCEPT !.at = "failed", !.outcome = "rejected", !.seq = 0]
           /\ worker.at = "decide"
        \/ /\ worker' = [worker EXCEPT !.at = "commit"]
           /\ EventsOf(CurrentWork) # <<>>
    BY DEF LookupFails, DecideCommand, IdentityFails, CommitRollsBack, Goto, Finish
  <1>2. worker' \in WorkerState
    <2>1. /\ worker \in WorkerState /\ 0 \in 0..Len(log)
          /\ {"failed", "commit"} \subseteq WorkerPoints
          /\ {"failed", "rejected"} \subseteq CallOutcomes
      BY DEF TypeInv, TypeOK, WorkerPoints, CallOutcomes
    <2>2. /\ [worker EXCEPT !.at = "failed", !.outcome = "failed", !.seq = 0] \in WorkerState
          /\ [worker EXCEPT !.at = "failed", !.outcome = "rejected", !.seq = 0] \in WorkerState
          /\ [worker EXCEPT !.at = "commit"] \in WorkerState
      BY <2>1, WorkerMoves
    <2> QED
      BY <1>1, <2>2
  <1>3. /\ worker.at # "idle"
        /\ UNCHANGED <<log, receipts, phase, commandReadModel, hydrated, commandQueue,
                       published, calls>>
        /\ UNCHANGED environment \/ \E point \in FaultPoints : Fault(point)
    BY DEF LookupFails, DecideCommand, IdentityFails, CommitRollsBack, durable, FaultPoints
  <1>4. worker'.ticket = worker.ticket
    BY <1>1 DEF TypeInv, TypeOK, WorkerState
  <1>5. TypeOK'
    BY <1>2, <1>3, <1>4, OnlyWorkerMoves DEF TypeInv, TypeOK
  <1>6. CurrentWork' = CurrentWork
    BY <1>3, <1>4 DEF CurrentWork
  <1>7. WorkerOK'
    BY <1>1, <1>6 DEF TypeInv, TypeOK, WorkerState, WorkerOK
  <1> QED
    BY <1>5, <1>7 DEF TypeInv

\* The work in hand, and its transaction: the log grows by the entries of the work, at its end.
LEMMA CurrentWorkTyped ==
    ASSUME TypeInv, worker.at # "idle"
    PROVE  /\ worker.ticket \in 1..Len(calls)
           /\ calls[worker.ticket] \in Call
           /\ CurrentWork \in Work
  <1>1. worker.ticket \in 1..Len(calls)
    BY DEF TypeInv, TypeOK, WorkerState
  <1>2. calls[worker.ticket] \in Call
    BY <1>1 DEF TypeInv, TypeOK
  <1> QED
    BY <1>1, <1>2 DEF CurrentWork, Call

\* The transaction appends the entries of the work in hand, and nothing else.
LEMMA CommitGrowsLog ==
    ASSUME TypeInv, NEW w \in Work, EventsOf(w) # <<>>, CommitRows(w)
    PROVE  /\ log' \in Seq(Entry)
           /\ Len(EventsOf(w)) \in Nat \ {0}
           /\ Len(log) \in Nat /\ Len(log') = Len(log) + Len(EventsOf(w))
           /\ \A i \in 1..Len(log) : log'[i] = log[i]
           /\ \A i \in 1..Len(EventsOf(w)) :
                 log'[Len(log) + i] = [work |-> w, event |-> EventsOf(w)[i]]
           /\ receipts' \in [Commands -> Receipt(Len(log'))]
  <1>1. Len(EventsOf(w)) \in Nat \ {0}
    BY EventsAreSequences
  <1>2. log \in Seq(Entry) /\ Entries(w) \in Seq(Entry) /\ log' = log \o Entries(w)
    BY EntriesOfWork DEF TypeInv, TypeOK, CommitRows
  <1>3. /\ log' \in Seq(Entry)
        /\ Len(log) \in Nat /\ Len(log') = Len(log) + Len(EventsOf(w))
        /\ \A i \in 1..Len(log) : log'[i] = log[i]
        /\ \A i \in 1..Len(EventsOf(w)) : log'[Len(log) + i] = Entries(w)[i]
    <2>1. /\ log' \in Seq(Entry)
          /\ Len(log') = Len(log) + Len(Entries(w))
          /\ \A i \in 1..(Len(log) + Len(Entries(w))) :
                log'[i] = IF i <= Len(log) THEN log[i] ELSE Entries(w)[i - Len(log)]
      BY <1>2, ConcatProperties
    <2>2. Len(log) \in Nat /\ Len(Entries(w)) = Len(EventsOf(w))
      BY <1>2, EntriesOfWork
    <2> QED
      BY <1>1, <2>1, <2>2
  <1>4. Receipt(Len(log)) \subseteq Receipt(Len(log')) /\ AcceptedAt(Len(log')) \in Receipt(Len(log'))
    BY <1>1, <1>3 DEF Receipt
  <1>5. receipts' \in [Commands -> Receipt(Len(log'))]
    <2>1. receipts \in [Commands -> Receipt(Len(log'))]
      BY <1>4 DEF TypeInv, TypeOK
    <2> QED
      BY <1>4, <2>1 DEF CommitRows
  <1> QED
    BY <1>1, <1>3, <1>5, EntriesOfWork

\* A commit keeps the types, acknowledged or not: its receipt names the new end of the log.
LEMMA TypeInvCommit ==
    ASSUME TypeInv, Commit \/ CommitAckLost
    PROVE  TypeInv'
  <1> DEFINE w == CurrentWork
  <1>1. /\ worker.at = "commit" /\ w \in Work /\ EventsOf(w) # <<>> /\ CommitRows(w)
        /\ UNCHANGED <<phase, commandReadModel, hydrated, commandQueue, published, calls>>
        /\ UNCHANGED environment \/ Fault("commitAck")
    BY CurrentWorkTyped DEF Commit, CommitAckLost, TypeInv, WorkerOK
  <1>10. \/ worker' = [worker EXCEPT !.at = "adopt", !.outcome = "accepted", !.seq = Len(log')]
        \/ worker' = [worker EXCEPT !.at = "failed", !.outcome = "failed", !.seq = 0]
    BY DEF Commit, CommitAckLost, Finish
  <1>2. /\ log' \in Seq(Entry)
        /\ Len(EventsOf(w)) \in Nat \ {0}
        /\ Len(log) \in Nat /\ Len(log') = Len(log) + Len(EventsOf(w))
        /\ receipts' \in [Commands -> Receipt(Len(log'))]
    BY <1>1, CommitGrowsLog
  <1>3. worker' \in WorkerState' /\ worker'.ticket = worker.ticket
    <2>1. worker \in WorkerState /\ calls' = calls
      BY <1>1 DEF TypeInv, TypeOK
    <2>2. worker \in WorkerState' /\ 0 \in 0..Len(log') /\ Len(log') \in 0..Len(log')
      BY <1>2, <2>1 DEF WorkerState
    <2> QED
      BY <1>10, <2>1, <2>2 DEF WorkerState, WorkerPoints, CallOutcomes
  <1>4. published' \in Seq([seq : 1..Len(log'), entry : Entry])
    <2>1. [seq : 1..Len(log), entry : Entry] \subseteq [seq : 1..Len(log'), entry : Entry]
      BY <1>2
    <2>2. published \in Seq([seq : 1..Len(log), entry : Entry])
      BY DEF TypeInv, TypeOK
    <2>3. published \in Seq([seq : 1..Len(log'), entry : Entry])
      BY <2>1, <2>2, SeqOfMore
    <2> QED
      BY <1>1, <2>3
  <1>5. faults' \in 0..MaxFaults /\ crashes' \in 0..MaxCrashes
    BY <1>1, BoundsAssumption DEF TypeInv, TypeOK, Fault, environment
  <1>6. TypeOK'
    BY <1>1, <1>2, <1>3, <1>4, <1>5 DEF TypeInv, TypeOK
  <1>7. CurrentWork' = CurrentWork
    BY <1>1, <1>3 DEF CurrentWork
  <1>8. WorkerOK'
    <2>1. worker \in WorkerState
      BY DEF TypeInv, TypeOK
    <2>2. Len(EventsOf(CurrentWork')) <= Len(log') /\ EventsOf(CurrentWork') # <<>>
      BY <1>1, <1>2, <1>7
    <2>3. CASE worker' = [worker EXCEPT !.at = "adopt", !.outcome = "accepted", !.seq = Len(log')]
      <3>1. worker'.at = "adopt" /\ worker'.outcome = "accepted" /\ worker'.seq = Len(log')
        BY <2>1, <2>3 DEF WorkerState
      <3> QED
        BY <2>2, <3>1 DEF WorkerOK
    <2>4. CASE worker' = [worker EXCEPT !.at = "failed", !.outcome = "failed", !.seq = 0]
      <3>1. worker'.at = "failed" /\ worker'.outcome = "failed"
        BY <2>1, <2>4 DEF WorkerState
      <3> QED
        BY <3>1 DEF WorkerOK
    <2> QED
      BY <1>10, <2>3, <2>4
  <1> QED
    BY <1>6, <1>8 DEF TypeInv

\* Adopt and Reconcile: events past the read model are folded and published.
LEMMA PublishTypes ==
    ASSUME TypeInv, NEW committed \in Seq([seq : 1..Len(log), entry : Entry])
    PROVE  /\ ProjectEvents(commandReadModel, committed).seq \in 0..Len(log)
           /\ published \o committed \in Seq([seq : 1..Len(log), entry : Entry])
  <1>1. published \in Seq([seq : 1..Len(log), entry : Entry])
    BY DEF TypeInv, TypeOK
  <1>2. committed # <<>> => committed[Len(committed)] \in [seq : 1..Len(log), entry : Entry]
    <2>1. committed # <<>> => Len(committed) \in 1..Len(committed)
      BY EmptySeq
    <2> QED
      BY <2>1, ElementOfSeq
  <1>3. Len(log) \in Nat /\ commandReadModel.seq \in 0..Len(log)
    BY DEF TypeInv, TypeOK
  <1> QED
    BY <1>1, <1>2, <1>3, ConcatProperties DEF ProjectEvents

\* Adopting and publishing the events just committed keeps the types.
LEMMA TypeInvAdopt == TypeInv /\ Adopt => TypeInv'
  <1> SUFFICES ASSUME TypeInv, Adopt PROVE TypeInv'
    OBVIOUS
  <1> DEFINE committed == AssignCommittedSequences(Entries(CurrentWork), worker.seq)
  <1>1. /\ CurrentWork \in Work /\ worker.seq = Len(log) /\ Len(log) \in Nat
        /\ Len(EventsOf(CurrentWork)) <= Len(log)
    BY CurrentWorkTyped DEF Adopt, TypeInv, TypeOK, WorkerOK
  <1>2. committed \in Seq([seq : 1..Len(log), entry : Entry])
    BY <1>1, EntriesOfWork, CommittedSequences
  <1>3. /\ commandReadModel'.seq \in 0..Len(log)
        /\ published' \in Seq([seq : 1..Len(log), entry : Entry])
    BY <1>2, PublishTypes DEF Adopt
  <1>4. worker' = [worker EXCEPT !.at = "answer"] /\ worker' \in WorkerState
    BY DEF Adopt, Goto, TypeInv, TypeOK, WorkerPoints, WorkerState
  <1>5. TypeOK'
    BY <1>3, <1>4 DEF Adopt, TypeInv, TypeOK, WorkerState, durable, environment
  <1>6. WorkerOK'
    BY <1>4 DEF Adopt, TypeInv, TypeOK, WorkerOK, WorkerState, CallOutcomes
  <1> QED
    BY <1>5, <1>6 DEF TypeInv

\* So does adopting and publishing what a failed envelope left behind.
LEMMA TypeInvReconcile ==
    ASSUME TypeInv, Reconcile \/ ReconcileFails PROVE TypeInv'
  <1> DEFINE page == ReadFrom(worker.start)
             persisted == AssignCommittedSequences(page, worker.start + Len(page))
  <1>1. /\ worker \in WorkerState /\ worker.start \in 0..Len(log) /\ Len(log) \in Nat
        /\ log \in Seq(Entry)
    BY DEF TypeInv, TypeOK, WorkerState
  <1>2. /\ page \in Seq(Entry) /\ Len(page) \in Nat /\ worker.start + Len(page) <= Len(log)
    BY <1>1, PageOfLog
  <1>3. persisted \in Seq([seq : 1..Len(log), entry : Entry])
    BY <1>1, <1>2, CommittedSequences
  <1>4. \/ commandReadModel' = commandReadModel /\ published' = published
        \/ /\ commandReadModel' = ProjectEvents(commandReadModel, persisted)
           /\ published' = published \o persisted
    BY DEF Reconcile, ReconcileFails
  <1>5. /\ commandReadModel'.seq \in 0..Len(log)
        /\ published' \in Seq([seq : 1..Len(log), entry : Entry])
    BY <1>3, <1>4, PublishTypes DEF TypeInv, TypeOK
  <1>6. /\ worker.at = "failed"
        /\ worker' = [worker EXCEPT !.at = AfterReconcile]
        /\ UNCHANGED <<log, receipts, phase, hydrated, commandQueue, calls>>
        /\ UNCHANGED environment \/ Fault("reconcile")
    BY DEF Reconcile, ReconcileFails, Goto, durable
  <1>7. AfterReconcile \in {"record", "answer"} /\ worker' \in WorkerState
    BY <1>1, <1>6 DEF AfterReconcile, WorkerState, WorkerPoints
  <1>8. faults' \in 0..MaxFaults /\ crashes' \in 0..MaxCrashes
    BY <1>6, BoundsAssumption DEF TypeInv, TypeOK, Fault, environment
  <1>9. TypeOK'
    BY <1>1, <1>5, <1>6, <1>7, <1>8 DEF TypeInv, TypeOK, WorkerState
  <1>10. /\ worker'.at = AfterReconcile /\ worker'.outcome = worker.outcome
         /\ CurrentWork' = CurrentWork
    BY <1>1, <1>6 DEF WorkerState, CurrentWork
  <1>11. WorkerOK'
    BY <1>6, <1>7, <1>10 DEF TypeInv, WorkerOK, AfterReconcile, CallOutcomes
  <1> QED
    BY <1>9, <1>11 DEF TypeInv

\* A rejection, recorded or not, keeps the types.
LEMMA TypeInvRecord ==
    ASSUME TypeInv, RecordRejection \/ RecordFails PROVE TypeInv'
  <1>1. /\ worker.at = "record"
        /\ worker' = [worker EXCEPT !.at = "answer"]
        /\ UNCHANGED <<log, phase, commandReadModel, hydrated, commandQueue, published, calls>>
        /\ UNCHANGED environment \/ Fault("record")
        /\ receipts' \in {receipts, [receipts EXCEPT ![CurrentWork] = Rejected]}
    BY DEF RecordRejection, RecordFails, Goto, durable
  <1>2. worker \in WorkerState /\ worker' \in WorkerState
    BY <1>1 DEF TypeInv, TypeOK, WorkerState, WorkerPoints
  <1>3. receipts' \in [Commands -> Receipt(Len(log))]
    BY <1>1 DEF TypeInv, TypeOK, Receipt
  <1>4. faults' \in 0..MaxFaults /\ crashes' \in 0..MaxCrashes
    BY <1>1, BoundsAssumption DEF TypeInv, TypeOK, Fault, environment
  <1>5. TypeOK'
    BY <1>1, <1>2, <1>3, <1>4 DEF TypeInv, TypeOK, WorkerState
  <1>6. WorkerOK'
    BY <1>1, <1>2 DEF TypeInv, WorkerOK, WorkerState
  <1> QED
    BY <1>5, <1>6 DEF TypeInv

\* Settling the call and going back to the queue keeps the types.
LEMMA TypeInvAnswer == TypeInv /\ Answer => TypeInv'
  <1> SUFFICES ASSUME TypeInv, Answer PROVE TypeInv'
    OBVIOUS
  <1> DEFINE t == worker.ticket
  <1>1. /\ calls \in Seq(Call) /\ t \in 1..Len(calls) /\ calls[t] \in Call
        /\ worker.outcome \in CallOutcomes /\ worker.seq \in Nat
    BY CurrentWorkTyped DEF Answer, TypeInv, TypeOK, WorkerOK, WorkerState
  <1>2. \/ calls' = calls
        \/ calls' = [calls EXCEPT ![t] = [work |-> calls[t].work, outcome |-> worker.outcome,
                                          seq |-> worker.seq]]
    <2>1. [calls[t] EXCEPT !.outcome = worker.outcome, !.seq = worker.seq]
            = [work |-> calls[t].work, outcome |-> worker.outcome, seq |-> worker.seq]
      BY <1>1, CallUpdate
    <2> QED
      BY <2>1 DEF Answer
  <1>3. calls' \in Seq(Call) /\ Len(calls') = Len(calls)
    BY <1>1, <1>2, CallSettles
  <1>4. worker' = IdleWorker /\ worker' \in WorkerState'
    BY <1>3 DEF Answer, IdleWorker, WorkerState, WorkerPoints, TypeInv, TypeOK, durable
  <1>5. TypeOK'
    BY <1>3, <1>4 DEF Answer, IdleWorker, TypeInv, TypeOK, durable, environment
  <1> QED
    BY <1>4, <1>5 DEF TypeInv, WorkerOK, IdleWorker

\* The finalizer of the scope touches nothing but the phase.
LEMMA TypeInvShutdown ==
    ASSUME TypeInv, BeginShutdown \/ FinishShutdown PROVE TypeInv'
  BY DEF BeginShutdown, FinishShutdown, TypeInv, TypeOK, WorkerOK, WorkerState, CurrentWork,
         durable, environment

\* After a crash the memory is empty, and what the database holds is still well typed.
LEMMA TypeInvCrash == TypeInv /\ Crash => TypeInv'
  <1> SUFFICES ASSUME TypeInv, Crash PROVE TypeInv'
    OBVIOUS
  <1>1. calls' \in Seq(Call) /\ Len(calls') = Len(calls)
    <2>1. /\ calls \in Seq(Call) /\ DOMAIN calls = 1..Len(calls) /\ Len(calls) \in Nat
          /\ \A t \in 1..Len(calls) : calls[t] \in Call
      BY DEF TypeInv, TypeOK
    <2>2. /\ calls' = [t \in 1..Len(calls) |-> calls'[t]]
          /\ \A t \in 1..Len(calls) :
                calls'[t] = calls[t] \/ calls'[t] = [calls[t] EXCEPT !.outcome = "lost"]
      BY <2>1 DEF Crash
    <2>3. \A t \in 1..Len(calls) : calls'[t] \in Call
      BY <2>1, <2>2 DEF Call, CallOutcomes
    <2> QED
      BY <2>1, <2>2, <2>3
  <1>2. worker' \in WorkerState'
    BY <1>1 DEF Crash, TypeInv, TypeOK, WorkerState, IdleWorker, WorkerPoints, durable
  <1>3. commandQueue' \in Seq(1..Len(calls')) /\ published' \in Seq([seq : 1..Len(log'), entry : Entry])
    BY DEF Crash
  <1>4. crashes' \in 0..MaxCrashes /\ faults' \in 0..MaxFaults
    BY BoundsAssumption DEF TypeInv, TypeOK, Crash
  <1>5. 0 \in 0..Len(log') /\ log' = log /\ receipts' = receipts
    BY DEF TypeInv, TypeOK, Crash, durable
  <1>6. TypeOK'
    BY <1>1, <1>2, <1>3, <1>4, <1>5 DEF TypeInv, TypeOK, Crash, IdleWorker, EmptyModel
  <1> QED
    BY <1>6 DEF TypeInv, WorkerOK, Crash, IdleWorker

\* Every step keeps the type invariant.
LEMMA TypeInvStep == TypeInv /\ [Next]_vars => TypeInv'
  <1> SUFFICES ASSUME TypeInv, [Next]_vars PROVE TypeInv'
    OBVIOUS
  <1>1. CASE Next
    <2>1. WorkerStep => TypeInv'
      BY TypeInvTake, TypeInvLookup, TypeInvGivesUp, TypeInvCommit, TypeInvAdopt,
         TypeInvReconcile, TypeInvRecord, TypeInvAnswer
         DEF WorkerStep
    <2> QED
      BY <1>1, <2>1, TypeInvBoot, TypeInvDispatch, TypeInvAbandon, TypeInvShutdown, TypeInvCrash
         DEF Next
  <1>2. CASE UNCHANGED vars
    BY <1>2 DEF vars, TypeInv, TypeOK, WorkerOK, WorkerState, CurrentWork
  <1> QED
    BY <1>1, <1>2

\* The engine is well typed in every state it reaches: receipts name sequences
\* that exist, and the read model never runs ahead of the log.
THEOREM TypeCorrect == Spec => []TypeOK
  <1>1. TypeInv => TypeOK
    BY DEF TypeInv
  <1> QED
    BY <1>1, TypeInvInit, TypeInvStep, PTL DEF Spec

-----------------------------------------------------------------------------
(* What a step does to the database *)

CommitsWork ==
    \E w \in Work :
        /\ worker.at = "commit" /\ CurrentWork = w
        /\ EventsOf(w) # <<>>
        /\ w \in Commands => receipts[w] = Undecided
        /\ CommitRows(w)
RejectsCommand ==
    \E c \in Commands :
        /\ receipts[c] = Undecided
        /\ receipts' = [receipts EXCEPT ![c] = Rejected]
        /\ UNCHANGED log

\* Whatever the step, the database is left alone, takes one transaction of the
\* work in hand, or takes one rejection.
LEMMA DatabaseStep ==
    ASSUME TypeInv, [Next]_vars
    PROVE  UNCHANGED durable \/ CommitsWork \/ RejectsCommand
  <1>1. CASE Commit \/ CommitAckLost
    <2>1. CurrentWork \in Work /\ EventsOf(CurrentWork) # <<>>
      BY <1>1, CurrentWorkTyped DEF TypeInv, WorkerOK, Commit, CommitAckLost
    <2> QED
      BY <1>1, <2>1 DEF Commit, CommitAckLost, CommitConflict, CommitsWork
  <1>2. CASE RecordRejection
    <2>1. CurrentWork \in Commands
      BY <1>2 DEF TypeInv, WorkerOK, RecordRejection
    <2> QED
      BY <1>2, <2>1 DEF RecordRejection, RejectsCommand, durable
  <1>3. CASE Take \/ Lookup \/ LookupFails \/ DecideCommand \/ IdentityFails \/ CommitRollsBack
             \/ Adopt \/ Reconcile \/ ReconcileFails \/ RecordFails \/ Answer
    BY <1>3 DEF Take, Lookup, LookupFails, DecideCommand, IdentityFails, CommitRollsBack,
                Adopt, Reconcile, ReconcileFails, RecordFails, Answer, durable
  <1>4. CASE Boot \/ BeginShutdown \/ FinishShutdown \/ Crash
    BY <1>4 DEF Boot, BeginShutdown, FinishShutdown, Crash, durable
  <1>5. CASE (\E w \in Work : Dispatch(w)) \/ (\E t \in DOMAIN calls : Abandon(t))
    BY <1>5 DEF Dispatch, Abandon, durable
  <1>6. CASE UNCHANGED vars
    BY <1>6 DEF vars, durable
  <1> QED
    BY <1>1, <1>2, <1>3, <1>4, <1>5, <1>6 DEF Next, WorkerStep

\* The engine, its queue, fibers, crashes and faults hidden, is the log of
\* exactly-once commands that CommandLog specifies.
THEOREM EngineImplementsCommandLog == Spec => ImplementsCommandLog
  <1>1. Init => Abstract!Init
    BY DEF Init, Abstract!Init, Undecided, Abstract!Undecided
  <1>2. TypeInv /\ [Next]_vars => [Abstract!Next]_(Abstract!abstractVars)
    <2> SUFFICES ASSUME TypeInv, [Next]_vars
                 PROVE  [Abstract!Next]_(Abstract!abstractVars)
      OBVIOUS
    <2>1. CASE UNCHANGED durable
      BY <2>1 DEF durable, Abstract!abstractVars
    <2>2. CASE CommitsWork
      <3>1. PICK w \in Work : /\ EventsOf(w) # <<>>
                              /\ w \in Commands => receipts[w] = Undecided
                              /\ CommitRows(w)
        BY <2>2 DEF CommitsWork
      <3>2. CASE w \in Commands
        BY <3>1, <3>2 DEF CommitRows, Undecided, AcceptedAt, Entries, Abstract!Next,
           Abstract!Accept, Abstract!Undecided, Abstract!AcceptedAt, Abstract!Entries
      <3>3. CASE w \notin Commands
        BY <3>1, <3>3 DEF Work, CommitRows, Entries, Abstract!Next, Abstract!Provide,
           Abstract!Entries
      <3> QED
        BY <3>2, <3>3
    <2>3. CASE RejectsCommand
      BY <2>3 DEF RejectsCommand, Undecided, Rejected, Abstract!Next, Abstract!Reject,
         Abstract!Undecided, Abstract!Rejected
    <2> QED
      BY <2>1, <2>2, <2>3, DatabaseStep
  <1> QED
    BY <1>1, <1>2, TypeInvInit, TypeInvStep, PTL DEF Spec, ImplementsCommandLog, Abstract!Spec

-----------------------------------------------------------------------------
(* Exactly once *)

StoreInv ==
    /\ TypeInv
    /\ ExactlyOnce
    /\ \A c \in Commands : receipts[c].status = "accepted" => EventsOf(c) # <<>>

\* An empty database has every command exactly zero times.
LEMMA StoreInvInit == Init => StoreInv
  BY TypeInvInit DEF Init, StoreInv, ExactlyOnce, Undecided

\* A transaction puts its own entries at the end, under its own receipt, and
\* leaves the entries of every other command where they were.
LEMMA ExactlyOnceCommit ==
    ASSUME StoreInv, CommitsWork
    PROVE  /\ ExactlyOnce'
           /\ \A c \in Commands : receipts'[c].status = "accepted" => EventsOf(c) # <<>>
  <1>1. PICK w \in Work : /\ EventsOf(w) # <<>>
                          /\ w \in Commands => receipts[w] = Undecided
                          /\ CommitRows(w)
    BY DEF CommitsWork
  <1> DEFINE size(c) == Len(EventsOf(c))
  <1>2. /\ log' \in Seq(Entry) /\ log \in Seq(Entry)
        /\ size(w) \in Nat \ {0}
        /\ Len(log) \in Nat /\ Len(log') = Len(log) + size(w)
        /\ \A i \in 1..Len(log) : log'[i] = log[i]
        /\ \A i \in 1..size(w) : log'[Len(log) + i] = [work |-> w, event |-> EventsOf(w)[i]]
    BY <1>1, CommitGrowsLog DEF StoreInv, TypeInv, TypeOK
  <1>3. \A n \in (Len(log) + 1)..Len(log') : log'[n].work = w
    <2> SUFFICES ASSUME NEW n \in (Len(log) + 1)..Len(log') PROVE log'[n].work = w
      OBVIOUS
    <2> DEFINE i == n - Len(log)
    <2>1. i \in 1..size(w) /\ n = Len(log) + i
      BY <1>2
    <2>2. log'[Len(log) + i] = [work |-> w, event |-> EventsOf(w)[i]]
      BY <1>2, <2>1
    <2> HIDE DEF i
    <2> QED
      BY <2>1, <2>2
  <1>4. ASSUME NEW c \in Commands, c # w
        PROVE  /\ receipts'[c] = receipts[c]
               /\ receipts[c].status = "accepted" =>
                     /\ size(c) <= receipts[c].seq /\ receipts[c].seq <= Len(log')
                     /\ SubSeq(log', (receipts[c].seq - size(c)) + 1, receipts[c].seq) = Entries(c)
               /\ \A n \in 1..Len(log') :
                     log'[n].work = c =>
                        /\ receipts[c].status = "accepted"
                        /\ receipts[c].seq - size(c) < n /\ n <= receipts[c].seq
    <2>1. receipts'[c] = receipts[c]
      BY <1>1, <1>4 DEF CommitRows, StoreInv, TypeInv, TypeOK
    <2>2. ASSUME receipts[c].status = "accepted"
          PROVE  /\ size(c) <= receipts[c].seq /\ receipts[c].seq <= Len(log')
                 /\ SubSeq(log', (receipts[c].seq - size(c)) + 1, receipts[c].seq) = Entries(c)
      <3> DEFINE last == receipts[c].seq
      <3>1. /\ size(c) <= last /\ last <= Len(log)
            /\ SubSeq(log, (last - size(c)) + 1, last) = Entries(c)
        BY <2>2 DEF StoreInv, ExactlyOnce
      <3>2. last \in Nat /\ size(c) \in Nat
        BY <2>2, EventsAreSequences
           DEF StoreInv, TypeInv, TypeOK, Receipt, Undecided, Rejected, AcceptedAt, Work
      <3>3. SubSeq(log', (last - size(c)) + 1, last) = SubSeq(log, (last - size(c)) + 1, last)
        <4>1. /\ log \in Seq(Entry) /\ log' \in Seq(Entry) /\ Len(log) <= Len(log')
              /\ \A i \in 1..Len(log) : log'[i] = log[i]
              /\ last \in Nat /\ size(c) \in Nat /\ size(c) <= last /\ last <= Len(log)
          BY <1>2, <3>1, <3>2
        <4> HIDE DEF size, last
        <4> QED
          BY <4>1, SubSeqOfLonger
      <3>4. last <= Len(log')
        BY <1>2, <3>1, <3>2
      <3> QED
        BY <3>1, <3>3, <3>4
    <2>3. ASSUME NEW n \in 1..Len(log'), log'[n].work = c
          PROVE  /\ receipts[c].status = "accepted"
                 /\ receipts[c].seq - size(c) < n /\ n <= receipts[c].seq
      <3>1. n \in 1..Len(log)
        BY <1>2, <1>3, <1>4, <2>3
      <3>2. log[n].work = c
        BY <1>2, <2>3, <3>1
      <3> QED
        BY <3>1, <3>2 DEF StoreInv, ExactlyOnce
    <2> QED
      BY <2>1, <2>2, <2>3
  <1>5. ASSUME w \in Commands
        PROVE  /\ receipts'[w] = AcceptedAt(Len(log'))
               /\ size(w) <= Len(log')
               /\ SubSeq(log', (Len(log') - size(w)) + 1, Len(log')) = Entries(w)
               /\ \A n \in 1..Len(log') :
                     log'[n].work = w => Len(log') - size(w) < n /\ n <= Len(log')
    <2>1. receipts'[w] = AcceptedAt(Len(log'))
      BY <1>1, <1>5 DEF CommitRows, StoreInv, TypeInv, TypeOK
    <2>2. SubSeq(log', (Len(log') - size(w)) + 1, Len(log')) = Entries(w)
      <3>1. (Len(log') - size(w)) + 1 = Len(log) + 1
        BY <1>2
      <3>2. SubSeq(log', Len(log) + 1, Len(log')) = [i \in 1..size(w) |-> log'[Len(log) + i]]
        BY <1>2
      <3> QED
        BY <1>2, <3>1, <3>2 DEF Entries
    <2>3. \A n \in 1..Len(log') : log'[n].work = w => Len(log) < n
      <3> SUFFICES ASSUME NEW n \in 1..Len(log'), log'[n].work = w, n <= Len(log) PROVE FALSE
        BY <1>2
      <3>1. n \in 1..Len(log) /\ log[n].work = w
        BY <1>2
      <3>2. receipts[w].status = "accepted"
        BY <1>5, <3>1 DEF StoreInv, ExactlyOnce
      <3> QED
        BY <1>1, <1>5, <3>2 DEF Undecided
    <2> QED
      BY <1>2, <2>1, <2>2, <2>3
  <1>6. ExactlyOnce'
    BY <1>2, <1>4, <1>5 DEF ExactlyOnce, AcceptedAt
  <1> QED
    BY <1>1, <1>4, <1>5, <1>6 DEF StoreInv

\* Every step keeps each command in the log exactly once.
LEMMA StoreInvStep == StoreInv /\ [Next]_vars => StoreInv'
  <1> SUFFICES ASSUME StoreInv, [Next]_vars PROVE StoreInv'
    OBVIOUS
  <1>1. TypeInv'
    BY TypeInvStep DEF StoreInv
  <1>2. CASE UNCHANGED durable
    BY <1>1, <1>2 DEF durable, StoreInv, ExactlyOnce
  <1>3. CASE CommitsWork
    BY <1>1, <1>3, ExactlyOnceCommit DEF StoreInv
  <1>4. CASE RejectsCommand
    BY <1>1, <1>4 DEF RejectsCommand, StoreInv, TypeInv, TypeOK, ExactlyOnce, Undecided, Rejected
  <1> QED
    BY <1>2, <1>3, <1>4, DatabaseStep DEF StoreInv

\* A command enters the log once, whatever was retried, failed or crashed: its
\* receipt is accepted exactly when its events are in the log, together, and
\* end at the sequence the receipt stores.
THEOREM CommandsExactlyOnce == Spec => []ExactlyOnce
  <1>1. StoreInv => ExactlyOnce
    BY DEF StoreInv
  <1> QED
    BY <1>1, StoreInvInit, StoreInvStep, PTL DEF Spec

-----------------------------------------------------------------------------
(* What callers are told *)

\* The database backs an answer: an acceptance names the place of the work's
\* last event, and its receipt if it has one; a refusal has its rejection.
AnswerStands(w, outcome, seq) ==
    /\ outcome = "accepted" =>
          /\ seq \in 1..Len(log) /\ log[seq].work = w
          /\ w \in Commands => receipts[w] = AcceptedAt(seq)
    /\ outcome = "refused" => w \in Commands /\ receipts[w] = Rejected

CallsStand ==
    \A t \in 1..Len(calls) : AnswerStands(calls[t].work, calls[t].outcome, calls[t].seq)
WorkerStands ==
    worker.at \in {"adopt", "failed", "record", "answer"} =>
        AnswerStands(CurrentWork, worker.outcome, worker.seq)
AnswerInv == StoreInv /\ CallsStand /\ WorkerStands

\* An answer that stands keeps standing: the log only grows, and a receipt that
\* was given is never changed.
LEMMA AnswersKeepStanding ==
    ASSUME StoreInv, [Next]_vars,
           NEW w \in Work, NEW outcome, NEW seq, AnswerStands(w, outcome, seq)
    PROVE  AnswerStands(w, outcome, seq)'
  <1>1. CASE UNCHANGED durable
    BY <1>1 DEF durable, AnswerStands
  <1>2. CASE CommitsWork
    <2>1. PICK v \in Work : /\ EventsOf(v) # <<>>
                            /\ v \in Commands => receipts[v] = Undecided
                            /\ CommitRows(v)
      BY <1>2 DEF CommitsWork
    <2>2. /\ Len(log) \in Nat /\ Len(log') \in Nat /\ Len(log) <= Len(log')
          /\ \A i \in 1..Len(log) : log'[i] = log[i]
      BY <2>1, CommitGrowsLog DEF StoreInv
    <2>3. ASSUME w \in Commands, receipts[w] # Undecided PROVE receipts'[w] = receipts[w]
      BY <2>1, <2>3 DEF CommitRows, StoreInv, TypeInv, TypeOK
    <2>4. \A n \in Nat : AcceptedAt(n) # Undecided /\ Rejected # Undecided
      BY DEF AcceptedAt, Rejected, Undecided
    <2> QED
      BY <2>2, <2>3, <2>4 DEF AnswerStands
  <1>3. CASE RejectsCommand
    BY <1>3 DEF RejectsCommand, AnswerStands, AcceptedAt, Rejected, Undecided, StoreInv,
                TypeInv, TypeOK
  <1> QED
    BY <1>1, <1>2, <1>3, DatabaseStep DEF StoreInv

\* A call keeps what it has, is left without a definite answer, or gets the
\* worker's.
LEMMA CallsChange ==
    ASSUME TypeInv, [Next]_vars, NEW t \in 1..Len(calls')
    PROVE  \/ t \in 1..Len(calls) /\ calls'[t] = calls[t]
           \/ calls'[t].outcome \notin {"accepted", "refused"}
           \/ /\ worker.at = "answer" /\ t = worker.ticket
              /\ calls'[t] = [work |-> CurrentWork, outcome |-> worker.outcome, seq |-> worker.seq]
  <1>1. /\ calls \in Seq(Call) /\ DOMAIN calls = 1..Len(calls) /\ Len(calls) \in Nat
        /\ \A u \in 1..Len(calls) : calls[u] \in Call
    BY DEF TypeInv, TypeOK
  <1>2. CASE \E w \in Work : Dispatch(w)
    <2>1. PICK c : c.outcome \in {"waiting", "shutdown"} /\ calls' = Append(calls, c)
      BY <1>2 DEF Dispatch
    <2>2. t \in 1..Len(calls) \/ t = Len(calls) + 1
      BY <1>1, <2>1
    <2> QED
      BY <1>1, <2>1, <2>2
  <1>3. CASE \E u \in DOMAIN calls : Abandon(u)
    <2>1. PICK u \in 1..Len(calls) : calls' = [calls EXCEPT ![u].outcome = "lost"]
      BY <1>1, <1>3 DEF Abandon
    <2>2. t \in 1..Len(calls) /\ calls[t] \in Call
      BY <1>1, <2>1
    <2> QED
      BY <1>1, <2>1, <2>2 DEF Call
  <1>4. CASE Answer
    <2> DEFINE u == worker.ticket
    <2>1. u \in 1..Len(calls) /\ calls[u] \in Call /\ worker.at = "answer"
      BY <1>4, CurrentWorkTyped DEF Answer
    <2>2. \/ calls' = calls
          \/ calls' = [calls EXCEPT ![u] = [work |-> calls[u].work, outcome |-> worker.outcome,
                                            seq |-> worker.seq]]
      <3>1. [calls[u] EXCEPT !.outcome = worker.outcome, !.seq = worker.seq]
              = [work |-> calls[u].work, outcome |-> worker.outcome, seq |-> worker.seq]
        BY <2>1, CallUpdate
      <3> QED
        BY <3>1, <1>4 DEF Answer
    <2> QED
      BY <1>1, <2>1, <2>2 DEF CurrentWork
  <1>5. CASE Crash
    <2>1. t \in 1..Len(calls)
      BY <1>1, <1>5 DEF Crash
    <2>2. calls'[t] = calls[t] \/ calls'[t] = [calls[t] EXCEPT !.outcome = "lost"]
      BY <1>1, <1>5, <2>1 DEF Crash
    <2>3. calls[t] \in Call
      BY <1>1, <2>1
    <2> QED
      BY <2>1, <2>2, <2>3 DEF Call
  <1>6. CASE UNCHANGED calls
    BY <1>6
  <1>7. WorkerStep => Answer \/ UNCHANGED calls
    BY DEF WorkerStep, Take, Lookup, LookupFails, DecideCommand, IdentityFails, Commit,
           CommitRollsBack, CommitAckLost, Adopt, Reconcile, ReconcileFails, RecordRejection,
           RecordFails
  <1>8. Boot \/ BeginShutdown \/ FinishShutdown \/ UNCHANGED vars => UNCHANGED calls
    BY DEF Boot, BeginShutdown, FinishShutdown, vars
  <1> QED
    BY <1>2, <1>3, <1>4, <1>5, <1>6, <1>7, <1>8 DEF Next

\* Every step keeps the answers of all calls true of the database.
LEMMA CallsStandStep ==
    ASSUME AnswerInv, [Next]_vars PROVE CallsStand'
  <1> SUFFICES ASSUME NEW t \in 1..Len(calls')
               PROVE  AnswerStands(calls[t].work, calls[t].outcome, calls[t].seq)'
    BY DEF CallsStand
  <1>1. TypeInv /\ StoreInv
    BY DEF AnswerInv, StoreInv
  <1>2. CASE t \in 1..Len(calls) /\ calls'[t] = calls[t]
    <2>1. calls[t] \in Call /\ AnswerStands(calls[t].work, calls[t].outcome, calls[t].seq)
      BY <1>1, <1>2 DEF TypeInv, TypeOK, AnswerInv, CallsStand
    <2>2. PICK w, outcome, seq :
              w = calls[t].work /\ outcome = calls[t].outcome /\ seq = calls[t].seq
      OBVIOUS
    <2>3. w \in Work /\ AnswerStands(w, outcome, seq)
      BY <2>1, <2>2 DEF Call, AnswerStands
    <2>4. AnswerStands(w, outcome, seq)'
      BY <1>1, <2>3, AnswersKeepStanding
    <2> QED
      BY <1>2, <2>2, <2>4 DEF AnswerStands
  <1>3. CASE calls'[t].outcome \notin {"accepted", "refused"}
    BY <1>3 DEF AnswerStands
  <1>4. CASE /\ worker.at = "answer" /\ t = worker.ticket
             /\ calls'[t] = [work |-> CurrentWork, outcome |-> worker.outcome, seq |-> worker.seq]
    <2>1. CurrentWork \in Work /\ AnswerStands(CurrentWork, worker.outcome, worker.seq)
      BY <1>1, <1>4, CurrentWorkTyped DEF AnswerInv, WorkerStands
    <2>2. PICK w, outcome, seq :
              w = CurrentWork /\ outcome = worker.outcome /\ seq = worker.seq
      OBVIOUS
    <2>3. w \in Work /\ AnswerStands(w, outcome, seq)
      BY <2>1, <2>2 DEF AnswerStands
    <2>4. AnswerStands(w, outcome, seq)'
      BY <1>1, <2>3, AnswersKeepStanding
    <2> QED
      BY <1>4, <2>2, <2>4 DEF AnswerStands
  <1> QED
    BY <1>1, <1>2, <1>3, <1>4, CallsChange

\* The work of a call that was made never changes.
LEMMA WorkKept ==
    ASSUME TypeInv, worker.at # "idle", worker' = worker,
           (\E w \in Work : Dispatch(w)) \/ (\E t \in DOMAIN calls : Abandon(t))
    PROVE  CurrentWork' = CurrentWork
  <1>1. /\ worker.ticket \in 1..Len(calls) /\ calls[worker.ticket] \in Call
        /\ calls \in Seq(Call) /\ DOMAIN calls = 1..Len(calls) /\ Len(calls) \in Nat
    BY CurrentWorkTyped DEF TypeInv, TypeOK
  <1>2. CASE \E w \in Work : Dispatch(w)
    <2>1. PICK c : calls' = Append(calls, c)
      BY <1>2 DEF Dispatch
    <2> QED
      BY <1>1, <2>1 DEF CurrentWork
  <1>3. CASE \E t \in DOMAIN calls : Abandon(t)
    <2>1. PICK t \in 1..Len(calls) : calls' = [calls EXCEPT ![t].outcome = "lost"]
      BY <1>1, <1>3 DEF Abandon
    <2> QED
      BY <1>1, <2>1 DEF CurrentWork, Call
  <1> QED
    BY <1>2, <1>3

\* The worker's answer in the making: it stands from the moment it is settled.
LEMMA WorkerStandsStep ==
    ASSUME AnswerInv, [Next]_vars PROVE WorkerStands'
  <1>1. TypeInv /\ StoreInv /\ TypeInv' /\ worker \in WorkerState
    BY StoreInvStep DEF AnswerInv, StoreInv, TypeInv, TypeOK
  <1>2. CASE Commit \/ CommitAckLost
    <2>1. PICK w : w = CurrentWork
      OBVIOUS
    <2>2. /\ w \in Work /\ EventsOf(w) # <<>> /\ CommitRows(w)
          /\ calls' = calls
          /\ \/ worker' = [worker EXCEPT !.at = "adopt", !.outcome = "accepted", !.seq = Len(log')]
             \/ worker' = [worker EXCEPT !.at = "failed", !.outcome = "failed", !.seq = 0]
      BY <1>1, <1>2, <2>1, CurrentWorkTyped DEF Commit, CommitAckLost, Finish, TypeInv, WorkerOK
    <2>3. CurrentWork' = w
      BY <1>1, <2>1, <2>2 DEF CurrentWork, WorkerState
    <2>4. Len(log') \in 1..Len(log') /\ log'[Len(log')].work = w
      <3> DEFINE n == Len(EventsOf(w))
      <3>1. /\ n \in Nat \ {0} /\ Len(log) \in Nat /\ Len(log') = Len(log) + n
            /\ log'[Len(log) + n] = [work |-> w, event |-> EventsOf(w)[n]]
        <4>1. /\ n \in Nat \ {0} /\ Len(log) \in Nat /\ Len(log') = Len(log) + n
              /\ \A i \in 1..n : log'[Len(log) + i] = [work |-> w, event |-> EventsOf(w)[i]]
          BY <1>1, <2>2, CommitGrowsLog
        <4> HIDE DEF n
        <4> QED
          BY <4>1
      <3> QED
        BY <3>1
    <2>5. w \in Commands => receipts'[w] = AcceptedAt(Len(log'))
      BY <1>1, <2>2 DEF CommitRows, TypeInv, TypeOK
    <2> QED
      BY <1>1, <2>2, <2>3, <2>4, <2>5 DEF WorkerStands, AnswerStands, WorkerState
  <1>3. CASE Lookup
    <2>1. PICK w : w = CurrentWork
      OBVIOUS
    <2>2. w \in Commands /\ CurrentWork' = w /\ log' = log /\ receipts' = receipts
      BY <1>1, <1>3, <2>1 DEF Lookup, Goto, Finish, CurrentWork, TypeInv, WorkerOK, WorkerState, durable
    <2>3. receipts[w] \in Receipt(Len(log)) /\ Len(log) \in Nat
      BY <1>1, <2>2 DEF TypeInv, TypeOK
    <2>4. receipts[w].status = "accepted" =>
              /\ receipts[w].seq \in 1..Len(log) /\ receipts[w] = AcceptedAt(receipts[w].seq)
              /\ log[receipts[w].seq].work = w
      <3> SUFFICES ASSUME receipts[w].status = "accepted"
                   PROVE  /\ receipts[w].seq \in 1..Len(log)
                          /\ receipts[w] = AcceptedAt(receipts[w].seq)
                          /\ log[receipts[w].seq].work = w
        OBVIOUS
      <3> DEFINE last == receipts[w].seq
                 size == Len(EventsOf(w))
      <3>1. last \in 1..Len(log) /\ receipts[w] = AcceptedAt(last)
        BY <2>3 DEF Receipt, Undecided, Rejected, AcceptedAt
      <3>2. size \in Nat \ {0} /\ w \in Work
        BY <1>1, <2>2, EventsAreSequences DEF StoreInv, Work
      <3>3. size <= last /\ SubSeq(log, (last - size) + 1, last) = Entries(w)
        BY <2>2, <1>1 DEF StoreInv, ExactlyOnce
      <3>4. log \in Seq(Entry) /\ last \in Nat /\ last <= Len(log)
        BY SMTT(30), <1>1, <2>3, <3>1 DEF TypeInv, TypeOK
      <3>5. Entries(w)[size] = log[last]
        <4> HIDE DEF size, last
        <4> QED
          BY <3>2, <3>3, <3>4, SubSeqLast
      <3>6. Entries(w)[size] = [work |-> w, event |-> EventsOf(w)[size]]
        BY <3>2, EntriesOfWork
      <3> QED
        BY <3>1, <3>5, <3>6
    <2>5. receipts[w].status = "rejected" => receipts[w] = Rejected
      BY <2>3 DEF Receipt, Undecided, Rejected, AcceptedAt
    <2> QED
      BY <1>1, <1>3, <2>1, <2>2, <2>4, <2>5
         DEF WorkerStands, AnswerStands, Lookup, Goto, Finish, WorkerState
  <1>4. CASE LookupFails \/ DecideCommand \/ IdentityFails \/ CommitRollsBack
    BY <1>1, <1>4 DEF LookupFails, DecideCommand, IdentityFails, CommitRollsBack, Goto, Finish,
                      WorkerStands, AnswerStands, WorkerState
  <1>5. CASE Take \/ Answer \/ Crash
    BY <1>5 DEF Take, Answer, Crash, IdleWorker, WorkerStands
  <1>6. CASE /\ CurrentWork' = CurrentWork /\ worker'.outcome = worker.outcome
             /\ worker'.seq = worker.seq
             /\ worker.at \in {"adopt", "failed", "record", "answer"} \/ worker'.at = worker.at
             /\ worker.at # "idle"
    <2> SUFFICES ASSUME worker'.at \in {"adopt", "failed", "record", "answer"}
                 PROVE  AnswerStands(CurrentWork, worker.outcome, worker.seq)'
      BY DEF WorkerStands
    <2>1. CurrentWork \in Work /\ AnswerStands(CurrentWork, worker.outcome, worker.seq)
      BY <1>1, <1>6, CurrentWorkTyped DEF AnswerInv, WorkerStands
    <2>2. PICK w, outcome, seq :
              w = CurrentWork /\ outcome = worker.outcome /\ seq = worker.seq
      OBVIOUS
    <2>3. w \in Work /\ AnswerStands(w, outcome, seq)
      BY <2>1, <2>2 DEF AnswerStands
    <2>4. AnswerStands(w, outcome, seq)'
      BY <1>1, <2>3, AnswersKeepStanding
    <2> QED
      BY <1>6, <2>2, <2>4 DEF AnswerStands
  <1>7. CASE worker.at = "idle" /\ worker' = worker
    BY <1>7 DEF WorkerStands
  <1>8. CASE Adopt \/ Reconcile \/ ReconcileFails \/ RecordRejection \/ RecordFails
    <2>1. /\ worker.at \in {"adopt", "failed", "record"} /\ calls' = calls
          /\ \E at : worker' = [worker EXCEPT !.at = at]
      BY <1>8 DEF Adopt, Reconcile, ReconcileFails, RecordRejection, RecordFails, Goto, durable
    <2>2. worker'.outcome = worker.outcome /\ worker'.seq = worker.seq
          /\ worker'.ticket = worker.ticket
      BY <1>1, <2>1 DEF WorkerState
    <2> QED
      BY <1>6, <2>1, <2>2 DEF CurrentWork
  <1>9. CASE (\E w \in Work : Dispatch(w)) \/ (\E t \in DOMAIN calls : Abandon(t))
    <2>1. worker' = worker
      BY <1>9 DEF Dispatch, Abandon
    <2>2. worker.at # "idle" => CurrentWork' = CurrentWork
      BY <1>1, <1>9, <2>1, WorkKept
    <2> QED
      BY <1>6, <1>7, <2>1, <2>2
  <1>10. CASE Boot \/ BeginShutdown \/ FinishShutdown \/ UNCHANGED vars
    BY <1>6, <1>7, <1>10 DEF Boot, BeginShutdown, FinishShutdown, vars, CurrentWork
  <1> QED
    BY <1>2, <1>3, <1>4, <1>5, <1>8, <1>9, <1>10 DEF Next, WorkerStep

\* No call and no worker has an answer at the start.
LEMMA AnswerInvInit == Init => AnswerInv
  BY StoreInvInit DEF Init, AnswerInv, CallsStand, WorkerStands, IdleWorker

\* Every step keeps the answers given, and the one in the making, true.
LEMMA AnswerInvStep == AnswerInv /\ [Next]_vars => AnswerInv'
  BY StoreInvStep, CallsStandStep, WorkerStandsStep DEF AnswerInv

\* What a caller was told is what the database says, now and after any crash.
THEOREM AnswersAreDurable == Spec => []AnswersMatchStore
  <1>1. AnswerInv => AnswersMatchStore
    <2> SUFFICES ASSUME AnswerInv, NEW t \in DOMAIN calls
                 PROVE  /\ calls[t].outcome = "accepted" =>
                              /\ calls[t].seq \in 1..Len(log)
                              /\ log[calls[t].seq].work = calls[t].work
                        /\ calls[t].outcome = "refused" => receipts[calls[t].work] = Rejected
      BY DEF AnswersMatchStore
    <2>1. t \in 1..Len(calls)
      BY DEF AnswerInv, StoreInv, TypeInv, TypeOK
    <2> QED
      BY <2>1 DEF AnswerInv, CallsStand, AnswerStands
  <1> QED
    BY <1>1, AnswerInvInit, AnswerInvStep, PTL DEF Spec

\* Two definite answers to the same command are the same answer.
THEOREM RetriesAgree == Spec => []AnswersAgree
  <1>1. AnswerInv => AnswersAgree
    <2> SUFFICES ASSUME AnswerInv, NEW t \in DOMAIN calls, NEW u \in DOMAIN calls,
                        calls[t].work = calls[u].work, calls[t].work \in Commands,
                        calls[t].outcome = "accepted"
                 PROVE  /\ calls[u].outcome = "accepted" => calls[u].seq = calls[t].seq
                        /\ calls[u].outcome # "refused"
      BY DEF AnswersAgree
    <2>1. t \in 1..Len(calls) /\ u \in 1..Len(calls)
      BY DEF AnswerInv, StoreInv, TypeInv, TypeOK
    <2>2. receipts[calls[t].work] = AcceptedAt(calls[t].seq)
      BY <2>1 DEF AnswerInv, CallsStand, AnswerStands
    <2>3. /\ calls[u].outcome = "accepted" => receipts[calls[u].work] = AcceptedAt(calls[u].seq)
          /\ calls[u].outcome = "refused" => receipts[calls[u].work] = Rejected
      BY <2>1 DEF AnswerInv, CallsStand, AnswerStands
    <2> QED
      BY <2>2, <2>3 DEF AcceptedAt, Rejected
  <1> QED
    BY <1>1, AnswerInvInit, AnswerInvStep, PTL DEF Spec

-----------------------------------------------------------------------------
(* No call is forgotten *)

LEMMA PendingTyped ==
    ASSUME TypeInv
    PROVE  Pending \in Seq(1..Len(calls)) /\ commandQueue \in Seq(1..Len(calls))
  <1>1. /\ commandQueue \in Seq(1..Len(calls))
        /\ worker.at # "idle" => worker.ticket \in 1..Len(calls)
    BY DEF TypeInv, TypeOK, WorkerState
  <1>2. CASE worker.at = "idle"
    BY <1>1, <1>2 DEF Pending
  <1>3. CASE worker.at # "idle"
    <2>1. <<worker.ticket>> \in Seq(1..Len(calls))
      BY <1>1, <1>3
    <2> QED
      BY <1>1, <1>3, <2>1, ConcatProperties DEF Pending
  <1> QED
    BY <1>2, <1>3

\* Where the worker goes while it works on one envelope.
WorkerGoes ==
    /\ worker.at # "idle"
    /\ worker'.at # "idle" /\ worker'.ticket = worker.ticket
    /\ UNCHANGED <<phase, commandQueue, calls>>

LEMMA WorkerGoesOn ==
    ASSUME TypeInv,
           \/ Lookup \/ LookupFails \/ DecideCommand \/ IdentityFails \/ Commit \/ CommitRollsBack
           \/ CommitAckLost \/ Adopt \/ Reconcile \/ ReconcileFails \/ RecordRejection \/ RecordFails
    PROVE  WorkerGoes
  <1>1. worker \in WorkerState
    BY DEF TypeInv, TypeOK
  <1>2. ASSUME NEW at \in WorkerPoints \ {"idle"}, NEW outcome, NEW seq,
               \/ worker' = [worker EXCEPT !.at = at]
               \/ worker' = [worker EXCEPT !.at = at, !.outcome = outcome, !.seq = seq]
        PROVE  worker'.at # "idle" /\ worker'.ticket = worker.ticket
    BY <1>1, <1>2 DEF WorkerState
  <1>3. CASE Lookup \/ LookupFails
    <2>1. /\ worker.at = "lookup" /\ UNCHANGED <<phase, commandQueue, calls>>
          /\ \E outcome, seq :
                \/ worker' = [worker EXCEPT !.at = "answer", !.outcome = outcome, !.seq = seq]
                \/ worker' = [worker EXCEPT !.at = "failed", !.outcome = outcome, !.seq = seq]
                \/ worker' = [worker EXCEPT !.at = "decide"]
      <3>1. CASE Lookup
        BY <3>1, Zenon DEF Lookup, Goto, Finish
      <3>2. CASE LookupFails
        BY <3>2, Zenon DEF LookupFails, Finish
      <3> QED
        BY <1>3, <3>1, <3>2
    <2> QED
      BY <1>2, <2>1 DEF WorkerGoes, WorkerPoints
  <1>4. CASE DecideCommand \/ IdentityFails
    BY <1>2, <1>4 DEF DecideCommand, IdentityFails, Goto, Finish, WorkerGoes, WorkerPoints
  <1>5. CASE Commit \/ CommitRollsBack \/ CommitAckLost
    BY ZenonT(40), <1>2, <1>5 DEF Commit, CommitRollsBack, CommitAckLost, Finish, WorkerGoes, WorkerPoints
  <1>6. CASE Adopt \/ Reconcile \/ ReconcileFails
    BY <1>2, <1>6 DEF Adopt, Reconcile, ReconcileFails, AfterReconcile, Goto, WorkerGoes, WorkerPoints
  <1>7. CASE RecordRejection \/ RecordFails
    BY <1>2, <1>7 DEF RecordRejection, RecordFails, Goto, WorkerGoes, WorkerPoints
  <1> QED
    BY <1>3, <1>4, <1>5, <1>6, <1>7

\* The envelopes a step leaves: the same ones, one more, or one less.
LEMMA PendingAfterTake ==
    ASSUME TypeInv, Take
    PROVE  Pending' = Pending /\ UNCHANGED <<phase, calls>>
  <1>1. /\ worker.at = "idle" /\ commandQueue # <<>>
        /\ commandQueue' = Tail(commandQueue) /\ UNCHANGED <<phase, calls>>
        /\ worker'.ticket = Head(commandQueue) /\ worker'.at # "idle"
    BY DEF Take
  <1>2. commandQueue \in Seq(1..Len(calls))
    BY PendingTyped
  <1>3. <<Head(commandQueue)>> \o Tail(commandQueue) = commandQueue
    BY <1>1, <1>2
  <1> QED
    BY <1>1, <1>3 DEF Pending

LEMMA PendingAfterAnswer ==
    ASSUME TypeInv, Answer
    PROVE  /\ Len(Pending) \in Nat \ {0} /\ Len(Pending') = Len(Pending) - 1
           /\ Pending[1] = worker.ticket /\ worker.ticket \in DOMAIN calls
           /\ \A i \in DOMAIN Pending' : Pending'[i] = Pending[i + 1]
           /\ Pending' \in Seq(1..Len(calls))
  <1>1. /\ worker.at = "answer" /\ worker'.at = "idle" /\ UNCHANGED commandQueue
    BY DEF Answer, IdleWorker
  <1>2. /\ commandQueue \in Seq(1..Len(calls)) /\ worker.ticket \in 1..Len(calls)
        /\ DOMAIN calls = 1..Len(calls)
    BY <1>1, PendingTyped, CurrentWorkTyped DEF TypeInv, TypeOK
  <1>3. Pending' = commandQueue /\ Pending = <<worker.ticket>> \o commandQueue
    BY <1>1 DEF Pending
  <1>4. /\ Len(<<worker.ticket>> \o commandQueue) = Len(commandQueue) + 1
        /\ (<<worker.ticket>> \o commandQueue)[1] = worker.ticket
        /\ \A i \in 1..Len(commandQueue) : (<<worker.ticket>> \o commandQueue)[i + 1] = commandQueue[i]
    BY <1>2
  <1> QED
    BY <1>2, <1>3, <1>4

\* The worker moved on, with or without a result.
LEMMA WorkerMoved ==
    ASSUME worker \in WorkerState
    PROVE  /\ \A at : worker' = [worker EXCEPT !.at = at] =>
                 worker'.at = at /\ worker'.outcome = worker.outcome
           /\ \A at, outcome, seq :
                 worker' = [worker EXCEPT !.at = at, !.outcome = outcome, !.seq = seq] =>
                     worker'.at = at /\ worker'.outcome = outcome
  <1>1. ASSUME NEW at, worker' = [worker EXCEPT !.at = at]
        PROVE  worker'.at = at /\ worker'.outcome = worker.outcome
    BY <1>1 DEF WorkerState
  <1>2. ASSUME NEW at, NEW outcome, NEW seq,
               worker' = [worker EXCEPT !.at = at, !.outcome = outcome, !.seq = seq]
        PROVE  worker'.at = at /\ worker'.outcome = outcome
    BY <1>2 DEF WorkerState
  <1> QED
    BY <1>1, <1>2

\* And what the worker answers settles the call.
HeldInv == NoCallForgotten /\ worker.outcome # "waiting"

LEMMA OutcomeStep ==
    ASSUME TypeInv, [Next]_vars, worker.outcome # "waiting"
    PROVE  worker'.outcome # "waiting"
  <1>1. worker \in WorkerState
    BY DEF TypeInv, TypeOK
  <1>2. /\ \A at : worker' = [worker EXCEPT !.at = at] => worker'.outcome = worker.outcome
        /\ \A at, outcome, seq :
              worker' = [worker EXCEPT !.at = at, !.outcome = outcome, !.seq = seq] =>
                  worker'.outcome = outcome
    BY <1>1, WorkerMoved
  <1>3. IdleWorker.outcome = "none"
    BY DEF IdleWorker
  <1>4. CASE Boot \/ (\E w \in Work : Dispatch(w)) \/ (\E t \in DOMAIN calls : Abandon(t))
             \/ BeginShutdown \/ FinishShutdown \/ UNCHANGED vars
    BY <1>4 DEF Boot, Dispatch, Abandon, BeginShutdown, FinishShutdown, vars
  <1>5. CASE Crash \/ Take \/ Answer
    BY <1>3, <1>5 DEF Crash, Take, Answer
  <1>6. CASE Lookup \/ LookupFails
    <2>1. \/ \E at : worker' = [worker EXCEPT !.at = at]
          \/ \E at, seq : \/ worker' = [worker EXCEPT !.at = at, !.outcome = "accepted", !.seq = seq]
                          \/ worker' = [worker EXCEPT !.at = at, !.outcome = "refused", !.seq = seq]
                          \/ worker' = [worker EXCEPT !.at = at, !.outcome = "failed", !.seq = seq]
      <3>1. CASE Lookup
        BY <3>1, Zenon DEF Lookup, Goto, Finish
      <3>2. CASE LookupFails
        BY <3>2, Zenon DEF LookupFails, Finish
      <3> QED
        BY <1>6, <3>1, <3>2
    <2> QED
      BY <1>2, <2>1
  <1>7. CASE DecideCommand \/ IdentityFails
    <2>1. \/ worker' = [worker EXCEPT !.at = "commit"]
          \/ worker' = [worker EXCEPT !.at = "failed", !.outcome = "rejected", !.seq = 0]
      BY <1>7, Zenon DEF DecideCommand, IdentityFails, Goto, Finish
    <2> QED
      BY <1>2, <2>1
  <1>8. CASE Commit \/ CommitRollsBack \/ CommitAckLost
    <2>1. \/ \E seq : worker' = [worker EXCEPT !.at = "adopt", !.outcome = "accepted", !.seq = seq]
          \/ worker' = [worker EXCEPT !.at = "failed", !.outcome = "failed", !.seq = 0]
      BY <1>8, Zenon DEF Commit, CommitRollsBack, CommitAckLost, Finish
    <2> QED
      BY <1>2, <2>1
  <1>9. CASE Adopt \/ Reconcile \/ ReconcileFails \/ RecordRejection \/ RecordFails
    BY <1>2, <1>9 DEF Adopt, Reconcile, ReconcileFails, RecordRejection, RecordFails, Goto
  <1> QED
    BY <1>4, <1>5, <1>6, <1>7, <1>8, <1>9 DEF Next, WorkerStep

LEMMA NoCallForgottenStep == TypeInv /\ HeldInv /\ [Next]_vars => NoCallForgotten'
  <1> SUFFICES ASSUME TypeInv, HeldInv, [Next]_vars PROVE NoCallForgotten'
    OBVIOUS
  <1>1. /\ Pending \in Seq(1..Len(calls)) /\ commandQueue \in Seq(1..Len(calls))
        /\ calls \in Seq(Call) /\ DOMAIN calls = 1..Len(calls) /\ Len(calls) \in Nat
        /\ DOMAIN Pending = 1..Len(Pending) /\ Len(Pending) \in Nat
        /\ \A i \in DOMAIN Pending : Pending[i] \in 1..Len(calls)
    BY PendingTyped DEF TypeInv, TypeOK
  <1>2. /\ \A i, j \in DOMAIN Pending : i < j => Pending[i] < Pending[j]
        /\ \A t \in DOMAIN calls : calls[t].outcome = "waiting" =>
              phase # "down" /\ \E i \in DOMAIN Pending : Pending[i] = t
    BY DEF HeldInv, NoCallForgotten
  \* Steps that leave the envelopes as they are, and settle calls if anything.
  <1>3. ASSUME Pending' = Pending, phase # "down" => phase' # "down", DOMAIN calls' = DOMAIN calls,
               \A t \in DOMAIN calls : calls'[t].outcome = "waiting" => calls[t].outcome = "waiting"
        PROVE  NoCallForgotten'
    BY <1>2, <1>3 DEF NoCallForgotten
  <1>4. CASE UNCHANGED vars
    BY <1>3, <1>4 DEF vars, Pending
  <1>5. CASE Boot \/ BeginShutdown
    BY <1>3, <1>5 DEF Boot, BeginShutdown, Pending
  <1>6. ASSUME NEW w \in Work, Dispatch(w)
        PROVE  NoCallForgotten'
    <2> DEFINE t == Len(calls) + 1
    <2>1. CASE phase = "running"
      <3>1. /\ calls' = Append(calls, [work |-> w, outcome |-> "waiting", seq |-> 0])
            /\ commandQueue' = Append(commandQueue, t) /\ UNCHANGED <<phase, worker>>
        BY <1>6, <2>1 DEF Dispatch
      <3>2. /\ DOMAIN calls' = 1..t
            /\ \A u \in 1..Len(calls) : calls'[u] = calls[u]
        BY <1>1, <3>1
      <3>3. Pending' = Append(Pending, t)
        <4>1. CASE worker.at = "idle"
          BY <3>1, <4>1 DEF Pending
        <4>2. CASE worker.at # "idle"
          <5>1. worker.ticket \in 1..Len(calls)
            BY <4>2 DEF TypeInv, TypeOK, WorkerState
          <5>2. <<worker.ticket>> \o Append(commandQueue, t) = Append(<<worker.ticket>> \o commandQueue, t)
            BY <1>1, <5>1
          <5> QED
            BY <3>1, <4>2, <5>2 DEF Pending
        <4> QED
          BY <4>1, <4>2
      <3>4. /\ DOMAIN Pending' = 1..(Len(Pending) + 1)
            /\ \A i \in 1..Len(Pending) : Pending'[i] = Pending[i]
            /\ Pending'[Len(Pending) + 1] = t
        BY <1>1, <3>3
      <3>5. \A i, j \in DOMAIN Pending' : i < j => Pending'[i] < Pending'[j]
        <4> SUFFICES ASSUME NEW i \in DOMAIN Pending', NEW j \in DOMAIN Pending', i < j
                     PROVE  Pending'[i] < Pending'[j]
          OBVIOUS
        <4>1. i \in 1..Len(Pending) /\ Pending'[i] = Pending[i]
          BY <1>1, <3>4
        <4>2. CASE j = Len(Pending) + 1
          BY <1>1, <3>4, <4>1, <4>2
        <4>3. CASE j # Len(Pending) + 1
          <5>1. j \in 1..Len(Pending) /\ Pending'[j] = Pending[j]
            BY <1>1, <3>4, <4>3
          <5> QED
            BY <1>1, <1>2, <4>1, <5>1
        <4> QED
          BY <4>2, <4>3
      <3>6. \A u \in DOMAIN calls' : calls'[u].outcome = "waiting" =>
               phase' # "down" /\ \E i \in DOMAIN Pending' : Pending'[i] = u
        <4> SUFFICES ASSUME NEW u \in DOMAIN calls', calls'[u].outcome = "waiting"
                     PROVE  phase' # "down" /\ \E i \in DOMAIN Pending' : Pending'[i] = u
          OBVIOUS
        <4>1. phase' # "down"
          BY <2>1, <3>1
        <4>2. CASE u = t
          <5>1. Len(Pending) + 1 \in DOMAIN Pending'
            BY <1>1, <3>4
          <5> QED
            BY <3>4, <4>1, <4>2, <5>1
        <4>3. CASE u # t
          <5>1. u \in DOMAIN calls /\ calls[u].outcome = "waiting"
            BY <1>1, <3>2, <4>3
          <5>2. PICK i \in DOMAIN Pending : Pending[i] = u
            BY <1>2, <5>1
          <5>3. i \in DOMAIN Pending' /\ Pending'[i] = u
            BY <1>1, <3>4, <5>2
          <5> QED
            BY <4>1, <5>3
        <4> QED
          BY <4>2, <4>3
      <3> QED
        BY <3>5, <3>6 DEF NoCallForgotten
    <2>2. CASE phase # "running"
      <3>1. /\ calls' = Append(calls, [work |-> w, outcome |-> "shutdown", seq |-> 0])
            /\ UNCHANGED <<phase, worker, commandQueue>>
        BY <1>6, <2>2 DEF Dispatch
      <3>2. /\ DOMAIN calls' = 1..t /\ calls'[t].outcome = "shutdown"
            /\ \A u \in 1..Len(calls) : calls'[u] = calls[u]
        BY <1>1, <3>1
      <3>3. Pending' = Pending
        BY <3>1 DEF Pending
      <3> QED
        BY <1>1, <1>2, <3>1, <3>2, <3>3 DEF NoCallForgotten
    <2> QED
      BY <2>1, <2>2
  <1>7. ASSUME NEW t \in DOMAIN calls, Abandon(t)
        PROVE  NoCallForgotten'
    <2>1. /\ calls' = [calls EXCEPT ![t].outcome = "lost"]
          /\ UNCHANGED <<phase, worker, commandQueue>>
      BY <1>7 DEF Abandon
    <2>2. /\ DOMAIN calls' = DOMAIN calls
          /\ \A u \in DOMAIN calls : u # t => calls'[u] = calls[u]
          /\ calls'[t].outcome = "lost"
      <3>1. calls[t] \in Call
        BY <1>1, <1>7
      <3>2. [calls[t] EXCEPT !.outcome = "lost"].outcome = "lost"
        BY <3>1 DEF Call
      <3> QED
        BY <2>1, <3>2
    <2>3. Pending' = Pending
      BY <2>1 DEF Pending
    <2> QED
      BY <1>3, <2>1, <2>2, <2>3
  <1>8. CASE Take
    BY <1>3, <1>8, PendingAfterTake
  <1>9. CASE WorkerGoes
    BY <1>3, <1>9 DEF WorkerGoes, Pending
  <1>10. CASE Answer
    <2>1. /\ Len(Pending) \in Nat \ {0} /\ Len(Pending') = Len(Pending) - 1
          /\ Pending[1] = worker.ticket /\ worker.ticket \in DOMAIN calls
          /\ \A i \in DOMAIN Pending' : Pending'[i] = Pending[i + 1]
          /\ Pending' \in Seq(1..Len(calls))
      BY <1>10, PendingAfterAnswer
    <2>2. DOMAIN Pending' = 1..(Len(Pending) - 1)
      BY <2>1
    <2>3. UNCHANGED phase
      BY <1>10 DEF Answer
    <2>4. /\ DOMAIN calls' = DOMAIN calls
          /\ \A u \in DOMAIN calls : u # worker.ticket => calls'[u] = calls[u]
          /\ calls'[worker.ticket].outcome # "waiting"
      <3> DEFINE t == worker.ticket
      <3>1. /\ calls[t] \in Call /\ worker.outcome # "waiting"
            /\ calls' = IF calls[t].outcome = "waiting"
                        THEN [calls EXCEPT ![t] =
                                [@ EXCEPT !.outcome = worker.outcome, !.seq = worker.seq]]
                        ELSE calls
        <4>1. calls[t] \in Call
          BY <1>1, <2>1
        <4> QED
          BY <1>10, <4>1 DEF Answer, HeldInv
      <3>2. [calls[t] EXCEPT !.outcome = worker.outcome, !.seq = worker.seq].outcome = worker.outcome
        BY <3>1, CallUpdate
      <3> QED
        BY <2>1, <3>1, <3>2
    <2>5. \A i, j \in DOMAIN Pending' : i < j => Pending'[i] < Pending'[j]
      <3>1. \A i \in DOMAIN Pending' : i \in Nat /\ i + 1 \in DOMAIN Pending
        <4>1. DOMAIN Pending = 1..Len(Pending) /\ Len(Pending) \in Nat \ {0}
          BY <1>1, <2>1
        <4> QED
          BY <2>2, <4>1
      <3> QED
        BY <1>2, <2>1, <3>1
    <2>6. ASSUME NEW u \in DOMAIN calls, u # worker.ticket, calls[u].outcome = "waiting"
          PROVE  \E i \in DOMAIN Pending' : Pending'[i] = u
      <3>1. PICK i \in DOMAIN Pending : Pending[i] = u
        BY <1>2, <2>6
      <3>2. i # 1 /\ i \in 1..Len(Pending)
        BY <1>1, <2>1, <2>6, <3>1
      <3>3. i - 1 \in DOMAIN Pending' /\ (i - 1) + 1 = i
        BY <1>1, <2>2, <3>2
      <3>4. Pending'[i - 1] = u
        BY <2>1, <3>1, <3>3
      <3> QED
        BY <3>3, <3>4
    <2> QED
      BY <1>2, <2>3, <2>4, <2>5, <2>6 DEF NoCallForgotten
  <1>11. CASE FinishShutdown
    <2>1. /\ worker.at = "idle" /\ commandQueue = <<>>
          /\ UNCHANGED <<worker, commandQueue, calls>>
      BY <1>11 DEF FinishShutdown
    <2>2. Pending = <<>> /\ Pending' = <<>>
      BY <2>1 DEF Pending
    <2> QED
      BY <1>2, <2>1, <2>2 DEF NoCallForgotten
  <1>12. CASE Crash
    <2>1. /\ calls' = [t \in DOMAIN calls |-> IF calls[t].outcome = "waiting"
                        THEN [calls[t] EXCEPT !.outcome = "lost"] ELSE calls[t]]
          /\ Pending' = <<>>
      BY <1>12 DEF Crash, Pending, IdleWorker
    <2>2. \A t \in DOMAIN calls : [calls[t] EXCEPT !.outcome = "lost"].outcome = "lost"
      BY <1>1 DEF Call
    <2>3. DOMAIN calls' = DOMAIN calls /\ \A t \in DOMAIN calls : calls'[t].outcome # "waiting"
      BY <2>1, <2>2
    <2> QED
      BY <2>1, <2>3 DEF NoCallForgotten
  <1> QED
    BY <1>4, <1>5, <1>6, <1>7, <1>8, <1>9, <1>10, <1>11, <1>12, WorkerGoesOn DEF Next, WorkerStep

\* Nobody waits for an envelope that is gone: it is in the worker's hand or on
\* the queue, once and in the order of the calls, whatever fails, crashes or
\* shuts down (processEnvelope, Queue.end and the finalizer of the layer).
THEOREM EveryCallHeld == Spec => []NoCallForgotten
  <1>1. Init => HeldInv
    BY DEF Init, HeldInv, NoCallForgotten, Pending, IdleWorker
  <1>2. TypeInv /\ HeldInv /\ [Next]_vars => HeldInv'
    BY NoCallForgottenStep, OutcomeStep DEF HeldInv
  <1>3. HeldInv => NoCallForgotten
    BY DEF HeldInv
  <1> QED
    BY <1>1, <1>2, <1>3, TypeInvInit, TypeInvStep, PTL DEF Spec

-----------------------------------------------------------------------------
(* The worker gets on *)

\* The steps the worker has left, at most: those of its envelope, and seven
\* for each on the queue.
StepsFrom == [idle |-> 0, answer |-> 1, record |-> 2, adopt |-> 2, failed |-> 3, commit |-> 4,
              decide |-> 5, lookup |-> 6]
WorkLeft == 7 * Len(commandQueue) + StepsFrom[worker.at]

\* Each step of the worker takes it nearer to an idle worker and an empty
\* queue, and nothing but a call let in puts it further away.
WorkerGetsOn ==
    [][/\ WorkerStep => WorkLeft' \in 0..(WorkLeft - 1)
       /\ phase # "running" \/ calls' = calls => WorkLeft' <= WorkLeft]_vars

LEMMA WorkLeftStep ==
    ASSUME TypeInv, TypeInv', Next
    PROVE  /\ WorkerStep => WorkLeft' \in 0..(WorkLeft - 1)
           /\ phase # "running" \/ calls' = calls => WorkLeft' <= WorkLeft
  <1>1. /\ worker \in WorkerState /\ commandQueue \in Seq(1..Len(calls))
        /\ worker.at \in WorkerPoints /\ Len(commandQueue) \in Nat
    BY DEF TypeInv, TypeOK, WorkerState
  <1>2. /\ worker'.at \in WorkerPoints /\ Len(commandQueue') \in Nat
    BY DEF TypeInv, TypeOK, WorkerState
  <1>3. \A at \in WorkerPoints : StepsFrom[at] \in 0..6 /\ (StepsFrom[at] = 0 => at = "idle")
    BY DEF StepsFrom, WorkerPoints
  <1>4. /\ StepsFrom[worker.at] \in 0..6 /\ StepsFrom[worker'.at] \in 0..6
        /\ WorkLeft = 7 * Len(commandQueue) + StepsFrom[worker.at]
        /\ WorkLeft' = 7 * Len(commandQueue') + StepsFrom[worker'.at]
        /\ WorkLeft \in Nat /\ WorkLeft' \in Nat
    <2>1. StepsFrom[worker.at] \in 0..6 /\ StepsFrom[worker'.at] \in 0..6
      BY <1>1, <1>2, <1>3
    <2>2. /\ WorkLeft = 7 * Len(commandQueue) + StepsFrom[worker.at]
          /\ WorkLeft' = 7 * Len(commandQueue') + StepsFrom[worker'.at]
      BY DEF WorkLeft, StepsFrom
    <2> QED
      BY <1>1, <1>2, <2>1, <2>2
  <1>5. ASSUME StepsFrom[worker'.at] < StepsFrom[worker.at], UNCHANGED commandQueue
        PROVE  WorkLeft' < WorkLeft
    <2>1. Len(commandQueue') = Len(commandQueue)
      BY <1>5
    <2>2. \A n \in Nat : \A i, j \in 0..6 : i < j => 7 * n + i < 7 * n + j
      OBVIOUS
    <2> QED
      BY <1>1, <1>4, <1>5, <2>1, <2>2
  <1>6. /\ \A at : worker' = [worker EXCEPT !.at = at] => worker'.at = at
        /\ \A at, outcome, seq :
              worker' = [worker EXCEPT !.at = at, !.outcome = outcome, !.seq = seq] => worker'.at = at
    BY <1>1, WorkerMoved
  <1>7. CASE Take
    <2>1. /\ worker.at = "idle" /\ Len(commandQueue') = Len(commandQueue) - 1
          /\ UNCHANGED calls
      BY <1>1, <1>7 DEF Take
    <2>2. StepsFrom[worker.at] = 0
      BY <2>1 DEF StepsFrom
    <2>3. WorkLeft' < WorkLeft
      BY SMTT(30), <1>1, <1>2, <1>4, <2>1, <2>2
    <2> QED
      BY <1>4, <2>3
  <1>8. CASE Lookup \/ LookupFails
    <2>1. worker.at = "lookup" /\ worker'.at \in {"answer", "failed", "decide"} /\ UNCHANGED commandQueue
      <3>1. /\ worker.at = "lookup" /\ UNCHANGED commandQueue
            /\ \E outcome, seq :
                  \/ worker' = [worker EXCEPT !.at = "answer", !.outcome = outcome, !.seq = seq]
                  \/ worker' = [worker EXCEPT !.at = "failed", !.outcome = outcome, !.seq = seq]
                  \/ worker' = [worker EXCEPT !.at = "decide"]
        <4>1. CASE Lookup
          BY <4>1, Zenon DEF Lookup, Goto, Finish
        <4>2. CASE LookupFails
          BY <4>2, Zenon DEF LookupFails, Finish
        <4> QED
          BY <1>8, <4>1, <4>2
      <3> QED
        BY <1>6, <3>1
    <2>2. WorkLeft' < WorkLeft
      BY <1>5, <2>1 DEF StepsFrom
    <2> QED
      BY <1>4, <2>2
  <1>9. CASE DecideCommand \/ IdentityFails
    <2>1. worker.at = "decide" /\ worker'.at \in {"commit", "failed"} /\ UNCHANGED commandQueue
      BY <1>6, <1>9 DEF DecideCommand, IdentityFails, Goto, Finish
    <2>2. WorkLeft' < WorkLeft
      BY <1>5, <2>1 DEF StepsFrom
    <2> QED
      BY <1>4, <2>2
  <1>10. CASE Commit \/ CommitRollsBack \/ CommitAckLost
    <2>1. worker.at = "commit" /\ worker'.at \in {"adopt", "failed"} /\ UNCHANGED commandQueue
      BY <1>6, <1>10 DEF Commit, CommitRollsBack, CommitAckLost, Finish
    <2>2. WorkLeft' < WorkLeft
      BY <1>5, <2>1 DEF StepsFrom
    <2> QED
      BY <1>4, <2>2
  <1>11. CASE Adopt \/ Reconcile \/ ReconcileFails
    <2>1. /\ \/ worker.at = "adopt" /\ worker'.at = "answer"
             \/ worker.at = "failed" /\ worker'.at \in {"record", "answer"}
          /\ UNCHANGED commandQueue
      BY <1>6, <1>11 DEF Adopt, Reconcile, ReconcileFails, AfterReconcile, Goto
    <2>2. WorkLeft' < WorkLeft
      BY <1>5, <2>1 DEF StepsFrom
    <2> QED
      BY <1>4, <2>2
  <1>12. CASE RecordRejection \/ RecordFails
    <2>1. worker.at = "record" /\ worker'.at = "answer" /\ UNCHANGED commandQueue
      BY <1>6, <1>12 DEF RecordRejection, RecordFails, Goto
    <2>2. WorkLeft' < WorkLeft
      BY <1>5, <2>1 DEF StepsFrom
    <2> QED
      BY <1>4, <2>2
  <1>13. CASE Answer
    <2>1. worker.at = "answer" /\ worker'.at = "idle" /\ UNCHANGED commandQueue
      BY <1>13 DEF Answer, IdleWorker
    <2>2. WorkLeft' < WorkLeft
      BY <1>5, <2>1 DEF StepsFrom
    <2> QED
      BY <1>4, <2>2
  <1>14. CASE WorkerStep
    BY <1>7, <1>8, <1>9, <1>10, <1>11, <1>12, <1>13, <1>14, <1>4 DEF WorkerStep
  <1>15. CASE ~WorkerStep
    <2>1. CASE Boot \/ BeginShutdown \/ FinishShutdown \/ \E t \in DOMAIN calls : Abandon(t)
      <3>1. UNCHANGED <<worker, commandQueue>>
        BY <2>1 DEF Boot, BeginShutdown, FinishShutdown, Abandon
      <3> QED
        BY <1>4, <1>15, <3>1 DEF WorkLeft
    <2>2. CASE \E w \in Work : Dispatch(w)
      <3>1. calls \in Seq(Call)
        BY DEF TypeInv, TypeOK
      <3>2. calls' # calls
        <4>1. PICK call : calls' = Append(calls, call)
          BY <2>2 DEF Dispatch
        <4>2. calls' \in Seq(Call)
          BY DEF TypeInv, TypeOK
        <4> QED
          BY <3>1, <4>1, <4>2
      <3>3. phase # "running" => UNCHANGED <<worker, commandQueue>>
        BY <2>2 DEF Dispatch
      <3> QED
        BY <1>4, <1>15, <3>2, <3>3 DEF WorkLeft
    <2>3. CASE Crash
      <3>1. commandQueue' = <<>> /\ worker'.at = "idle"
        BY <2>3 DEF Crash, IdleWorker
      <3>2. WorkLeft' = 0
        BY <3>1 DEF WorkLeft, StepsFrom
      <3> QED
        BY <1>4, <1>15, <3>2
    <2> QED
      BY <1>15, <2>1, <2>2, <2>3 DEF Next
  <1> QED
    BY <1>14, <1>15

\* The worker never goes round in circles, on any failure path: what is left to
\* do shrinks with its every step, and once the scope closes, or while nobody
\* calls, with nothing to make it grow (the drain the finalizer waits for).
THEOREM WorkerAlwaysGetsOn == Spec => WorkerGetsOn
  <1>1. TypeInv /\ [Next]_vars =>
          [/\ WorkerStep => WorkLeft' \in 0..(WorkLeft - 1)
           /\ phase # "running" \/ calls' = calls => WorkLeft' <= WorkLeft]_vars
    BY TypeInvStep, WorkLeftStep
  <1> QED
    BY <1>1, TypeInvInit, TypeInvStep, PTL DEF Spec, WorkerGetsOn
=============================================================================

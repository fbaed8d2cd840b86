----------------------- MODULE ProviderBridge_proofs -----------------------
(***************************************************************************)
(* Theorems about ProviderBridge, for any sessions, keys, settings, values *)
(* and bounds.                                                             *)
(***************************************************************************)
EXTENDS ProviderBridge, FiniteSetTheorems, TLAPS

-----------------------------------------------------------------------------
(* Types *)

Chosen == [Sessions -> [Settings -> Values \cup {Default}]]
BridgeType == [adapters : SUBSET Sessions, chosen : Chosen, claimed : SUBSET Keys]
DispatcherType ==
    [at : {"idle", "opening", "calling", "hung", "replaying"}, session : SUBSET Sessions,
     key : SUBSET Keys, todo : SUBSET Settings, tries : 0..Retries]

Call == [during : Nat \X Nat, answer : {"taken", "failed"}]

\* The inductive form of TypeOK.
TypeInv ==
    /\ log \in Seq(Events) /\ position \in 0..Len(log) /\ lost \in SUBSET (1..position)
    /\ bridge \in BridgeType
    /\ fiber \in [Sessions -> {"none", "running", "done"}]
    /\ dispatcher \in DispatcherType
    /\ registered \subseteq Sessions /\ agent \in Chosen
    /\ failureSeq \in Nat
    /\ dispatched \in [Keys -> Seq(Call)]
    /\ failed \in SUBSET Keys /\ cut \in SUBSET Keys /\ dropped \in SUBSET Keys
    /\ refused \subseteq Sessions \X Settings /\ unopened \subseteq Sessions
    /\ boot \in Nat /\ faults \in Nat

\* What the fields of an event are.
LEMMA EventShape ==
    ASSUME NEW e \in Events
    PROVE  /\ e.session \in Sessions
           /\ e.type \in {"created", "command", "set", "removed"}
           /\ e.type = "command" => e.key \in Keys /\ e.origin \in Origins
           /\ e.type = "set" => e.setting \in Settings /\ e.value \in Values
           /\ e.type = "removed" => e = Removed(e.session)
  <1>1. CASE e \in {Created(s, o) : s \in Sessions, o \in Origins}
    BY <1>1 DEF Created
  <1>2. CASE e \in {Command(s, m, o) : s \in Sessions, m \in Keys, o \in Origins}
    BY <1>2 DEF Command
  <1>3. CASE e \in {Set(s, k, v) : s \in Sessions, k \in Settings, v \in Values}
    BY <1>3 DEF Set
  <1>4. CASE e \in {Removed(s) : s \in Sessions}
    BY <1>4 DEF Removed
  <1> QED
    BY <1>1, <1>2, <1>3, <1>4 DEF Events

\* The event the dispatcher is about to consider.
LEMMA NextEvent ==
    ASSUME TypeInv, position < Len(log)
    PROVE  Event \in Events /\ position + 1 \in 0..Len(log) /\ position + 1 \in 1..Len(log)
  BY DEF TypeInv, Event

\* Nothing is chosen at first.
LEMMA NothingChosen ==
    Nothing \in [Settings -> Values \cup {Default}] /\ EmptyBridge \in BridgeType
  BY DEF Nothing, EmptyBridge, BridgeType, Chosen

\* What an event records is of the type of what was recorded.
LEMMA RecordedType ==
    ASSUME NEW b \in BridgeType, NEW e \in Events
    PROVE  Recorded(b, e) \in BridgeType
  <1>1. AdaptersAfter(b, e) \subseteq Sessions
    BY EventShape DEF AdaptersAfter, BridgeType
  <1>2. ClaimsAfter(b, e) \subseteq Keys
    BY EventShape DEF ClaimsAfter, BridgeType
  <1>3. ChosenAfter(b, e) \in Chosen
    <2>1. b.chosen \in Chosen /\ e.session \in Sessions
      BY EventShape DEF BridgeType
    <2>2. CASE e.type = "set"
      <3>1. e.setting \in Settings /\ e.value \in Values
        BY <2>2, EventShape
      <3>2. ChosenAfter(b, e) = [b.chosen EXCEPT ![e.session][e.setting] = e.value]
        BY <2>2 DEF ChosenAfter
      <3> QED
        BY <2>1, <3>1, <3>2 DEF Chosen
    <2>3. CASE e.type = "removed"
      <3>1. ChosenAfter(b, e) = [b.chosen EXCEPT ![e.session] = Nothing]
        BY <2>3 DEF ChosenAfter
      <3> QED
        BY <2>1, <3>1, NothingChosen DEF Chosen
    <2>4. CASE e.type # "set" /\ e.type # "removed"
      BY <2>1, <2>4 DEF ChosenAfter
    <2> QED
      BY <2>2, <2>3, <2>4
  <1> QED
    BY <1>1, <1>2, <1>3 DEF Recorded, BridgeType

\* The states of the dispatcher are of its type.
LEMMA DispatcherTypes ==
    /\ Idle \in DispatcherType
    /\ [Idle EXCEPT !.at = "replaying"] \in DispatcherType
    /\ \A s \in Sessions, key \in SUBSET Keys : Opening(s, key) \in DispatcherType
    /\ \A s \in Sessions, key \in SUBSET Keys, todo \in SUBSET Settings :
          Calling(s, key, todo) \in DispatcherType
  BY BridgeAssumption DEF Idle, Opening, Calling, DispatcherType

\* A call that delivers the command in hand, whatever the answer.
LEMMA DeliverIs ==
    ASSUME TypeInv, NEW m \in Keys, NEW answer \in {"taken", "failed"}, Deliver(m, answer)
    PROVE  LET call == [during |-> <<boot, position>>, answer |-> answer]
           IN  /\ dispatched' \in [Keys -> Seq(Call)]
               /\ dispatched'[m] = Append(dispatched[m], call)
               /\ \A n \in Keys \ {m} : dispatched'[n] = dispatched[n]
               /\ dispatched[m] \in Seq(Call) /\ call \in Call
  <1> DEFINE call == [during |-> <<boot, position>>, answer |-> answer]
  <1>1. position \in Nat /\ boot \in Nat
    BY DEF TypeInv
  <1>2. call \in Call
    BY <1>1 DEF Call
  <1>3. dispatched' = [dispatched EXCEPT ![m] = Append(dispatched[m], call)]
    BY DEF Deliver
  <1> HIDE DEF call
  <1>4. dispatched \in [Keys -> Seq(Call)]
    BY DEF TypeInv
  <1>5. dispatched[m] \in Seq(Call) /\ Append(dispatched[m], call) \in Seq(Call)
    BY <1>2, <1>4
  <1>6. /\ dispatched' \in [Keys -> Seq(Call)]
        /\ dispatched'[m] = Append(dispatched[m], call)
        /\ \A n \in Keys \ {m} : dispatched'[n] = dispatched[n]
    BY <1>3, <1>4, <1>5
  <1> QED
    BY <1>2, <1>5, <1>6 DEF call

\* A failing attempt leaves the history of calls as it is, or adds to that of the
\* command in hand, when no setting is left.
LEMMA AttemptIs ==
    ASSUME TypeInv, AttemptFails
    PROVE  /\ dispatcher.at = "calling" /\ faults' \in Nat
           /\ dispatched' \in [Keys -> Seq(Call)]
           /\ \/ dispatched' = dispatched
              \/ /\ dispatcher.todo = {}
                 /\ \E m \in dispatcher.key : m \in Keys /\ Deliver(m, "failed")
  <1>1. faults' \in Nat
    BY DEF AttemptFails, Fault, TypeInv
  <1>2. \/ dispatched' = dispatched
        \/ dispatcher.todo = {} /\ \E m \in dispatcher.key : m \in Keys /\ Deliver(m, "failed")
    BY DEF AttemptFails, TypeInv, DispatcherType
  <1>3. dispatched' \in [Keys -> Seq(Call)]
    BY <1>2, DeliverIs DEF TypeInv
  <1> QED
    BY <1>1, <1>2, <1>3 DEF AttemptFails

\* A call that fails for good: it was a setting, or the command, which then is no
\* longer in hand.
LEMMA CallFailsIs ==
    ASSUME TypeInv, CallFails
    PROVE  /\ dispatcher.at = "calling" /\ faults' \in Nat
           /\ dispatched' \in [Keys -> Seq(Call)]
           /\ \E s \in dispatcher.session :
                 /\ s \in Sessions /\ Raise(s)
                 /\ \/ \E k \in dispatcher.todo :
                          /\ k \in Settings /\ dispatcher.todo # {}
                          /\ agent' \in {agent, [agent EXCEPT ![s][k] = bridge.chosen[s][k]]}
                          /\ dispatcher' = Calling(s, dispatcher.key, dispatcher.todo \ {k})
                          /\ refused' = refused \cup {<<s, k>>}
                          /\ UNCHANGED <<dispatched, failed>>
                    \/ /\ dispatcher.todo = {} /\ dispatcher' = Idle
                       /\ failed' = failed \cup dispatcher.key
                       /\ UNCHANGED <<agent, refused>>
                       /\ \/ dispatched' = dispatched
                          \/ \E m \in dispatcher.key : m \in Keys /\ Deliver(m, "failed")
  <1>1. PICK s \in dispatcher.session :
           /\ Raise(s)
           /\ \/ \E k \in dispatcher.todo :
                    /\ \/ dispatcher.tries = 0 /\ AttemptFails /\ UNCHANGED agent
                       \/ SettingRefused(s, k)
                    /\ dispatcher' = Calling(s, dispatcher.key, dispatcher.todo \ {k})
                    /\ refused' = refused \cup {<<s, k>>}
                    /\ UNCHANGED failed
              \/ /\ dispatcher.todo = {} /\ dispatcher.tries = 0 /\ AttemptFails
                 /\ dispatcher' = Idle
                 /\ failed' = failed \cup dispatcher.key
                 /\ UNCHANGED <<agent, refused>>
    BY DEF CallFails
  <1>2. s \in Sessions /\ dispatcher.todo \in SUBSET Settings
    BY DEF TypeInv, DispatcherType
  <1>3. ASSUME NEW k \in dispatcher.todo, SettingRefused(s, k)
        PROVE  /\ faults' \in Nat /\ dispatched' = dispatched
               /\ agent' \in {agent, [agent EXCEPT ![s][k] = bridge.chosen[s][k]]}
    BY <1>3 DEF SettingRefused, Fault, TypeInv
  <1>4. ASSUME NEW k \in dispatcher.todo, AttemptFails PROVE dispatched' = dispatched
    BY <1>4, AttemptIs
  <1>5. dispatched \in [Keys -> Seq(Call)]
    BY DEF TypeInv
  <1>6. faults' \in Nat /\ dispatched' \in [Keys -> Seq(Call)]
    BY <1>1, <1>3, <1>5, AttemptIs
  <1>7. dispatcher.at = "calling"
    BY DEF CallFails
  <1>8. CASE \E k \in dispatcher.todo :
                /\ \/ dispatcher.tries = 0 /\ AttemptFails /\ UNCHANGED agent
                   \/ SettingRefused(s, k)
                /\ dispatcher' = Calling(s, dispatcher.key, dispatcher.todo \ {k})
                /\ refused' = refused \cup {<<s, k>>}
                /\ UNCHANGED failed
    BY <1>1, <1>2, <1>3, <1>4, <1>6, <1>7, <1>8
  <1>9. CASE /\ dispatcher.todo = {} /\ dispatcher.tries = 0 /\ AttemptFails
             /\ dispatcher' = Idle
             /\ failed' = failed \cup dispatcher.key
             /\ UNCHANGED <<agent, refused>>
    BY <1>1, <1>2, <1>6, <1>7, <1>9, AttemptIs
  <1> QED
    BY <1>1, <1>8, <1>9

\* What is cut off are keys.
LEMMA UnclaimedIs == \A indices : Unclaimed(indices) \subseteq Keys
  BY DEF Unclaimed

-----------------------------------------------------------------------------
(* Type correctness *)

LEMMA TypeInvInit == Init => TypeInv
  BY NothingChosen, DispatcherTypes DEF Init, TypeInv, Chosen

LEMMA TypeInvCommit ==
    ASSUME TypeInv, NEW e \in Events, Commit(e)
    PROVE  TypeInv'
  <1>1. log' \in Seq(Events) /\ Len(log') = Len(log) + 1 /\ Len(log) \in Nat
    BY DEF TypeInv, Commit
  <1> QED
    BY <1>1 DEF TypeInv, Commit, adapterState, failures, history, outcomes

\* Considering an event moves the position to it.
LEMMA TypeInvConsider ==
    ASSUME TypeInv
    PROVE  /\ ConsiderSessionCreated => TypeInv'
           /\ ConsiderCommand => TypeInv'
           /\ ConsiderSetting => TypeInv'
           /\ ConsiderSessionRemoved => TypeInv'
           /\ ReplayEvent => TypeInv'
  <1> DEFINE next == Recorded(bridge, Event)
  <1>1. ASSUME position < Len(log)
        PROVE  /\ Event.session \in Sessions
               /\ Event.type = "command" => {Event.key} \subseteq Keys
               /\ Event.type = "set" => {Event.setting} \subseteq Settings
               /\ next \in BridgeType
               /\ position + 1 \in 0..Len(log)
    BY <1>1, NextEvent, EventShape, RecordedType DEF TypeInv
  <1>2. ASSUME NEW type, Considers(type)
        PROVE  /\ position < Len(log) /\ position' = position + 1 /\ Event.type = type
               /\ lost' = lost
    BY <1>2 DEF Considers
  <1>2a. lost \in SUBSET (1..(position + 1))
    BY DEF TypeInv
  <1> HIDE DEF next
  <1>3. CASE ConsiderSessionCreated
    <2>1. /\ position' \in 0..Len(log') /\ lost' \in SUBSET (1..position')
          /\ bridge' \in BridgeType /\ dispatcher' \in DispatcherType
      BY <1>1, <1>2, <1>2a, <1>3, DispatcherTypes DEF ConsiderSessionCreated, TypeInv, next
    <2> QED
      BY <1>3, <2>1 DEF ConsiderSessionCreated, TypeInv, adapterState, failures, history, outcomes
  <1>4. CASE ConsiderCommand
    <2>1. /\ position' \in 0..Len(log') /\ lost' \in SUBSET (1..position') /\ bridge' \in BridgeType
          /\ dispatcher' \in DispatcherType
      <3>1. {Event.key} \in SUBSET Keys /\ {} \in SUBSET Keys /\ {} \in SUBSET Settings
        BY <1>1, <1>2, <1>4 DEF ConsiderCommand
      <3>2. PICK key \in SUBSET Keys :
               \/ UNCHANGED dispatcher
               \/ dispatcher' = Calling(Event.session, key, {})
               \/ dispatcher' = Opening(Event.session, key)
        BY <1>4, <3>1 DEF ConsiderCommand
      <3>3. Event.session \in Sessions /\ dispatcher \in DispatcherType
        BY <1>1, <1>2, <1>4 DEF ConsiderCommand, TypeInv
      <3>4. dispatcher' \in DispatcherType
        BY <3>1, <3>2, <3>3, DispatcherTypes
      <3> QED
        BY <1>1, <1>2, <1>2a, <1>4, <3>4 DEF ConsiderCommand, TypeInv, next
    <2>2. dropped' \in SUBSET Keys
      BY <1>1, <1>2, <1>4 DEF ConsiderCommand, TypeInv
    <2> QED
      BY <1>4, <2>1, <2>2 DEF ConsiderCommand, TypeInv, adapterState, failures
  <1>5. CASE ConsiderSetting
    <2>1. /\ position' \in 0..Len(log') /\ lost' \in SUBSET (1..position')
          /\ bridge' \in BridgeType /\ dispatcher' \in DispatcherType
      <3>1. {Event.setting} \in SUBSET Settings /\ {} \in SUBSET Settings /\ {} \in SUBSET Keys
        BY <1>1, <1>2, <1>5 DEF ConsiderSetting
      <3>2. PICK todo \in SUBSET Settings :
               \/ UNCHANGED dispatcher
               \/ dispatcher' = Calling(Event.session, {}, todo)
               \/ dispatcher' = Opening(Event.session, {})
        BY <1>5, <3>1 DEF ConsiderSetting
      <3>3. Event.session \in Sessions /\ dispatcher \in DispatcherType
        BY <1>1, <1>2, <1>5 DEF ConsiderSetting, TypeInv
      <3>4. dispatcher' \in DispatcherType
        BY <3>1, <3>2, <3>3, DispatcherTypes
      <3> QED
        BY <1>1, <1>2, <1>2a, <1>5, <3>4 DEF ConsiderSetting, TypeInv, next
    <2> QED
      BY <1>5, <2>1 DEF ConsiderSetting, TypeInv, adapterState, failures, history, outcomes
  <1>6. CASE ConsiderSessionRemoved
    <2>1. /\ position' \in 0..Len(log') /\ lost' \in SUBSET (1..position') /\ bridge' \in BridgeType /\ Event.session \in Sessions
      BY <1>1, <1>2, <1>2a, <1>6 DEF ConsiderSessionRemoved, TypeInv, next
    <2> QED
      BY <1>6, <2>1 DEF ConsiderSessionRemoved, TypeInv, failures, history, outcomes
  <1>7. CASE ReplayEvent
    <2>1. /\ position' \in 0..Len(log') /\ lost' \in SUBSET (1..position') /\ bridge' \in BridgeType
      BY <1>1, <1>2a, <1>7 DEF ReplayEvent, TypeInv, next
    <2> QED
      BY <1>7, <2>1 DEF ReplayEvent, TypeInv, adapterState, failures, history, outcomes
  <1> QED
    BY <1>3, <1>4, <1>5, <1>6, <1>7

LEMMA TypeInvPassOver == TypeInv /\ PassOver => TypeInv'
  <1> SUFFICES ASSUME TypeInv, PassOver PROVE TypeInv'
    OBVIOUS
  <1>1. position < Len(log)
    BY DEF PassOver
  <1>2. position + 1 \in 0..Len(log) /\ Event.session \in Sessions
    BY <1>1, NextEvent, EventShape
  <1>3. lost' \in SUBSET (1..position')
    BY <1>2 DEF PassOver, TypeInv
  <1>4. cut' \in SUBSET Keys /\ unopened' \subseteq Sessions
    BY <1>2, UnclaimedIs DEF PassOver, TypeInv
  <1>5. faults' \in Nat /\ position' \in 0..Len(log')
    BY <1>2 DEF PassOver, Fault, TypeInv
  <1>6. /\ UNCHANGED <<log, bridge, fiber, dispatcher, registered, agent, failureSeq>>
        /\ UNCHANGED <<dispatched, failed, dropped, refused, boot>>
    BY DEF PassOver, adapterState, failures
  <1> QED
    BY <1>3, <1>4, <1>5, <1>6 DEF TypeInv

LEMMA TypeInvOpening ==
    ASSUME TypeInv
    PROVE  /\ OpenSession => TypeInv'
           /\ RootMissing => TypeInv'
  <1>1. CASE OpenSession
    <2>1. PICK s \in dispatcher.session :
             /\ bridge' = [bridge EXCEPT !.adapters = @ \cup {s}]
             /\ fiber' = [fiber EXCEPT ![s] = "running"]
             /\ dispatcher' = Calling(s, dispatcher.key, ToApply(s))
      BY <1>1 DEF OpenSession
    <2>2. s \in Sessions /\ dispatcher.key \in SUBSET Keys
      BY DEF TypeInv, DispatcherType
    <2>3. dispatcher' \in DispatcherType
      BY <2>1, <2>2, DispatcherTypes DEF ToApply
    <2>4. bridge' \in BridgeType
      BY <2>1, <2>2 DEF TypeInv, BridgeType
    <2> QED
      BY <1>1, <2>1, <2>2, <2>3, <2>4 DEF OpenSession, TypeInv, adapterState, failures, history, outcomes
  <1>2. CASE RootMissing
    <2>1. PICK s \in dispatcher.session :
             /\ Raise(s)
             /\ dispatcher' = Calling(s, dispatcher.key, {})
             /\ unopened' = IF s \in bridge.adapters THEN unopened ELSE unopened \cup {s}
      BY <1>2 DEF RootMissing
    <2>2. s \in Sessions /\ dispatcher.key \in SUBSET Keys
      BY DEF TypeInv, DispatcherType
    <2>3. dispatcher' \in DispatcherType
      BY <2>1, <2>2, DispatcherTypes
    <2>4. failureSeq' \in Nat
      BY <2>1 DEF Raise, TypeInv
    <2> QED
      BY <1>2, <2>1, <2>2, <2>3, <2>4 DEF RootMissing, Fault, TypeInv, adapterState, outcomes
  <1> QED
    BY <1>1, <1>2

LEMMA TypeInvCalling ==
    ASSUME TypeInv
    PROVE  /\ \A s \in Sessions, k \in Settings : ApplySetting(s, k) => TypeInv'
           /\ \A s \in Sessions, m \in Keys : DispatchCommand(s, m) => TypeInv'
           /\ RetryCall => TypeInv'
           /\ CallFails => TypeInv'
           /\ CallHangs \/ CallResumes \/ ReplayEnds => TypeInv'
  <1>0. dispatcher.key \in SUBSET Keys /\ dispatcher.todo \in SUBSET Settings
        /\ dispatcher.session \in SUBSET Sessions
    BY DEF TypeInv, DispatcherType
  <1>1. ASSUME NEW s \in Sessions, NEW k \in Settings, ApplySetting(s, k)
        PROVE  TypeInv'
    <2>1. dispatcher' \in DispatcherType
      BY <1>0, <1>1, DispatcherTypes DEF ApplySetting
    <2>2. agent' \in Chosen
      <3>1. bridge.chosen[s][k] \in Values \cup {Default}
        BY DEF TypeInv, BridgeType, Chosen
      <3> QED
        BY <1>1, <3>1 DEF ApplySetting, TypeInv, Chosen
    <2> QED
      BY <1>1, <2>1, <2>2 DEF ApplySetting, TypeInv, failures, outcomes
  <1>2. ASSUME NEW s \in Sessions, NEW m \in Keys, DispatchCommand(s, m)
        PROVE  TypeInv'
    <2>1. dispatcher' \in DispatcherType /\ dispatched' \in [Keys -> Seq(Call)]
      BY <1>2, DispatcherTypes, DeliverIs DEF DispatchCommand
    <2> QED
      BY <1>2, <2>1 DEF DispatchCommand, TypeInv, adapterState, failures
  <1>3. CASE RetryCall
    <2>1. dispatcher' \in DispatcherType
      <3>1. dispatcher.tries \in 0..Retries /\ dispatcher.tries > 0 /\ Retries \in Nat
        BY <1>3, BridgeAssumption DEF RetryCall, TypeInv, DispatcherType
      <3>2. dispatcher.tries - 1 \in 0..Retries
        BY <3>1
      <3>3. dispatcher' = [dispatcher EXCEPT !.tries = dispatcher.tries - 1]
        BY <1>3 DEF RetryCall
      <3> QED
        BY <3>2, <3>3 DEF TypeInv, DispatcherType
    <2>2. faults' \in Nat /\ dispatched' \in [Keys -> Seq(Call)]
      BY <1>3, AttemptIs DEF RetryCall
    <2> QED
      BY <1>3, <2>1, <2>2 DEF RetryCall, TypeInv, adapterState, failures
  <1>4. CASE CallFails
    <2>1. PICK s \in dispatcher.session :
             /\ s \in Sessions /\ Raise(s)
             /\ \/ \E k \in dispatcher.todo :
                      /\ k \in Settings
                      /\ agent' \in {agent, [agent EXCEPT ![s][k] = bridge.chosen[s][k]]}
                      /\ dispatcher' = Calling(s, dispatcher.key, dispatcher.todo \ {k})
                      /\ refused' = refused \cup {<<s, k>>}
                      /\ UNCHANGED failed
                \/ /\ dispatcher' = Idle
                   /\ failed' = failed \cup dispatcher.key
                   /\ UNCHANGED <<agent, refused>>
      BY <1>4, CallFailsIs
    <2>2. dispatcher' \in DispatcherType /\ failed' \in SUBSET Keys
      <3>1. \A k : dispatcher.todo \ {k} \in SUBSET Settings
        BY <1>0
      <3>2. \A k : Calling(s, dispatcher.key, dispatcher.todo \ {k}) \in DispatcherType
        BY <1>0, <2>1, <3>1, DispatcherTypes
      <3>3. failed \in SUBSET Keys /\ failed \cup dispatcher.key \in SUBSET Keys
        BY <1>0 DEF TypeInv
      <3> QED
        BY <2>1, <3>2, <3>3, DispatcherTypes
    <2>3. refused' \subseteq Sessions \X Settings
      <3>1. refused \subseteq Sessions \X Settings
        BY DEF TypeInv
      <3>2. \A k \in Settings : {<<s, k>>} \subseteq Sessions \X Settings
        BY <2>1
      <3> QED
        BY <2>1, <3>1, <3>2
    <2>4. agent' \in Chosen
      <3>1. \A k \in Settings : [agent EXCEPT ![s][k] = bridge.chosen[s][k]] \in Chosen
        <4>1. \A k \in Settings : bridge.chosen[s][k] \in Values \cup {Default}
          BY <2>1 DEF TypeInv, BridgeType, Chosen
        <4> QED
          BY <2>1, <4>1 DEF TypeInv, Chosen
      <3> QED
        BY <2>1, <3>1 DEF TypeInv
    <2>5. failureSeq' \in Nat
      BY <2>1 DEF Raise, TypeInv
    <2> QED
      BY <1>4, <2>2, <2>3, <2>4, <2>5, CallFailsIs DEF CallFails, TypeInv
  <1>5. CASE ReplayEnds
    BY <1>5, DispatcherTypes DEF ReplayEnds, TypeInv, adapterState, failures, history, outcomes
  <1>6. CASE CallHangs \/ CallResumes
    <2>1. dispatcher' \in DispatcherType
      BY <1>6 DEF CallHangs, CallResumes, TypeInv, DispatcherType
    <2> QED
      BY <1>6, <2>1 DEF CallHangs, CallResumes, Fault, TypeInv, adapterState, failures, history,
        outcomes
  <1> QED
    BY <1>1, <1>2, <1>3, <1>4, <1>5, <1>6

LEMMA TypeInvFibers ==
    ASSUME TypeInv
    PROVE  /\ \A s \in Sessions : Register(s) \/ StreamEnds(s) \/ StreamFails(s) => TypeInv'
           /\ Restart => TypeInv'
  <1>1. ASSUME NEW s \in Sessions, Register(s)
        PROVE  TypeInv'
    BY <1>1, NothingChosen DEF Register, TypeInv, Chosen, failures, history, outcomes
  <1>2. ASSUME NEW s \in Sessions, StreamEnds(s) \/ StreamFails(s)
        PROVE  TypeInv'
    <2>1. /\ fiber' \in [Sessions -> {"none", "running", "done"}]
          /\ registered' \subseteq Sessions /\ failureSeq' \in Nat /\ faults' \in Nat
      <3>1. failureSeq' \in Nat
        <4>1. StreamEnds(s) => failureSeq' = failureSeq
          BY DEF StreamEnds, failures
        <4>2. StreamFails(s) => failureSeq' = failureSeq + 1
          BY DEF StreamFails, Raise
        <4> QED
          BY <1>2, <4>1, <4>2 DEF TypeInv
      <3>2. /\ fiber' = [fiber EXCEPT ![s] = "done"] /\ registered' = registered \ {s}
            /\ faults' = faults + 1
        BY <1>2 DEF StreamEnds, StreamFails, Fault
      <3> QED
        BY <3>1, <3>2 DEF TypeInv
    <2>2. /\ UNCHANGED <<log, position, lost, bridge, dispatcher, agent, dispatched, failed>>
          /\ UNCHANGED <<cut, dropped, refused, unopened, boot>>
      BY <1>2 DEF StreamEnds, StreamFails, history, outcomes
    <2> QED
      BY <2>1, <2>2 DEF TypeInv
  <1>3. CASE Restart
    <2>1. cut' \in SUBSET Keys /\ lost' \in SUBSET (1..position')
      BY <1>3, UnclaimedIs DEF Restart, TypeInv, DispatcherType
    <2> QED
      BY <1>3, <2>1, NothingChosen, DispatcherTypes DEF Restart, TypeInv, Chosen
  <1> QED
    BY <1>1, <1>2, <1>3

LEMMA TypeInvStep == TypeInv /\ [Next]_vars => TypeInv'
  <1> SUFFICES ASSUME TypeInv, [Next]_vars PROVE TypeInv'
    OBVIOUS
  <1>1. CASE UNCHANGED vars
    BY <1>1 DEF TypeInv, vars, adapterState, failures, history, outcomes
  <1>2. CASE Next
    BY <1>2, TypeInvCommit, TypeInvConsider, TypeInvPassOver, TypeInvOpening, TypeInvCalling,
       TypeInvFibers
    DEF Next, DispatcherStep
  <1> QED
    BY <1>1, <1>2

\* Type correctness: what the bridge records, waits for and forwards is about
\* sessions, keys and settings that exist, and the retries stay in their bound.
THEOREM TypeCorrect == Spec => []TypeOK
  <1>1. Init => TypeInv
    BY TypeInvInit
  <1>2. TypeInv /\ [Next]_vars => TypeInv'
    BY TypeInvStep
  <1>3. TypeInv => TypeOK
    BY DEF TypeInv, TypeOK, BridgeType, DispatcherType, Chosen, Call
  <1> QED
    BY <1>1, <1>2, <1>3, PTL DEF Spec

-----------------------------------------------------------------------------
(* Failures: the ids of a boot are drawn from one counter *)

FailInv ==
    /\ recorded \subseteq raised
    /\ \A f \in raised : /\ f.boot \in Nat /\ f.boot <= boot
                         /\ f.id[2] \in Nat
                         /\ f.boot = boot => f.id[2] <= failureSeq
    /\ FailuresRecordedOnceAnId

\* A failure raised now has an id that no failure of this boot has.
LEMMA FailInvRaise ==
    ASSUME TypeInv, FailInv, NEW s, Raise(s), UNCHANGED boot
    PROVE  FailInv'
  <1> DEFINE id == <<s, failureSeq + 1>>
             failure == [id |-> id, boot |-> boot, count |-> Cardinality(raised)]
  <1>1. /\ failureSeq' = failureSeq + 1
        /\ raised' = raised \cup {failure}
        /\ recorded' = IF \E f \in recorded : f.id = id THEN recorded ELSE recorded \cup {failure}
    BY DEF Raise, RaiseAs
  <1>2. /\ failureSeq \in Nat /\ boot \in Nat
        /\ failure.id = id /\ failure.boot = boot /\ id[2] = failureSeq + 1
    BY DEF TypeInv
  <1> HIDE DEF failure, id
  <1>3. recorded' \subseteq raised' /\ recorded \subseteq recorded'
    BY <1>1 DEF FailInv
  <1>4. \A f \in raised' : /\ f.boot \in Nat /\ f.boot <= boot'
                           /\ f.id[2] \in Nat
                           /\ f.boot = boot' => f.id[2] <= failureSeq'
    <2>1. ASSUME NEW f \in raised
          PROVE  /\ f.boot \in Nat /\ f.boot <= boot
                 /\ f.id[2] \in Nat
                 /\ f.boot = boot => f.id[2] <= failureSeq'
      BY <1>1, <1>2 DEF FailInv
    <2> QED
      BY <1>1, <1>2, <2>1
  <1>5. ASSUME NEW f \in raised'
        PROVE  f \in recorded' \/ \E g \in recorded' : g.id = f.id /\ g.boot < f.boot
    <2>1. CASE f \in raised
      BY <1>3, <2>1 DEF FailInv, FailuresRecordedOnceAnId
    <2>2. CASE f = failure
      <3>1. CASE \E g \in recorded : g.id = id
        <4>1. PICK g \in recorded : g.id = id
          BY <3>1
        <4>2. g.boot \in Nat /\ g.boot <= boot /\ ~(g.boot = boot)
          BY <1>2, <4>1 DEF FailInv
        <4> QED
          BY <1>2, <1>3, <2>2, <4>1, <4>2
      <3>2. CASE ~ \E g \in recorded : g.id = id
        BY <1>1, <2>2, <3>2
      <3> QED
        BY <3>1, <3>2
    <2> QED
      BY <1>1, <2>1, <2>2
  <1> QED
    BY <1>3, <1>4, <1>5 DEF FailInv, FailuresRecordedOnceAnId

LEMMA FailInvStep == TypeInv /\ FailInv /\ [Next]_vars => FailInv'
  <1> SUFFICES ASSUME TypeInv, FailInv, [Next]_vars PROVE FailInv'
    OBVIOUS
  <1>1. ASSUME UNCHANGED <<failures, boot>>
        PROVE  FailInv'
    BY <1>1 DEF failures, FailInv, FailuresRecordedOnceAnId
  <1>2. CASE Restart
    <2>1. boot \in Nat /\ boot' = boot + 1 /\ UNCHANGED <<recorded, raised>>
      BY <1>2 DEF Restart, TypeInv
    <2>2. \A f \in raised : f.boot \in Nat /\ f.boot <= boot' /\ f.boot # boot'
      BY <2>1 DEF FailInv
    <2> QED
      BY <2>1, <2>2 DEF FailInv, FailuresRecordedOnceAnId
  <1>3. CASE RootMissing \/ CallFails \/ \E s \in Sessions : StreamFails(s)
    BY <1>3, FailInvRaise DEF RootMissing, CallFails, StreamFails
  <1>4. CASE \E e \in Events : Commit(e)
    BY <1>1, <1>4 DEF Commit
  <1>5. CASE PassOver \/ CallHangs \/ CallResumes \/ \E s \in Sessions : Register(s) \/ StreamEnds(s)
    BY <1>1, <1>5 DEF PassOver, CallHangs, CallResumes, Register, StreamEnds
  <1>6. CASE UNCHANGED vars
    BY <1>1, <1>6 DEF vars
  <1>7. CASE DispatcherStep /\ ~CallFails
    BY <1>1, <1>7 DEF DispatcherStep, ReplayEvent, ReplayEnds, ConsiderSessionCreated,
      ConsiderCommand, ConsiderSetting, ConsiderSessionRemoved, OpenSession, RetryCall,
      ApplySetting, DispatchCommand
  <1> QED
    BY <1>2, <1>3, <1>4, <1>5, <1>6, <1>7 DEF Next

\* A failure of the bridge is in the log, or its id was used up by an earlier
\* boot (failureSeq of ProviderBridge.ts, which starts over).
THEOREM FailuresRecorded == Spec => []FailuresRecordedOnceAnId
  <1>1. Init => TypeInv /\ FailInv
    BY TypeInvInit DEF Init, FailInv, FailuresRecordedOnceAnId
  <1>2. TypeInv /\ FailInv /\ [Next]_vars => TypeInv' /\ FailInv'
    BY TypeInvStep, FailInvStep
  <1>3. FailInv => FailuresRecordedOnceAnId
    BY DEF FailInv
  <1> QED
    BY <1>1, <1>2, <1>3, PTL DEF Spec

-----------------------------------------------------------------------------
(* Claims: what was considered is claimed, what was dispatched is claimed;  *)
(* and the calls of one command are the attempts at one consideration       *)

LiveCommand(m) == \E i \in Commands(m) : log[i].origin = "live"

\* Every one of these calls failed, and was made then.
OnlyFailed(calls, during) ==
    \A c \in DOMAIN calls : calls[c].during = during /\ calls[c].answer = "failed"

\* What NoWorkTwice says of the calls of one key.
Orderly(calls) ==
    /\ \A c \in DOMAIN calls : calls[c].during = calls[1].during
    /\ \A c \in DOMAIN calls : c < Len(calls) => calls[c].answer = "failed"
    /\ Len(calls) <= Retries + 1

\* The tries that are left pay for the calls still to be made.
InHand(m) ==
    /\ m \in bridge.claimed /\ LiveCommand(m)
    /\ OnlyFailed(dispatched[m], <<boot, position>>)
    /\ Len(dispatched[m]) + dispatcher.tries <= Retries
    /\ dispatched[m] # <<>> => dispatcher.todo = {} /\ dispatcher.at # "opening"

WorkInv ==
    /\ \A i \in Considered : log[i].type = "command" => log[i].key \in bridge.claimed
    /\ dispatcher.at = "replaying" => lost = {}
    /\ dispatcher.at # "replaying" =>
          \A m \in Keys : dispatched[m] # <<>> => m \in bridge.claimed
    /\ \A m \in Keys : Orderly(dispatched[m]) /\ (dispatched[m] # <<>> => LiveCommand(m))
    /\ dispatcher.at \in {"idle", "replaying"} => dispatcher.key = {}
    /\ \A m \in dispatcher.key : InHand(m)

LEMMA WorkInvInit == Init => WorkInv
  BY BridgeAssumption DEF Init, WorkInv, Idle, Considered, Orderly

\* Events are considered one by one.
LEMMA ConsideredGrows ==
    ASSUME TypeInv
    PROVE  /\ Considered \subseteq 1..position /\ Considered \subseteq DOMAIN log
           /\ \A i \in Considered : i \in Nat /\ i >= 1 /\ i <= position /\ log[i] \in Events
           /\ position' = position + 1 /\ lost' = lost => Considered' = Considered \cup {position + 1}
           /\ position' = position + 1 /\ lost' = lost \cup {position + 1} => Considered' = Considered
           /\ UNCHANGED <<position, lost>> => Considered' = Considered
           /\ lost = {} => Considered = 1..position
  BY DEF TypeInv, Considered

\* The log only grows, so a live command stays one.
LEMMA LiveCommandStays ==
    ASSUME TypeInv, NEW m, LiveCommand(m),
           log' = log \/ \E e \in Events : log' = Append(log, e)
    PROVE  LiveCommand(m)'
  <1>1. PICK i \in DOMAIN log : log[i].type = "command" /\ log[i].key = m /\ log[i].origin = "live"
    BY DEF LiveCommand, Commands
  <1>2. i \in DOMAIN log' /\ log'[i] = log[i]
    BY DEF TypeInv
  <1> QED
    BY <1>1, <1>2 DEF LiveCommand, Commands

LEMMA WorkInvCommit ==
    ASSUME TypeInv, WorkInv, NEW e \in Events, Commit(e)
    PROVE  WorkInv'
  <1>1. /\ log' = Append(log, e)
        /\ UNCHANGED <<position, lost, bridge, dispatcher, dispatched, boot>>
    BY DEF Commit, history, outcomes
  <1>2. Considered' = Considered /\ \A i \in Considered : log'[i] = log[i]
    BY <1>1, ConsideredGrows DEF TypeInv
  <1>3. \A m : LiveCommand(m) => LiveCommand(m)'
    BY <1>1, LiveCommandStays
  <1>4. \A m \in dispatcher.key : InHand(m)'
    BY <1>1, <1>3 DEF WorkInv, InHand
  <1> QED
    BY <1>1, <1>2, <1>3, <1>4 DEF WorkInv

\* Considering or replaying an event claims it.
LEMMA ClaimConsidered ==
    ASSUME TypeInv, WorkInv, position < Len(log), UNCHANGED <<log, lost>>,
           bridge' = Recorded(bridge, Event), position' = position + 1
    PROVE  /\ bridge.claimed \subseteq bridge'.claimed
           /\ Event.type = "command" => Event.key \in bridge'.claimed
           /\ \A i \in Considered' : log'[i].type = "command" => log'[i].key \in bridge'.claimed
  <1>1. bridge'.claimed = ClaimsAfter(bridge, Event)
    BY DEF Recorded
  <1>2. Considered' = Considered \cup {position + 1}
    BY ConsideredGrows
  <1> QED
    BY <1>1, <1>2 DEF ClaimsAfter, WorkInv, Event

LEMMA WorkInvConsider ==
    ASSUME TypeInv, WorkInv
    PROVE  /\ ConsiderSessionCreated => WorkInv'
           /\ ConsiderCommand => WorkInv'
           /\ ConsiderSetting => WorkInv'
           /\ ConsiderSessionRemoved => WorkInv'
           /\ ReplayEvent => WorkInv'
  <1>0. ASSUME UNCHANGED log
        PROVE  \A m : LiveCommand(m)' <=> LiveCommand(m)
    BY <1>0 DEF LiveCommand, Commands
  <1>1. ASSUME NEW type, Considers(type)
        PROVE  /\ position < Len(log) /\ position' = position + 1 /\ Event.type = type
               /\ lost' = lost /\ dispatcher.at = "idle" /\ dispatcher.key = {}
               /\ \A m \in Keys : dispatched[m] # <<>> => m \in bridge.claimed
    BY <1>1 DEF Considers, Event, WorkInv
  <1>2. ASSUME position < Len(log), UNCHANGED <<log, lost, dispatched>>,
               bridge' = Recorded(bridge, Event), position' = position + 1,
               dispatcher'.key = {},
               dispatcher'.at = "replaying" <=> dispatcher.at = "replaying"
        PROVE  WorkInv'
    BY <1>0, <1>2, ClaimConsidered DEF WorkInv
  <1>3. CASE ConsiderSessionCreated
    <2>1. position < Len(log) /\ position' = position + 1 /\ Event.type = "created"
          /\ lost' = lost /\ dispatcher.at = "idle" /\ dispatcher.key = {}
      BY <1>1, <1>3 DEF ConsiderSessionCreated
    <2>2. /\ UNCHANGED <<log, dispatched>> /\ dispatcher'.key = {}
          /\ dispatcher'.at # "replaying"
      BY <1>3, <2>1 DEF ConsiderSessionCreated, history, outcomes, Opening
    <2>3. CASE bridge' = Recorded(bridge, Event)
      BY <1>2, <2>1, <2>2, <2>3
    <2>4. CASE UNCHANGED bridge
      <3>1. Considered' = Considered \cup {position + 1}
        BY <2>1, ConsideredGrows
      <3> QED
        BY <1>0, <2>1, <2>2, <2>4, <3>1 DEF WorkInv, Event
    <2> QED
      BY <1>3, <2>3, <2>4 DEF ConsiderSessionCreated
  <1>4. CASE ConsiderCommand
    <2>1. position < Len(log) /\ position' = position + 1 /\ Event.type = "command"
          /\ lost' = lost /\ dispatcher.at = "idle" /\ dispatcher.key = {}
          /\ \A m \in Keys : dispatched[m] # <<>> => m \in bridge.claimed
      BY <1>1, <1>4 DEF ConsiderCommand
    <2>2. UNCHANGED <<log, dispatched, boot>> /\ bridge' = Recorded(bridge, Event)
      BY <1>4 DEF ConsiderCommand
    <2>3. CASE UNCHANGED dispatcher
      BY <1>2, <2>1, <2>2, <2>3
    <2>4. CASE ~UNCHANGED dispatcher
      <3>1. Event.key \in Keys /\ Event.origin \in Origins
        BY <2>1, NextEvent, EventShape
      <3>2. Event.key \notin bridge.claimed /\ Event.origin # "imported"
        BY <1>4, <2>4 DEF ConsiderCommand
      <3>3. PICK key \in {{}, {Event.key}} :
               \/ dispatcher' = Calling(Event.session, key, {})
               \/ dispatcher' = Opening(Event.session, key)
        BY <1>4, <2>4 DEF ConsiderCommand
      <3>4. /\ dispatcher'.key \subseteq {Event.key} /\ dispatcher'.at # "replaying"
            /\ dispatcher'.at = "idle" => dispatcher'.key = {}
            /\ dispatcher'.tries \in 0..Retries
        BY <3>3, BridgeAssumption DEF Opening, Calling, Idle
      <3>5. dispatched[Event.key] = <<>>
        BY <2>1, <3>1, <3>2
      <3>6. LiveCommand(Event.key)
        BY <2>1, <3>1, <3>2, NextEvent DEF LiveCommand, Commands, Event, Origins, TypeInv
      <3>7. /\ bridge.claimed \subseteq bridge'.claimed /\ Event.key \in bridge'.claimed
            /\ \A i \in Considered' : log'[i].type = "command" => log'[i].key \in bridge'.claimed
        BY <2>1, <2>2, ClaimConsidered
      <3>8. ASSUME NEW m \in dispatcher'.key PROVE InHand(m)'
        <4>1. m = Event.key /\ dispatched'[m] = <<>> /\ Len(dispatched'[m]) = 0
          BY <2>2, <3>4, <3>5, <3>8
        <4>2. LiveCommand(m)' /\ m \in bridge'.claimed
          BY <1>0, <2>2, <3>6, <3>7, <4>1
        <4>3. dispatcher'.tries \in Nat /\ dispatcher'.tries <= Retries
          BY <3>4, BridgeAssumption
        <4> QED
          BY <4>1, <4>2, <4>3 DEF InHand, OnlyFailed
      <3> QED
        BY <1>0, <2>1, <2>2, <3>4, <3>7, <3>8 DEF WorkInv
    <2> QED
      BY <2>3, <2>4
  <1>5. CASE ConsiderSetting
    <2>1. position < Len(log) /\ position' = position + 1
          /\ lost' = lost /\ dispatcher.at = "idle" /\ dispatcher.key = {}
      BY <1>1, <1>5 DEF ConsiderSetting
    <2>2. UNCHANGED <<log, dispatched>> /\ bridge' = Recorded(bridge, Event)
      BY <1>5 DEF ConsiderSetting, history, outcomes
    <2>3. \/ UNCHANGED dispatcher
          \/ \E todo : dispatcher' = Calling(Event.session, {}, todo)
          \/ dispatcher' = Opening(Event.session, {})
      BY <1>5 DEF ConsiderSetting
    <2>4. dispatcher'.key = {} /\ dispatcher'.at # "replaying"
      BY <2>1, <2>3 DEF Opening, Calling, Idle
    <2> QED
      BY <1>2, <2>1, <2>2, <2>4
  <1>6. CASE ConsiderSessionRemoved
    <2>1. position < Len(log) /\ position' = position + 1
          /\ lost' = lost /\ dispatcher.at = "idle" /\ dispatcher.key = {}
      BY <1>1, <1>6 DEF ConsiderSessionRemoved
    <2> QED
      BY <1>2, <1>6, <2>1 DEF ConsiderSessionRemoved, history, outcomes
  <1>7. CASE ReplayEvent
    BY <1>2, <1>7 DEF ReplayEvent, history, outcomes, WorkInv
  <1> QED
    BY <1>3, <1>4, <1>5, <1>6, <1>7

\* Nothing changes that WorkInv speaks of, but for commands let go and the tries.
LEMMA WorkInvFrame ==
    ASSUME WorkInv, UNCHANGED <<log, position, lost, dispatched, boot>>,
           bridge'.claimed = bridge.claimed,
           dispatcher'.key \subseteq dispatcher.key,
           dispatcher'.at = "replaying" <=> dispatcher.at = "replaying",
           dispatcher'.at \in {"idle", "replaying"} => dispatcher'.key = {},
           \A m \in dispatcher'.key :
              /\ Len(dispatched[m]) + dispatcher'.tries <= Retries
              /\ dispatched[m] # <<>> => dispatcher'.todo = {} /\ dispatcher'.at # "opening"
    PROVE  WorkInv'
  <1>1. Considered' = Considered /\ \A m : LiveCommand(m)' <=> LiveCommand(m)
    BY DEF Considered, LiveCommand, Commands
  <1>2. \A m \in dispatcher'.key : InHand(m)'
    BY <1>1 DEF WorkInv, InHand
  <1> QED
    BY <1>1, <1>2 DEF WorkInv

\* What becomes of the command after an adapter call.
LEMMA KeyKept ==
    ASSUME NEW s, NEW key, NEW todo
    PROVE  /\ Calling(s, key, todo).key = key
           /\ Calling(s, key, todo).at \in {"idle", "replaying"} => key = {}
           /\ Calling(s, key, todo).at \in {"idle", "calling"}
           /\ Calling(s, key, todo).tries \in 0..Retries
           /\ Idle.key = {} /\ Idle.at = "idle"
  BY BridgeAssumption DEF Calling, Idle

\* The next call, of a command none of whose calls was made: a setting is left, or
\* the session is still to be opened.
LEMMA WorkInvNextCall ==
    ASSUME TypeInv, WorkInv, UNCHANGED <<log, position, lost, dispatched, boot>>,
           bridge'.claimed = bridge.claimed,
           dispatcher.at = "opening" \/ (dispatcher.at = "calling" /\ dispatcher.todo # {}),
           NEW s, NEW todo, dispatcher' = Calling(s, dispatcher.key, todo)
    PROVE  WorkInv'
  <1>1. \A m \in dispatcher.key : dispatched[m] = <<>> /\ Len(dispatched[m]) = 0
    BY DEF WorkInv, InHand
  <1>2. dispatcher'.tries \in 0..Retries /\ Retries \in Nat
    BY KeyKept, BridgeAssumption
  <1> QED
    BY <1>1, <1>2, KeyKept, WorkInvFrame

\* One more call after calls that failed.
LEMMA OrderlyAppend ==
    ASSUME NEW calls \in Seq(Call), NEW call \in Call,
           OnlyFailed(calls, call.during), Len(calls) <= Retries
    PROVE  /\ Orderly(Append(calls, call)) /\ Len(Append(calls, call)) = Len(calls) + 1
           /\ Append(calls, call) # <<>>
           /\ call.answer = "failed" => OnlyFailed(Append(calls, call), call.during)
  <1> DEFINE more == Append(calls, call)
             n == Len(calls)
  <1>1. /\ n \in Nat /\ Len(more) = n + 1 /\ DOMAIN more = 1..(n + 1)
        /\ more[n + 1] = call
        /\ \A c \in 1..n : more[c] = calls[c] /\ c \in DOMAIN calls
    OBVIOUS
  <1>2. \A c \in 1..(n + 1) : c \in 1..n \/ c = n + 1
    BY <1>1
  <1>3. \A c \in DOMAIN more : more[c].during = call.during
    BY <1>1, <1>2 DEF OnlyFailed
  <1>4. 1 \in DOMAIN more
    BY <1>1
  <1>5. \A c \in DOMAIN more : c < Len(more) => more[c].answer = "failed"
    BY <1>1, <1>2 DEF OnlyFailed
  <1>6. call.answer = "failed" => \A c \in DOMAIN more : more[c].answer = "failed"
    BY <1>1, <1>2 DEF OnlyFailed
  <1>7. Len(more) <= Retries + 1
    BY <1>1, BridgeAssumption
  <1>8. more # <<>>
    BY <1>1
  <1> HIDE DEF more
  <1>9. Orderly(more)
    BY <1>3, <1>4, <1>5, <1>7 DEF Orderly
  <1>10. call.answer = "failed" => OnlyFailed(more, call.during)
    BY <1>3, <1>6 DEF OnlyFailed
  <1> QED
    BY <1>1, <1>8, <1>9, <1>10 DEF more

\* A command in hand is given to the agent.
LEMMA DeliverInHand ==
    ASSUME TypeInv, WorkInv, NEW m \in dispatcher.key, m \in Keys,
           NEW answer \in {"taken", "failed"}, Deliver(m, answer)
    PROVE  /\ \A n \in Keys : Orderly(dispatched'[n])
           /\ \A n \in Keys : dispatched'[n] # <<>> => dispatched[n] # <<>> \/ n = m
           /\ Len(dispatched'[m]) = Len(dispatched[m]) + 1
           /\ answer = "failed" => OnlyFailed(dispatched'[m], <<boot, position>>)
           /\ \A n \in Keys \ {m} : dispatched'[n] = dispatched[n]
  <1> DEFINE call == [during |-> <<boot, position>>, answer |-> answer]
  <1>1. /\ dispatched'[m] = Append(dispatched[m], call)
        /\ \A n \in Keys \ {m} : dispatched'[n] = dispatched[n]
        /\ dispatched[m] \in Seq(Call) /\ call \in Call
    BY DeliverIs
  <1>2. call.during = <<boot, position>> /\ call.answer = answer
    OBVIOUS
  <1> HIDE DEF call
  <1>3. InHand(m)
    BY DEF WorkInv
  <1>4. Len(dispatched[m]) <= Retries
    <2>1. dispatcher.tries \in Nat /\ Len(dispatched[m]) \in Nat /\ Retries \in Nat
      BY <1>1, BridgeAssumption DEF TypeInv, DispatcherType
    <2> QED
      BY <1>3, <2>1 DEF InHand
  <1>5. /\ Orderly(dispatched'[m]) /\ Len(dispatched'[m]) = Len(dispatched[m]) + 1
        /\ answer = "failed" => OnlyFailed(dispatched'[m], <<boot, position>>)
    BY <1>1, <1>2, <1>3, <1>4, OrderlyAppend DEF InHand
  <1> QED
    BY <1>1, <1>5 DEF WorkInv

\* The command is let go of after its last call, however that one was answered.
LEMMA WorkInvLetGo ==
    ASSUME TypeInv, WorkInv, UNCHANGED <<log, position, lost, bridge, boot>>,
           dispatcher.at = "calling", dispatcher' = Idle,
           \/ dispatched' = dispatched
           \/ \E m \in dispatcher.key, answer \in {"taken", "failed"} :
                 m \in Keys /\ Deliver(m, answer)
    PROVE  WorkInv'
  <1>1. Considered' = Considered /\ \A m : LiveCommand(m)' <=> LiveCommand(m)
    BY DEF Considered, LiveCommand, Commands
  <1>2. dispatcher'.key = {} /\ dispatcher'.at = "idle"
    BY DEF Idle
  <1>3. \A n \in Keys : Orderly(dispatched'[n])
    BY DeliverInHand DEF WorkInv
  <1>4. ASSUME NEW n \in Keys, dispatched'[n] # <<>>
        PROVE  n \in bridge.claimed /\ LiveCommand(n)
    <2>1. dispatched[n] # <<>> \/ n \in dispatcher.key
      BY <1>4, DeliverInHand
    <2> QED
      BY <2>1 DEF WorkInv, InHand
  <1> QED
    BY <1>1, <1>2, <1>3, <1>4 DEF WorkInv

\* A call is tried again.
LEMMA WorkInvRetry ==
    ASSUME TypeInv, WorkInv, RetryCall
    PROVE  WorkInv'
  <1>1. /\ UNCHANGED <<log, position, lost, bridge, boot>> /\ AttemptFails
        /\ dispatcher' = [dispatcher EXCEPT !.tries = dispatcher.tries - 1]
        /\ dispatcher.tries > 0
    BY DEF RetryCall
  <1>2. /\ dispatcher.at = "calling" /\ dispatcher'.at = "calling"
        /\ dispatcher'.key = dispatcher.key /\ dispatcher'.todo = dispatcher.todo
        /\ dispatcher'.tries = dispatcher.tries - 1
        /\ dispatcher.tries \in Nat /\ Retries \in Nat /\ dispatcher.key \subseteq Keys
    BY <1>1, AttemptIs, BridgeAssumption DEF TypeInv, DispatcherType
  <1>3. \A n \in Keys : Len(dispatched[n]) \in Nat
    BY DEF TypeInv
  <1>4. CASE dispatched' = dispatched
    <2>1. \A m \in dispatcher'.key :
             /\ Len(dispatched[m]) + dispatcher'.tries <= Retries
             /\ dispatched[m] # <<>> => dispatcher'.todo = {} /\ dispatcher'.at # "opening"
      BY <1>2, <1>3 DEF WorkInv, InHand
    <2> QED
      BY <1>1, <1>2, <1>4, <2>1, WorkInvFrame
  <1>5. CASE dispatcher.todo = {} /\ \E m \in dispatcher.key : m \in Keys /\ Deliver(m, "failed")
    <2>1. PICK m \in dispatcher.key : m \in Keys /\ Deliver(m, "failed")
      BY <1>5
    <2>2. /\ \A n \in Keys : Orderly(dispatched'[n])
          /\ \A n \in Keys : dispatched'[n] # <<>> => dispatched[n] # <<>> \/ n = m
          /\ Len(dispatched'[m]) = Len(dispatched[m]) + 1
          /\ OnlyFailed(dispatched'[m], <<boot, position>>)
          /\ \A n \in Keys \ {m} : dispatched'[n] = dispatched[n]
      BY <2>1, DeliverInHand
    <2>3. Considered' = Considered /\ \A n : LiveCommand(n)' <=> LiveCommand(n)
      BY <1>1 DEF Considered, LiveCommand, Commands
    <2>4. ASSUME NEW n \in dispatcher.key PROVE InHand(n)'
      <3>1. InHand(n) /\ n \in Keys
        BY <1>2 DEF WorkInv
      <3>2. Len(dispatched'[n]) + dispatcher'.tries <= Retries
        BY <1>2, <1>3, <2>2, <3>1 DEF InHand
      <3>3. OnlyFailed(dispatched'[n], <<boot, position>>)
        BY <2>2, <3>1 DEF InHand
      <3> QED
        BY <1>1, <1>2, <1>5, <2>3, <3>1, <3>2, <3>3 DEF InHand
    <2>5. InHand(m)
      BY DEF WorkInv
    <2> QED
      BY <1>1, <1>2, <2>2, <2>3, <2>4, <2>5 DEF WorkInv, InHand
  <1> QED
    BY <1>1, <1>4, <1>5, AttemptIs

LEMMA WorkInvStep == TypeInv /\ WorkInv /\ [Next]_vars => WorkInv'
  <1> SUFFICES ASSUME TypeInv, WorkInv, [Next]_vars PROVE WorkInv'
    OBVIOUS
  <1>1. CASE OpenSession \/ RootMissing
    <2>1. PICK s, todo : dispatcher' = Calling(s, dispatcher.key, todo)
      BY <1>1 DEF OpenSession, RootMissing
    <2>2. bridge'.claimed = bridge.claimed /\ UNCHANGED <<log, position, lost, dispatched, boot>>
          /\ dispatcher.at = "opening"
      BY <1>1 DEF OpenSession, RootMissing, history, outcomes, TypeInv, BridgeType
    <2> QED
      BY <2>1, <2>2, WorkInvNextCall
  <1>2. CASE \E s \in Sessions, k \in Settings : ApplySetting(s, k)
    <2>1. PICK s, k : ApplySetting(s, k)
      BY <1>2
    <2>2. /\ UNCHANGED <<log, position, lost, bridge, dispatched, boot>>
          /\ dispatcher.at = "calling" /\ dispatcher.todo # {}
          /\ dispatcher' = Calling(s, dispatcher.key, dispatcher.todo \ {k})
      BY <2>1 DEF ApplySetting, outcomes
    <2> QED
      BY <2>2, WorkInvNextCall
  <1>3. CASE \E s \in Sessions, m \in Keys : DispatchCommand(s, m)
    <2>1. PICK s \in Sessions, m \in Keys : DispatchCommand(s, m)
      BY <1>3
    <2>2. /\ UNCHANGED <<log, position, lost, bridge, boot>>
          /\ dispatcher.at = "calling" /\ dispatcher' = Idle
          /\ m \in dispatcher.key /\ Deliver(m, "taken")
      BY <2>1 DEF DispatchCommand
    <2> QED
      BY <2>2, WorkInvLetGo
  <1>4. CASE CallFails
    <2>1. /\ UNCHANGED <<log, position, lost, bridge, boot>> /\ dispatcher.at = "calling"
      BY <1>4 DEF CallFails
    <2>2. \/ /\ dispatcher.todo # {} /\ dispatched' = dispatched
             /\ \E s, todo : dispatcher' = Calling(s, dispatcher.key, todo)
          \/ /\ dispatcher' = Idle
             /\ \/ dispatched' = dispatched
                \/ \E m \in dispatcher.key : m \in Keys /\ Deliver(m, "failed")
      BY <1>4, CallFailsIs
    <2> QED
      BY <2>1, <2>2, WorkInvNextCall, WorkInvLetGo
  <1>5. CASE CallHangs \/ CallResumes
    <2>1. /\ UNCHANGED <<log, position, lost, bridge, dispatched, boot>>
          /\ dispatcher.at \in {"calling", "hung"}
          /\ \E at \in {"calling", "hung"} : dispatcher' = [dispatcher EXCEPT !.at = at]
      BY <1>5 DEF CallHangs, CallResumes, history, outcomes
    <2>2. /\ dispatcher'.key = dispatcher.key /\ dispatcher'.todo = dispatcher.todo
          /\ dispatcher'.tries = dispatcher.tries /\ dispatcher'.at \in {"calling", "hung"}
      BY <2>1 DEF TypeInv, DispatcherType
    <2> QED
      BY <2>1, <2>2, WorkInvFrame DEF WorkInv, InHand
  <1>6. CASE ReplayEnds
    <2>1. /\ position = Len(log) /\ dispatcher' = Idle /\ dispatcher.at = "replaying"
          /\ UNCHANGED <<log, position, lost, bridge, dispatched>>
      BY <1>6 DEF ReplayEnds, history, outcomes
    <2>2. Considered' = Considered /\ \A n : LiveCommand(n)' <=> LiveCommand(n)
      BY <2>1 DEF Considered, LiveCommand, Commands
    <2>3. ASSUME NEW m \in Keys, dispatched[m] # <<>>
          PROVE  m \in bridge.claimed
      <3>1. LiveCommand(m)
        BY <2>3 DEF WorkInv
      <3>2. PICK i \in DOMAIN log : log[i].type = "command" /\ log[i].key = m
        BY <3>1 DEF LiveCommand, Commands
      <3>3. i \in Considered
        <4>1. lost = {}
          BY <2>1 DEF WorkInv
        <4> QED
          BY <2>1, <3>2, <4>1, ConsideredGrows DEF TypeInv
      <3> QED
        BY <3>2, <3>3 DEF WorkInv
    <2> QED
      BY <2>1, <2>2, <2>3, KeyKept DEF WorkInv
  <1>7. CASE Restart
    <2>1. /\ position' = 0 /\ lost' = {} /\ UNCHANGED <<log, dispatched>>
          /\ dispatcher'.at = "replaying" /\ dispatcher'.key = {}
      BY <1>7 DEF Restart, Idle
    <2>2. Considered' = {} /\ \A n : LiveCommand(n)' <=> LiveCommand(n)
      BY <2>1 DEF Considered, LiveCommand, Commands
    <2> QED
      BY <2>1, <2>2 DEF WorkInv
  <1>8. CASE \E s \in Sessions : Register(s) \/ StreamEnds(s) \/ StreamFails(s)
    BY <1>8, WorkInvFrame DEF Register, StreamEnds, StreamFails, history, outcomes, WorkInv, InHand
  <1>9. CASE UNCHANGED vars
    BY <1>9, WorkInvFrame DEF vars, history, outcomes, WorkInv, InHand
  <1>10. CASE PassOver
    <2>1. /\ UNCHANGED <<log, bridge, dispatcher, dispatched, boot>> /\ dispatcher.at = "idle"
          /\ position' = position + 1 /\ lost' = lost \cup {position + 1}
      BY <1>10 DEF PassOver
    <2>2. Considered' = Considered /\ \A n : LiveCommand(n)' <=> LiveCommand(n)
      BY <2>1, ConsideredGrows DEF LiveCommand, Commands
    <2> QED
      BY <2>1, <2>2 DEF WorkInv
  <1> QED
    BY <1>1, <1>2, <1>3, <1>4, <1>5, <1>6, <1>7, <1>8, <1>9, <1>10, WorkInvCommit,
       WorkInvConsider, WorkInvRetry
    DEF Next, DispatcherStep

\* A command is given to an agent again only after a call that gave it failed, in
\* the same consideration and within the retries; resends, reopened sessions and
\* the replay of every boot give nothing again (claim, LAZY_OPEN_RETRY_SCHEDULE).
THEOREM WorkDoneOnce == Spec => []NoWorkTwice
  <1>1. Init => TypeInv /\ WorkInv
    BY TypeInvInit, WorkInvInit
  <1>2. TypeInv /\ WorkInv /\ [Next]_vars => TypeInv' /\ WorkInv'
    BY TypeInvStep, WorkInvStep
  <1>3. WorkInv => NoWorkTwice
    BY DEF WorkInv, NoWorkTwice, LiveCommand, Orderly
  <1> QED
    BY <1>1, <1>2, <1>3, PTL DEF Spec

-----------------------------------------------------------------------------
(* The life of a session: created once, first, and at most until removed *)

\* What the deciders of the engine see to.
LogInv ==
    /\ \A i, j \in 1..Len(log) :
          log[i].type = "created" /\ log[j].session = log[i].session => i <= j
    /\ \A i \in 1..Len(log) : log[i].type # "created" =>
          \E j \in 1..Len(log) : j < i /\ log[j].type = "created"
                                 /\ log[j].session = log[i].session

\* Is the creation of session s behind the dispatcher, considered or lost?
WasCreated(s) == \E i \in 1..position : log[i].type = "created" /\ log[i].session = s

LifeInv ==
    /\ LogInv
    /\ \A s \in bridge.adapters : WasCreated(s) /\ ~WasRemoved(s)
    /\ dispatcher.at = "opening" =>
          \E s \in Sessions : dispatcher.session = {s} /\ WasCreated(s) /\ ~WasRemoved(s)
    /\ \A s \in Sessions : fiber[s] = "running" =>
          WasCreated(s) /\ ~WasRemoved(s) /\ dispatcher.at # "replaying"
    /\ \A s \in Sessions : WasCreated(s) =>
          \/ s \in bridge.adapters \cup unopened
          \/ WasRemoved(s)
          \/ dispatcher.at = "opening" /\ s \in dispatcher.session

LEMMA LogInvCommit ==
    ASSUME TypeInv, LogInv, NEW e \in Events, Commit(e)
    PROVE  LogInv'
  <1> DEFINE n == Len(log)
  <1>1. /\ n \in Nat /\ Len(log') = n + 1 /\ log'[n + 1] = e
        /\ \A i \in 1..n : log'[i] = log[i] /\ log[i] \in Events
        /\ \A i \in 1..Len(log') : i \in 1..n \/ i = n + 1
    BY DEF Commit, TypeInv
  <1>2. e.type = "created" <=> ~ \E i \in 1..n : log[i].type = "created" /\ log[i].session = e.session
    BY DEF Commit, IsCreated, TypeInv
  <1> HIDE DEF n
  <1>3. ASSUME NEW i \in 1..Len(log'), NEW j \in 1..Len(log'),
               log'[i].type = "created", log'[j].session = log'[i].session
        PROVE  i <= j
    <2>1. CASE i \in 1..n /\ j \in 1..n
      BY <1>1, <1>3, <2>1 DEF LogInv, n
    <2>2. CASE j = n + 1
      BY <1>1, <2>2
    <2>3. CASE i = n + 1 /\ j \in 1..n
      <3>1. e.type = "created" /\ log[j].session = e.session
        BY <1>1, <1>3, <2>3
      <3>2. log[j].type # "created"
        BY <1>2, <2>3, <3>1
      <3>3. \E l \in 1..n : log[l].type = "created" /\ log[l].session = log[j].session
        BY <2>3, <3>2 DEF LogInv, n
      <3> QED
        BY <1>2, <3>1, <3>3
    <2> QED
      BY <1>1, <2>1, <2>2, <2>3
  <1>4. ASSUME NEW i \in 1..Len(log'), log'[i].type # "created"
        PROVE  \E j \in 1..Len(log') : j < i /\ log'[j].type = "created"
                                       /\ log'[j].session = log'[i].session
    <2>1. CASE i \in 1..n
      <3>1. PICK j \in 1..n : j < i /\ log[j].type = "created" /\ log[j].session = log[i].session
        BY <1>1, <1>4, <2>1 DEF LogInv, n
      <3> QED
        BY <1>1, <2>1, <3>1
    <2>2. CASE i = n + 1
      <3>1. PICK j \in 1..n : log[j].type = "created" /\ log[j].session = e.session
        BY <1>1, <1>2, <1>4, <2>2
      <3> QED
        BY <1>1, <2>2, <3>1
    <2> QED
      BY <1>1, <2>1, <2>2
  <1> QED
    BY <1>3, <1>4 DEF LogInv

\* What has been considered stays so while the log grows.
LEMMA ConsideredStays ==
    ASSUME TypeInv, UNCHANGED <<position, lost>>, log' = log \/ \E e \in Events : log' = Append(log, e)
    PROVE  \A s : (WasRemoved(s)' <=> WasRemoved(s)) /\ (WasCreated(s)' <=> WasCreated(s))
  <1>1. Considered' = Considered /\ Considered \subseteq 1..position
    BY ConsideredGrows
  <1>2. position \in 0..Len(log) /\ log \in Seq(Events)
    BY DEF TypeInv
  <1>3. \A i \in 1..position : log'[i] = log[i]
    BY <1>2
  <1> QED
    BY <1>1, <1>3 DEF WasRemoved, WasCreated

\* Considering the next event, or going past it.
LEMMA ConsideredNext ==
    ASSUME TypeInv, position < Len(log), position' = position + 1, UNCHANGED log
    PROVE  \A s : /\ lost' = lost => (WasRemoved(s)' <=> WasRemoved(s) \/ Event = Removed(s))
                  /\ lost' = lost \cup {position + 1} => (WasRemoved(s)' <=> WasRemoved(s))
                  /\ WasCreated(s)' <=> \/ WasCreated(s)
                                        \/ Event.type = "created" /\ Event.session = s
  <1>1. 1..(position + 1) = 1..position \cup {position + 1}
    BY DEF TypeInv
  <1>2. ASSUME NEW s
        PROVE  WasCreated(s)' <=> WasCreated(s) \/ (Event.type = "created" /\ Event.session = s)
    BY <1>1 DEF WasCreated, Event
  <1>3. ASSUME NEW s, lost' = lost
        PROVE  WasRemoved(s)' <=> WasRemoved(s) \/ Event = Removed(s)
    <2>1. Considered' = Considered \cup {position + 1}
      BY <1>3, ConsideredGrows
    <2> QED
      BY <2>1 DEF WasRemoved, Event
  <1>4. ASSUME NEW s, lost' = lost \cup {position + 1}
        PROVE  WasRemoved(s)' <=> WasRemoved(s)
    <2>1. Considered' = Considered
      BY <1>4, ConsideredGrows
    <2> QED
      BY <2>1 DEF WasRemoved
  <1> QED
    BY <1>2, <1>3, <1>4

\* A session's creation is considered before anything else of it is.
LEMMA CreatedFirst ==
    ASSUME TypeInv, LogInv, position < Len(log)
    PROVE  /\ Event.type = "created" => ~WasRemoved(Event.session) /\ ~WasCreated(Event.session)
           /\ Event.type # "created" => WasCreated(Event.session)
  <1>1. position + 1 \in 1..Len(log) /\ Event = log[position + 1]
    BY NextEvent DEF Event
  <1>2. ASSUME Event.type = "created", WasRemoved(Event.session)
        PROVE  FALSE
    <2>1. PICK i \in 1..Len(log) : i <= position /\ log[i] = Removed(Event.session)
      BY <1>2, ConsideredGrows DEF WasRemoved
    <2>2. log[i].session = Event.session
      BY <2>1 DEF Removed
    <2> QED
      BY <1>1, <1>2, <2>1, <2>2 DEF LogInv, TypeInv
  <1>4. ASSUME Event.type = "created", WasCreated(Event.session)
        PROVE  FALSE
    <2>1. PICK i \in 1..position : log[i].type = "created" /\ log[i].session = Event.session
      BY <1>4 DEF WasCreated
    <2> QED
      BY <1>1, <1>4, <2>1 DEF LogInv, TypeInv
  <1>3. ASSUME Event.type # "created"
        PROVE  WasCreated(Event.session)
    <2>1. PICK j \in 1..Len(log) : j < position + 1 /\ log[j].type = "created"
                                   /\ log[j].session = Event.session
      BY <1>1, <1>3 DEF LogInv
    <2> QED
      BY <2>1 DEF WasCreated, TypeInv
  <1> QED
    BY <1>2, <1>3, <1>4

LEMMA LifeInvInit == Init => LifeInv
  BY DEF Init, LifeInv, LogInv, WasRemoved, WasCreated, Considered, EmptyBridge, Idle

LEMMA LifeInvCommit ==
    ASSUME TypeInv, LifeInv, NEW e \in Events, Commit(e)
    PROVE  LifeInv'
  <1>1. /\ UNCHANGED <<position, lost, bridge, fiber, dispatcher, unopened>>
        /\ log' = Append(log, e)
    BY DEF Commit, history
  <1>2. LogInv'
    BY LogInvCommit DEF LifeInv
  <1>3. \A s : (WasRemoved(s)' <=> WasRemoved(s)) /\ (WasCreated(s)' <=> WasCreated(s))
    BY <1>1, ConsideredStays
  <1> QED
    BY <1>1, <1>2, <1>3 DEF LifeInv

\* The log and what was considered of it stay as they are.
LEMMA LifeInvFrame ==
    ASSUME TypeInv, LifeInv, UNCHANGED <<log, position, lost>>,
           unopened \subseteq unopened',
           bridge.adapters \subseteq bridge'.adapters,
           \A s \in bridge'.adapters \ bridge.adapters : WasCreated(s) /\ ~WasRemoved(s),
           dispatcher'.at = "opening" => dispatcher' = dispatcher,
           \A s \in Sessions : fiber'[s] = "running" =>
              /\ fiber[s] = "running" \/ (WasCreated(s) /\ ~WasRemoved(s))
              /\ dispatcher'.at # "replaying",
           dispatcher.at = "opening" => \/ dispatcher' = dispatcher
                                        \/ dispatcher.session \subseteq bridge'.adapters \cup unopened'
    PROVE  LifeInv'
  <1>1. LogInv'
    BY DEF LifeInv, LogInv
  <1>2. \A s : (WasRemoved(s)' <=> WasRemoved(s)) /\ (WasCreated(s)' <=> WasCreated(s))
    BY ConsideredStays
  <1> QED
    BY <1>1, <1>2 DEF LifeInv

\* Where the dispatcher goes.
LEMMA DispatcherGoes ==
    /\ \A s, key, todo : /\ Calling(s, key, todo).at \in {"idle", "calling"}
                         /\ Calling(s, key, todo).at = "calling" =>
                               Calling(s, key, todo).session = {s}
    /\ \A s, key : Opening(s, key).at = "opening" /\ Opening(s, key).session = {s}
  BY DEF Calling, Idle, Opening

\* Considering an event.
LEMMA LifeInvConsider ==
    ASSUME TypeInv, LifeInv
    PROVE  /\ ConsiderSessionCreated => LifeInv'
           /\ ConsiderCommand => LifeInv'
           /\ ConsiderSetting => LifeInv'
           /\ ConsiderSessionRemoved => LifeInv'
           /\ ReplayEvent => LifeInv'
  <1> DEFINE e == Event
  <1>1. ASSUME position < Len(log), position' = position + 1, UNCHANGED <<log, lost>>
        PROVE  /\ e \in Events /\ e.session \in Sessions
               /\ \A s : WasRemoved(s)' <=> WasRemoved(s) \/ e = Removed(s)
               /\ \A s : WasCreated(s)' <=> WasCreated(s) \/ (e.type = "created" /\ e.session = s)
               /\ e.type = "created" => ~WasRemoved(e.session) /\ ~WasCreated(e.session)
               /\ e.type # "created" => WasCreated(e.session)
               /\ \A s : e = Removed(s) <=> e.type = "removed" /\ e.session = s
               /\ LogInv'
    <2>1. e \in Events /\ e.session \in Sessions
      BY <1>1, NextEvent, EventShape
    <2>2. \A s : e = Removed(s) <=> e.type = "removed" /\ e.session = s
      BY <2>1, EventShape DEF Removed
    <2>3. LogInv'
      BY <1>1 DEF LifeInv, LogInv
    <2> QED
      BY <1>1, <2>1, <2>2, <2>3, ConsideredNext, CreatedFirst DEF LifeInv
  <1>2. ASSUME NEW type, Considers(type)
        PROVE  /\ position < Len(log) /\ position' = position + 1 /\ e.type = type
               /\ lost' = lost /\ dispatcher.at = "idle"
    BY <1>2 DEF Considers, Event
  <1>3. Recorded(bridge, e).adapters = AdaptersAfter(bridge, e)
    BY DEF Recorded
  <1> HIDE DEF e
  <1>4. CASE ConsiderSessionCreated
    <2>1. /\ UNCHANGED <<log, fiber, unopened>> /\ e.type = "created"
          /\ position < Len(log) /\ position' = position + 1 /\ lost' = lost
          /\ dispatcher.at = "idle"
      BY <1>2, <1>4 DEF ConsiderSessionCreated, history
    <2>2. \A s : WasRemoved(s)' <=> WasRemoved(s)
      BY <1>1, <2>1
    <2>3. \/ bridge'.adapters = bridge.adapters \cup {e.session} /\ UNCHANGED dispatcher
          \/ /\ UNCHANGED bridge
             /\ dispatcher'.at = "opening" /\ dispatcher'.session = {e.session}
      BY <1>3, <1>4, <2>1 DEF ConsiderSessionCreated, AdaptersAfter, Opening, e
    <2> QED
      BY <1>1, <2>1, <2>2, <2>3 DEF LifeInv
  <1>5. CASE ConsiderCommand
    <2>1. /\ UNCHANGED <<log, fiber, unopened>> /\ e.type = "command"
          /\ position < Len(log) /\ position' = position + 1 /\ lost' = lost
          /\ dispatcher.at = "idle"
      BY <1>2, <1>5 DEF ConsiderCommand
    <2>2. /\ \A s : WasRemoved(s)' <=> WasRemoved(s)
          /\ \A s : WasCreated(s)' <=> WasCreated(s)
          /\ bridge'.adapters = bridge.adapters
          /\ WasCreated(e.session) /\ e.session \in Sessions
      BY <1>1, <1>3, <1>5, <2>1 DEF ConsiderCommand, AdaptersAfter, e
    <2>3. /\ dispatcher'.at # "replaying"
          /\ dispatcher'.at = "opening" =>
                dispatcher'.session = {e.session} /\ e.session \in bridge.adapters
      <3>1. \E key :
               \/ UNCHANGED dispatcher
               \/ dispatcher' = Calling(e.session, key, {})
               \/ dispatcher' = Opening(e.session, key) /\ e.session \in bridge.adapters
        BY <1>5 DEF ConsiderCommand, e
      <3> QED
        BY <2>1, <3>1, DispatcherGoes
    <2> QED
      BY <1>1, <2>1, <2>2, <2>3 DEF LifeInv
  <1>6. CASE ConsiderSetting
    <2>1. /\ UNCHANGED <<log, fiber, unopened>> /\ e.type = "set"
          /\ position < Len(log) /\ position' = position + 1 /\ lost' = lost
          /\ dispatcher.at = "idle"
      BY <1>2, <1>6 DEF ConsiderSetting, history
    <2>2. /\ \A s : WasRemoved(s)' <=> WasRemoved(s)
          /\ \A s : WasCreated(s)' <=> WasCreated(s)
          /\ bridge'.adapters = bridge.adapters
      BY <1>1, <1>3, <1>6, <2>1 DEF ConsiderSetting, AdaptersAfter, e
    <2>3. /\ dispatcher'.at # "replaying"
          /\ dispatcher'.at = "opening" =>
                dispatcher'.session = {e.session} /\ e.session \in bridge.adapters
      <3>1. \/ UNCHANGED dispatcher
            \/ \E todo : dispatcher' = Calling(e.session, {}, todo)
            \/ dispatcher' = Opening(e.session, {}) /\ e.session \in bridge.adapters
        BY <1>6 DEF ConsiderSetting, e
      <3> QED
        BY <2>1, <3>1, DispatcherGoes
    <2> QED
      BY <1>1, <2>1, <2>2, <2>3 DEF LifeInv
  <1>7. CASE ConsiderSessionRemoved
    <2>1. /\ UNCHANGED <<log, dispatcher, unopened>> /\ e.type = "removed"
          /\ position < Len(log) /\ position' = position + 1 /\ lost' = lost
          /\ dispatcher.at = "idle"
          /\ fiber' = [fiber EXCEPT ![e.session] = "none"]
      BY <1>2, <1>7 DEF ConsiderSessionRemoved, history, e
    <2>2. /\ \A s : WasRemoved(s)' <=> WasRemoved(s) \/ e.session = s
          /\ \A s : WasCreated(s)' <=> WasCreated(s)
          /\ bridge'.adapters = bridge.adapters \ {e.session}
      BY <1>1, <1>3, <1>7, <2>1 DEF ConsiderSessionRemoved, AdaptersAfter, e
    <2>3. \A s \in Sessions : fiber'[s] = "running" => fiber[s] = "running" /\ s # e.session
      BY <1>1, <2>1 DEF TypeInv
    <2> QED
      BY <1>1, <2>1, <2>2, <2>3 DEF LifeInv
  <1>8. CASE ReplayEvent
    <2>1. /\ UNCHANGED <<log, lost, fiber, dispatcher, unopened>>
          /\ position < Len(log) /\ position' = position + 1 /\ dispatcher.at = "replaying"
          /\ bridge' = Recorded(bridge, e)
      BY <1>8 DEF ReplayEvent, history, e
    <2>2. bridge'.adapters = AdaptersAfter(bridge, e)
      BY <1>3, <2>1
    <2>3. CASE e.type = "created"
      BY <1>1, <2>1, <2>2, <2>3 DEF AdaptersAfter, LifeInv
    <2>4. CASE e.type # "created"
      <3>1. \A s : WasRemoved(s) => WasRemoved(s)'
        BY <1>1, <2>1
      <3>2. \A s : WasCreated(s)' <=> WasCreated(s)
        BY <1>1, <2>1, <2>4
      <3>3. \A s : s \in bridge'.adapters <=>
                      s \in bridge.adapters /\ ~(e.type = "removed" /\ e.session = s)
        BY <2>2, <2>4 DEF AdaptersAfter
      <3>4. \A s \in Sessions : fiber[s] # "running"
        BY <1>1, <2>1 DEF LifeInv
      <3> QED
        BY <1>1, <2>1, <3>1, <3>2, <3>3, <3>4 DEF LifeInv
    <2> QED
      BY <2>3, <2>4
  <1> QED
    BY <1>4, <1>5, <1>6, <1>7, <1>8

LEMMA LifeInvStep == TypeInv /\ LifeInv /\ [Next]_vars => LifeInv'
  <1> SUFFICES ASSUME TypeInv, LifeInv, [Next]_vars PROVE LifeInv'
    OBVIOUS
  <1>1. CASE OpenSession
    <2>1. PICK s \in dispatcher.session :
             /\ bridge' = [bridge EXCEPT !.adapters = @ \cup {s}]
             /\ fiber' = [fiber EXCEPT ![s] = "running"]
             /\ dispatcher' = Calling(s, dispatcher.key, ToApply(s))
      BY <1>1 DEF OpenSession
    <2>2. dispatcher.session = {s} /\ s \in Sessions
      BY <1>1, <2>1 DEF OpenSession, TypeInv, DispatcherType, LifeInv
    <2>3. bridge'.adapters = bridge.adapters \cup {s} /\ WasCreated(s) /\ ~WasRemoved(s)
      BY <1>1, <2>1 DEF OpenSession, TypeInv, BridgeType, LifeInv
    <2>4. dispatcher'.at \in {"idle", "calling"}
      BY <2>1 DEF Calling, Idle
    <2>5. UNCHANGED <<log, position, lost, unopened>>
      BY <1>1 DEF OpenSession, history
    <2>6. \A t \in Sessions : fiber'[t] = "running" => fiber[t] = "running" \/ t = s
      BY <2>1 DEF TypeInv
    <2> QED
      BY <2>2, <2>3, <2>4, <2>5, <2>6, LifeInvFrame
  <1>2. CASE RootMissing
    <2>1. PICK s \in dispatcher.session :
             /\ dispatcher' = Calling(s, dispatcher.key, {})
             /\ unopened' = IF s \in bridge.adapters THEN unopened ELSE unopened \cup {s}
      BY <1>2 DEF RootMissing
    <2>2. dispatcher.session = {s}
      BY <1>2, <2>1 DEF RootMissing, LifeInv
    <2>3. dispatcher'.at \in {"idle", "calling"}
      BY <2>1 DEF Calling, Idle
    <2> QED
      BY <1>2, <2>1, <2>2, <2>3, LifeInvFrame DEF RootMissing
  <1>3. CASE \/ \E s \in Sessions, k \in Settings : ApplySetting(s, k)
             \/ \E s \in Sessions, m \in Keys : DispatchCommand(s, m)
             \/ CallFails \/ RetryCall \/ CallHangs \/ CallResumes
    <2>1. UNCHANGED <<log, position, lost, unopened, bridge, fiber>>
      BY <1>3 DEF ApplySetting, DispatchCommand, CallFails, RetryCall, CallHangs, CallResumes,
        history
    <2>2. dispatcher.at \in {"calling", "hung"} /\ dispatcher'.at \in {"idle", "calling", "hung"}
      <3>1. CASE CallFails
        <4>1. \/ \E s, todo : dispatcher' = Calling(s, dispatcher.key, todo)
              \/ dispatcher' = Idle
          BY <3>1 DEF CallFails
        <4>2. dispatcher.at = "calling" /\ Idle.at = "idle"
          BY <3>1 DEF CallFails, Idle
        <4> QED
          BY <4>1, <4>2, DispatcherGoes
      <3>2. CASE RetryCall \/ CallHangs \/ CallResumes
        BY <3>2, AttemptIs DEF RetryCall, CallHangs, CallResumes, TypeInv, DispatcherType
      <3>3. CASE \/ \E s \in Sessions, k \in Settings : ApplySetting(s, k)
                 \/ \E s \in Sessions, m \in Keys : DispatchCommand(s, m)
        <4>1. \/ \E s, todo : dispatcher' = Calling(s, dispatcher.key, todo)
              \/ dispatcher' = Idle
          BY <3>3 DEF ApplySetting, DispatchCommand
        <4>2. dispatcher.at = "calling" /\ Idle.at = "idle"
          BY <3>3 DEF ApplySetting, DispatchCommand, Idle
        <4> QED
          BY <4>1, <4>2, DispatcherGoes
      <3> QED
        BY <1>3, <3>1, <3>2, <3>3
    <2> QED
      BY <2>1, <2>2, LifeInvFrame DEF LifeInv
  <1>4. CASE ReplayEnds
    BY <1>4, LifeInvFrame DEF ReplayEnds, Idle, history
  <1>5. CASE Restart
    <2>1. /\ UNCHANGED log /\ position' = 0 /\ bridge'.adapters = {}
          /\ dispatcher'.at = "replaying"
          /\ \A s \in Sessions : fiber'[s] # "running"
      BY <1>5 DEF Restart, EmptyBridge, Idle
    <2>2. LogInv' /\ \A s : ~WasCreated(s)'
      BY <2>1 DEF LifeInv, LogInv, WasCreated
    <2> QED
      BY <2>1, <2>2 DEF LifeInv
  <1>6. CASE \E s \in Sessions : Register(s) \/ StreamEnds(s) \/ StreamFails(s)
    <2>1. UNCHANGED <<log, position, lost, unopened, bridge, dispatcher>>
      BY <1>6 DEF Register, StreamEnds, StreamFails, history
    <2>2. \A t \in Sessions : fiber'[t] = "running" => fiber[t] = "running"
      BY <1>6 DEF Register, StreamEnds, StreamFails, TypeInv
    <2> QED
      BY <2>1, <2>2, LifeInvFrame DEF LifeInv
  <1>7. CASE UNCHANGED vars
    BY <1>7, LifeInvFrame DEF vars, history, LifeInv
  <1>8. CASE PassOver
    <2>1. /\ UNCHANGED <<log, bridge, fiber, dispatcher>> /\ dispatcher.at = "idle"
          /\ position < Len(log) /\ position' = position + 1 /\ lost' = lost \cup {position + 1}
          /\ unopened \subseteq unopened'
          /\ Event.type = "created" => Event.session \in unopened'
      BY <1>8 DEF PassOver
    <2>2. \A s : /\ WasRemoved(s)' <=> WasRemoved(s)
                 /\ WasCreated(s)' <=> \/ WasCreated(s)
                                       \/ Event.type = "created" /\ Event.session = s
      BY <2>1, ConsideredNext
    <2>3. LogInv'
      BY <2>1 DEF LifeInv, LogInv
    <2> QED
      BY <2>1, <2>2, <2>3 DEF LifeInv
  <1> QED
    BY <1>1, <1>2, <1>3, <1>4, <1>5, <1>6, <1>7, <1>8, LifeInvCommit, LifeInvConsider
    DEF Next, DispatcherStep

\* A session that was archived or deleted has no running fiber, and nothing
\* starts one for it again (considerSessionRemoved).
THEOREM RemovedSessionsStayStopped == Spec => []RemovedStaysStopped
  <1>1. Init => TypeInv /\ LifeInv
    BY TypeInvInit, LifeInvInit
  <1>2. TypeInv /\ LifeInv /\ [Next]_vars => TypeInv' /\ LifeInv'
    BY TypeInvStep, LifeInvStep
  <1>3. LifeInv => RemovedStaysStopped
    BY DEF LifeInv, RemovedStaysStopped
  <1> QED
    BY <1>1, <1>2, <1>3, PTL DEF Spec

-----------------------------------------------------------------------------
(* What becomes of commands *)

Taken(m) == \E c \in DOMAIN dispatched[m] : dispatched[m][c].answer = "taken"

\* What CommandsAccountedFor says of a first command, event i.
Accounted(i, m) ==
    \/ Taken(m)
    \/ m \in failed \/ m \in dispatcher.key \/ m \in cut \/ m \in dropped
    \/ \E j \in 1..(i - 1) : log[j] = Removed(log[i].session)
    \/ m \in Replies /\ log[i].session \notin Answerable

\* A boot accounts for what is in the log before it replays it.
Horizon == IF dispatcher.at = "replaying" THEN Len(log) ELSE position

AccountInv ==
    /\ \A m \in bridge.claimed : \E j \in 1..position : log[j].type = "command" /\ log[j].key = m
    /\ \A m, n \in dispatcher.key : m = n
    /\ \A m \in Keys : \A i \in 1..Horizon : FirstCommand(i, m) => Accounted(i, m)

LEMMA AccountInvInit == Init => AccountInv
  BY DEF Init, AccountInv, EmptyBridge, Idle, Horizon

\* The first command with a key is not one of a key that is claimed.
LEMMA FirstIsUnclaimed ==
    ASSUME TypeInv, AccountInv, NEW m, NEW i \in 1..Len(log), position < i, FirstCommand(i, m)
    PROVE  /\ m \notin bridge.claimed
           /\ \A indices : i \in indices /\ m \in Keys => m \in Unclaimed(indices)
  <1>1. ASSUME m \in bridge.claimed PROVE FALSE
    <2>1. PICK j \in 1..position : log[j].type = "command" /\ log[j].key = m
      BY <1>1 DEF AccountInv
    <2>2. j \in Commands(m) /\ j < i
      BY <2>1 DEF Commands, TypeInv
    <2> QED
      BY <2>1, <2>2 DEF FirstCommand, TypeInv
  <1> QED
    BY <1>1 DEF Unclaimed, FirstCommand, Commands

\* What accounts for a command stays.
LEMMA AccountStays ==
    ASSUME UNCHANGED log, failed \subseteq failed', cut \subseteq cut', dropped \subseteq dropped',
           \A m \in Keys : Taken(m) => Taken(m)',
           \A m \in dispatcher.key : m \in dispatcher'.key \cup failed' \cup cut' \/ Taken(m)'
    PROVE  \A i : \A m \in Keys : /\ FirstCommand(i, m)' <=> FirstCommand(i, m)
                                  /\ Accounted(i, m) => Accounted(i, m)'
  BY DEF FirstCommand, Commands, Accounted

\* A step that considers nothing.
LEMMA AccountInvFrame ==
    ASSUME AccountInv, UNCHANGED <<log, position>>,
           bridge'.claimed = bridge.claimed, dispatcher'.key \subseteq dispatcher.key,
           dispatcher'.at = "replaying" => dispatcher.at = "replaying",
           dispatcher'.at # "replaying" /\ dispatcher.at = "replaying" => position = Len(log),
           failed \subseteq failed', cut \subseteq cut', dropped \subseteq dropped',
           \A m \in Keys : Taken(m) => Taken(m)',
           \A m \in dispatcher.key : m \in dispatcher'.key \cup failed' \cup cut' \/ Taken(m)'
    PROVE  AccountInv'
  <1>1. Horizon' = Horizon
    BY DEF Horizon
  <1>2. \A m \in Keys : \A i \in 1..Horizon : FirstCommand(i, m)' => Accounted(i, m)'
    BY AccountStays DEF AccountInv
  <1> QED
    BY <1>1, <1>2 DEF AccountInv

LEMMA AccountInvCommit ==
    ASSUME TypeInv, AccountInv, NEW e \in Events, Commit(e)
    PROVE  AccountInv'
  <1>1. /\ log' = Append(log, e) /\ dispatcher.at # "replaying"
        /\ UNCHANGED <<position, bridge, dispatcher, dispatched, failed, cut, dropped>>
    BY DEF Commit, history, outcomes
  <1>2. /\ position \in 0..Len(log) /\ log \in Seq(Events)
    BY DEF TypeInv
  <1>3. /\ DOMAIN log \subseteq DOMAIN log' /\ 1..position \subseteq DOMAIN log
        /\ \A i \in DOMAIN log : log'[i] = log[i]
        /\ \A i \in 1..position : \A j \in 1..(i - 1) : j \in DOMAIN log
    BY <1>1, <1>2
  <1>4. \A m : Commands(m) \subseteq Commands(m)'
    BY <1>3 DEF Commands
  <1>5. ASSUME NEW m \in Keys, NEW i \in 1..position, FirstCommand(i, m)'
        PROVE  Accounted(i, m)'
    <2>1. FirstCommand(i, m)
      BY <1>3, <1>4, <1>5 DEF FirstCommand, Commands
    <2>2. Accounted(i, m)
      BY <1>1, <2>1 DEF AccountInv, Horizon
    <2>3. Taken(m)' <=> Taken(m)
      BY <1>1 DEF Taken
    <2> QED
      BY <1>1, <1>3, <2>2, <2>3 DEF Accounted
  <1>6. Horizon' = position
    BY <1>1 DEF Horizon
  <1>7. \A m \in bridge.claimed :
           \E j \in 1..position : log'[j].type = "command" /\ log'[j].key = m
    BY <1>3 DEF AccountInv
  <1> QED
    BY <1>1, <1>5, <1>6, <1>7 DEF AccountInv

\* The dispatcher goes past an event, in which it accounts for a new key.
LEMMA AccountInvNext ==
    ASSUME TypeInv, AccountInv, position < Len(log), position' = position + 1, UNCHANGED log,
           dispatcher.at = "idle", dispatcher.key = {}, dispatcher'.at # "replaying",
           UNCHANGED <<dispatched, failed>>, cut \subseteq cut', dropped \subseteq dropped',
           bridge'.claimed \in {bridge.claimed, ClaimsAfter(bridge, Event)},
           \A m, n \in dispatcher'.key : m = n,
           \A m \in Keys : \A i \in {position + 1} : FirstCommand(i, m) => Accounted(i, m)'
    PROVE  AccountInv'
  <1>1. Horizon = position /\ Horizon' = position + 1
    BY DEF Horizon
  <1>2. \A m \in Keys : Taken(m) => Taken(m)'
    BY DEF Taken
  <1>3. ASSUME NEW m \in Keys, NEW i \in 1..(position + 1), FirstCommand(i, m)'
        PROVE  Accounted(i, m)'
    <2>1. FirstCommand(i, m)
      BY <1>2, <1>3, AccountStays
    <2>2. CASE i = position + 1
      BY <2>1, <2>2
    <2>3. CASE i \in 1..position
      BY <1>1, <1>2, <2>1, <2>3, AccountStays DEF AccountInv
    <2> QED
      BY <2>2, <2>3 DEF TypeInv
  <1>4. ASSUME NEW m \in bridge'.claimed
        PROVE  \E j \in 1..(position + 1) : log[j].type = "command" /\ log[j].key = m
    <2>1. position \in Nat
      BY DEF TypeInv
    <2>2. m \in bridge.claimed \/ (Event.type = "command" /\ Event.key = m)
      BY <1>4 DEF ClaimsAfter
    <2> QED
      BY <2>1, <2>2 DEF AccountInv, Event
  <1> QED
    BY <1>1, <1>3, <1>4 DEF AccountInv

\* Considering a command leaves it in hand, unless there is nobody to give it to.
LEMMA AccountInvCommand ==
    ASSUME TypeInv, WorkInv, LifeInv, AccountInv, ConsiderCommand
    PROVE  AccountInv'
  <1> DEFINE s == Event.session
             key == IF Event.key \in Replies /\ s \notin Answerable THEN {} ELSE {Event.key}
  <1>1. /\ position < Len(log) /\ position' = position + 1 /\ Event.type = "command"
        /\ dispatcher.at = "idle" /\ dispatcher.key = {} /\ lost' = lost
        /\ UNCHANGED <<log, dispatched, failed, cut, unopened>>
        /\ bridge'.claimed = ClaimsAfter(bridge, Event)
    BY DEF ConsiderCommand, Considers, Event, WorkInv, Recorded
  <1>2. \/ (Event.key \in bridge.claimed \/ Event.origin = "imported") /\ UNCHANGED <<dispatcher, dropped>>
        \/ dispatcher' \in {Calling(s, key, {}), Opening(s, key)} /\ UNCHANGED dropped
        \/ /\ fiber[s] # "running" /\ s \notin bridge.adapters
           /\ dropped' = IF s \in unopened THEN dropped \cup {Event.key} ELSE dropped
           /\ UNCHANGED dispatcher
    BY DEF ConsiderCommand
  <1>3. /\ Calling(s, key, {}).key = key /\ Opening(s, key).key = key
        /\ Calling(s, key, {}).at # "replaying" /\ Opening(s, key).at # "replaying"
    BY KeyKept DEF Opening
  <1>4. key \subseteq {Event.key}
    OBVIOUS
  <1>5. /\ dispatcher'.at # "replaying" /\ dropped \subseteq dropped'
        /\ \A m, n \in dispatcher'.key : m = n
    BY <1>1, <1>2, <1>3, <1>4
  <1>6. ASSUME NEW m \in Keys, NEW i \in {position + 1}, FirstCommand(i, m)
        PROVE  Accounted(i, m)'
    <2>1. /\ i \in 1..Len(log) /\ position \in Nat /\ position < i
          /\ i - 1 = position /\ log[i] = Event
      BY <1>1 DEF TypeInv, Event
    <2>2. m = Event.key /\ Event.origin = "live"
      BY <1>6, <2>1 DEF FirstCommand, Commands
    <2>3. m \notin bridge.claimed
      BY <1>6, <2>1, FirstIsUnclaimed
    <2>4. CASE dispatcher' \in {Calling(s, key, {}), Opening(s, key)}
      <3>1. dispatcher'.key = key
        BY <1>3, <2>4
      <3>2. m \in dispatcher'.key \/ (m \in Replies /\ s \notin Answerable)
        BY <2>2, <3>1
      <3> QED
        BY <1>1, <2>1, <3>2 DEF Accounted
    <2>5. CASE s \notin bridge.adapters
               /\ dropped' = IF s \in unopened THEN dropped \cup {Event.key} ELSE dropped
      <3>1. CASE s \in unopened
        BY <2>2, <2>5, <3>1 DEF Accounted
      <3>2. CASE s \notin unopened
        <4>1. WasCreated(s) /\ s \in Sessions
          BY <1>1, NextEvent, EventShape, CreatedFirst DEF LifeInv
        <4>2. WasRemoved(s)
          BY <1>1, <2>5, <3>2, <4>1 DEF LifeInv
        <4>3. \E j \in 1..position : log[j] = Removed(s)
          BY <4>2, ConsideredGrows DEF WasRemoved
        <4> QED
          BY <1>1, <2>1, <4>3 DEF Accounted
      <3> QED
        BY <3>1, <3>2
    <2> QED
      BY <1>2, <2>2, <2>3, <2>4, <2>5
  <1> QED
    BY <1>1, <1>5, <1>6, AccountInvNext

LEMMA AccountInvConsider ==
    ASSUME TypeInv, WorkInv, AccountInv
    PROVE  /\ ConsiderSessionCreated => AccountInv'
           /\ ConsiderSetting => AccountInv'
           /\ ConsiderSessionRemoved => AccountInv'
           /\ PassOver => AccountInv'
           /\ ReplayEvent => AccountInv'
  <1>1. CASE ConsiderSessionCreated \/ ConsiderSetting \/ ConsiderSessionRemoved
    <2>1. /\ position < Len(log) /\ position' = position + 1 /\ Event.type # "command"
          /\ dispatcher.at = "idle" /\ dispatcher.key = {}
          /\ UNCHANGED <<log, dispatched, failed, cut, dropped>>
      BY <1>1 DEF ConsiderSessionCreated, ConsiderSetting, ConsiderSessionRemoved, Considers,
        Event, WorkInv, history, outcomes
    <2>2. bridge'.claimed \in {bridge.claimed, ClaimsAfter(bridge, Event)}
      BY <1>1 DEF ConsiderSessionCreated, ConsiderSetting, ConsiderSessionRemoved, Recorded
    <2>3. \/ UNCHANGED dispatcher
          \/ \E s, todo : dispatcher' \in {Calling(s, {}, todo), Opening(s, {})}
      BY <1>1 DEF ConsiderSessionCreated, ConsiderSetting, ConsiderSessionRemoved
    <2>4. dispatcher'.key = {} /\ dispatcher'.at # "replaying"
      BY <2>1, <2>3, KeyKept DEF Opening
    <2>5. \A m : ~FirstCommand(position + 1, m)
      BY <2>1 DEF FirstCommand, Commands, Event
    <2> QED
      BY <2>1, <2>2, <2>4, <2>5, AccountInvNext
  <1>2. CASE PassOver
    <2>1. /\ position < Len(log) /\ position' = position + 1 /\ dispatcher.at = "idle"
          /\ dispatcher.key = {}
          /\ UNCHANGED <<log, bridge, dispatcher, dispatched, failed, dropped>>
          /\ cut' = cut \cup Unclaimed({position + 1})
      BY <1>2 DEF PassOver, WorkInv
    <2>2. ASSUME NEW m \in Keys, NEW i \in {position + 1}, FirstCommand(i, m)
          PROVE  Accounted(i, m)'
      <3>1. i \in 1..Len(log) /\ position < i
        BY <2>1 DEF TypeInv
      <3>2. m \in cut'
        BY <2>1, <2>2, <3>1, FirstIsUnclaimed
      <3> QED
        BY <3>2 DEF Accounted
    <2> QED
      BY <2>1, <2>2, AccountInvNext
  <1>3. CASE ReplayEvent
    <2>1. /\ position < Len(log) /\ position' = position + 1 /\ dispatcher.at = "replaying"
          /\ UNCHANGED <<log, dispatcher, dispatched, failed, cut, dropped>>
          /\ bridge'.claimed = ClaimsAfter(bridge, Event)
      BY <1>3 DEF ReplayEvent, history, outcomes, Recorded
    <2>2. Horizon' = Horizon
      BY <2>1 DEF Horizon
    <2>3. \A m \in Keys : \A i \in 1..Horizon : FirstCommand(i, m)' => Accounted(i, m)'
      BY <2>1, AccountStays DEF AccountInv, Taken
    <2>4. ASSUME NEW m \in bridge'.claimed
          PROVE  \E j \in 1..(position + 1) : log[j].type = "command" /\ log[j].key = m
      <3>1. position \in Nat
        BY DEF TypeInv
      <3>2. m \in bridge.claimed \/ (Event.type = "command" /\ Event.key = m)
        BY <2>1, <2>4 DEF ClaimsAfter
      <3> QED
        BY <3>1, <3>2 DEF AccountInv, Event
    <2> QED
      BY <2>1, <2>2, <2>3, <2>4 DEF AccountInv
  <1> QED
    BY <1>1, <1>2, <1>3

\* One more call does not undo those that were taken.
LEMMA TakenStays ==
    ASSUME TypeInv,
           \/ dispatched' = dispatched
           \/ \E m \in Keys, answer \in {"taken", "failed"} : Deliver(m, answer)
    PROVE  \A n \in Keys : Taken(n) => Taken(n)'
  <1>1. CASE dispatched' = dispatched
    BY <1>1 DEF Taken
  <1>2. ASSUME NEW m \in Keys, NEW answer \in {"taken", "failed"}, Deliver(m, answer),
               NEW n \in Keys, Taken(n)
        PROVE  Taken(n)'
    <2> DEFINE call == [during |-> <<boot, position>>, answer |-> answer]
    <2>1. /\ dispatched'[m] = Append(dispatched[m], call) /\ dispatched[m] \in Seq(Call)
          /\ n # m => dispatched'[n] = dispatched[n]
      BY <1>2, DeliverIs
    <2> HIDE DEF call
    <2>2. \A c \in DOMAIN dispatched[m] :
             c \in DOMAIN dispatched'[m] /\ dispatched'[m][c] = dispatched[m][c]
      BY <2>1
    <2> QED
      BY <1>2, <2>1, <2>2 DEF Taken
  <1> QED
    BY <1>1, <1>2

\* A command is let go of when it was taken or has failed.
LEMMA AccountInvCalling ==
    ASSUME TypeInv, AccountInv
    PROVE  /\ \A s \in Sessions, k \in Settings : ApplySetting(s, k) => AccountInv'
           /\ \A s \in Sessions, m \in Keys : DispatchCommand(s, m) => AccountInv'
           /\ OpenSession \/ RootMissing => AccountInv'
           /\ RetryCall => AccountInv'
           /\ CallFails => AccountInv'
           /\ CallHangs \/ CallResumes => AccountInv'
  <1>1. ASSUME NEW s, NEW todo, dispatcher' = Calling(s, dispatcher.key, todo),
               dispatcher.at # "replaying",
               UNCHANGED <<log, position, outcomes>>, bridge'.claimed = bridge.claimed
        PROVE  AccountInv'
    BY <1>1, KeyKept, AccountInvFrame DEF outcomes, Taken
  <1>2. ASSUME NEW s \in Sessions, NEW k \in Settings, ApplySetting(s, k)
        PROVE  AccountInv'
    BY <1>1, <1>2 DEF ApplySetting
  <1>3. CASE OpenSession \/ RootMissing
    <2>1. /\ UNCHANGED <<log, position, outcomes>> /\ bridge'.claimed = bridge.claimed
          /\ dispatcher.at = "opening"
      BY <1>3 DEF OpenSession, RootMissing, history, TypeInv, BridgeType
    <2>2. \E s, todo : dispatcher' = Calling(s, dispatcher.key, todo)
      BY <1>3 DEF OpenSession, RootMissing
    <2> QED
      BY <1>1, <2>1, <2>2
  <1>4. ASSUME NEW s \in Sessions, NEW m \in Keys, DispatchCommand(s, m)
        PROVE  AccountInv'
    <2>1. /\ UNCHANGED <<log, position, bridge, failed, cut, dropped>> /\ m \in dispatcher.key
          /\ dispatcher' = Idle /\ dispatcher.at = "calling" /\ Deliver(m, "taken")
      BY <1>4 DEF DispatchCommand
    <2> DEFINE call == [during |-> <<boot, position>>, answer |-> "taken"]
    <2>2. dispatched'[m] = Append(dispatched[m], call) /\ dispatched[m] \in Seq(Call)
      BY <2>1, DeliverIs
    <2>3. call.answer = "taken"
      OBVIOUS
    <2> HIDE DEF call
    <2>4. Taken(m)'
      <3>1. Len(dispatched[m]) + 1 \in DOMAIN dispatched'[m]
            /\ dispatched'[m][Len(dispatched[m]) + 1] = call
        BY <2>2
      <3> QED
        BY <2>3, <3>1 DEF Taken
    <2>5. \A n \in dispatcher.key : Taken(n)'
      BY <2>1, <2>4 DEF AccountInv
    <2> QED
      BY <2>1, <2>5, KeyKept, TakenStays, AccountInvFrame
  <1>5. CASE RetryCall
    <2>1. /\ UNCHANGED <<log, position, bridge, failed, cut, dropped>> /\ AttemptFails
          /\ dispatcher' = [dispatcher EXCEPT !.tries = dispatcher.tries - 1]
      BY <1>5 DEF RetryCall
    <2>2. dispatcher'.key = dispatcher.key /\ dispatcher'.at = "calling" /\ dispatcher.at = "calling"
      BY <2>1, AttemptIs DEF TypeInv, DispatcherType
    <2>3. \A n \in Keys : Taken(n) => Taken(n)'
      BY <2>1, AttemptIs, TakenStays
    <2> QED
      BY <2>1, <2>2, <2>3, AccountInvFrame
  <1>6. CASE CallFails
    <2>1. /\ UNCHANGED <<log, position, bridge, cut, dropped>> /\ dispatcher.at = "calling"
      BY <1>6 DEF CallFails
    <2>2. \/ /\ UNCHANGED <<dispatched, failed>>
             /\ \E s, todo : dispatcher' = Calling(s, dispatcher.key, todo)
          \/ /\ dispatcher' = Idle /\ failed' = failed \cup dispatcher.key
             /\ \/ dispatched' = dispatched
                \/ \E m \in dispatcher.key : m \in Keys /\ Deliver(m, "failed")
      BY <1>6, CallFailsIs
    <2>3. CASE UNCHANGED <<dispatched, failed>>
               /\ \E s, todo : dispatcher' = Calling(s, dispatcher.key, todo)
      BY <1>1, <2>1, <2>3 DEF outcomes
    <2>4. CASE /\ dispatcher' = Idle /\ failed' = failed \cup dispatcher.key
               /\ \/ dispatched' = dispatched
                  \/ \E m \in dispatcher.key : m \in Keys /\ Deliver(m, "failed")
      <3>1. \A n \in Keys : Taken(n) => Taken(n)'
        BY <2>4, TakenStays
      <3> QED
        BY <2>1, <2>4, <3>1, KeyKept, AccountInvFrame
    <2> QED
      BY <2>2, <2>3, <2>4
  <1>7. CASE CallHangs \/ CallResumes
    <2>1. /\ UNCHANGED <<log, position, bridge, outcomes>> /\ dispatcher.at # "replaying"
          /\ \E at \in {"calling", "hung"} : dispatcher' = [dispatcher EXCEPT !.at = at]
      BY <1>7 DEF CallHangs, CallResumes, history
    <2>2. dispatcher'.key = dispatcher.key /\ dispatcher'.at # "replaying"
      BY <2>1 DEF TypeInv, DispatcherType
    <2> QED
      BY <2>1, <2>2, AccountInvFrame DEF outcomes, Taken
  <1> QED
    BY <1>2, <1>3, <1>4, <1>5, <1>6, <1>7

\* A process that ends cuts off the command in hand and all that is ahead.
LEMMA AccountInvRestart ==
    ASSUME TypeInv, WorkInv, AccountInv, Restart
    PROVE  AccountInv'
  <1>1. /\ UNCHANGED <<log, dispatched, failed, dropped>> /\ position' = 0
        /\ dispatcher'.at = "replaying" /\ dispatcher'.key = {} /\ bridge'.claimed = {}
        /\ cut \subseteq cut'
        /\ dispatcher.at # "replaying" =>
              cut' = cut \cup dispatcher.key \cup Unclaimed((position + 1)..Len(log))
    BY DEF Restart, Idle, EmptyBridge
  <1>2. dispatcher.at = "replaying" => dispatcher.key = {}
    BY DEF WorkInv
  <1>3. \A i : \A m \in Keys : /\ FirstCommand(i, m)' <=> FirstCommand(i, m)
                               /\ Accounted(i, m) => Accounted(i, m)'
    BY <1>1, <1>2, AccountStays DEF Taken
  <1>4. ASSUME NEW m \in Keys, NEW i \in 1..Len(log), FirstCommand(i, m)
        PROVE  Accounted(i, m)'
    <2>1. CASE i \in 1..Horizon
      BY <1>3, <1>4, <2>1 DEF AccountInv
    <2>2. CASE i \notin 1..Horizon
      <3>1. dispatcher.at # "replaying" /\ position < i /\ i \in (position + 1)..Len(log)
        BY <2>2 DEF Horizon, TypeInv
      <3>2. m \in cut'
        BY <1>1, <1>4, <3>1, FirstIsUnclaimed
      <3> QED
        BY <3>2 DEF Accounted
    <2> QED
      BY <2>1, <2>2
  <1>5. Horizon' = Len(log)
    BY <1>1 DEF Horizon
  <1> QED
    BY <1>1, <1>3, <1>4, <1>5 DEF AccountInv

LEMMA AccountInvStep ==
    TypeInv /\ WorkInv /\ LifeInv /\ AccountInv /\ [Next]_vars => AccountInv'
  <1> SUFFICES ASSUME TypeInv, WorkInv, LifeInv, AccountInv, [Next]_vars PROVE AccountInv'
    OBVIOUS
  <1>1. CASE \/ \E s \in Sessions : Register(s) \/ StreamEnds(s) \/ StreamFails(s)
             \/ UNCHANGED vars
    <2>1. UNCHANGED <<log, position, bridge, dispatcher, outcomes>>
      BY <1>1 DEF Register, StreamEnds, StreamFails, history, vars
    <2> QED
      BY <2>1, AccountInvFrame DEF outcomes, Taken
  <1>2. CASE ReplayEnds
    <2>1. /\ UNCHANGED <<log, position, bridge, outcomes>> /\ position = Len(log)
          /\ dispatcher.at = "replaying" /\ dispatcher' = Idle /\ dispatcher.key = {}
      BY <1>2 DEF ReplayEnds, history, WorkInv
    <2> QED
      BY <2>1, KeyKept, AccountInvFrame DEF outcomes, Taken
  <1> QED
    BY <1>1, <1>2, AccountInvCommit, AccountInvConsider, AccountInvCommand, AccountInvCalling,
       AccountInvRestart
    DEF Next, DispatcherStep

\* Every command the dispatcher is past was taken or raised a failure, or is one of
\* the cases named: cut off as a process ended or never announced, of a session removed
\* or unrecorded, or a reply nobody takes (consider*, replay of ProviderBridge.ts).
THEOREM CommandsAreAccountedFor == Spec => []CommandsAccountedFor
  <1>1. Init => TypeInv /\ WorkInv /\ LifeInv /\ AccountInv
    BY TypeInvInit, WorkInvInit, LifeInvInit, AccountInvInit
  <1>2. TypeInv /\ WorkInv /\ LifeInv /\ AccountInv /\ [Next]_vars
           => TypeInv' /\ WorkInv' /\ LifeInv' /\ AccountInv'
    BY TypeInvStep, WorkInvStep, LifeInvStep, AccountInvStep
  <1>3. TypeInv /\ AccountInv => CommandsAccountedFor
    <2> SUFFICES ASSUME TypeInv, AccountInv, NEW m \in Keys, NEW i \in 1..position,
                        FirstCommand(i, m)
                 PROVE  Accounted(i, m)
      BY DEF CommandsAccountedFor, Accounted, Taken
    <2>1. i \in 1..Horizon
      BY DEF Horizon, TypeInv
    <2> QED
      BY <2>1 DEF AccountInv
  <1> QED
    BY <1>1, <1>2, <1>3, PTL DEF Spec

-----------------------------------------------------------------------------
(* Settings: the recorded ones are the last of the log, the agent's are     *)
(* the recorded ones once the dispatcher has no call left to make           *)

Relevant(e, s, k) ==
    e.session = s /\ (e.type = "removed" \/ (e.type = "set" /\ e.setting = k))
Effect(e) == IF e.type = "set" THEN e.value ELSE Default

\* LastSet over these events of a log l.
LastIn(indices, l, s, k, v) ==
    \/ v = Default /\ \A i \in indices : ~Relevant(l[i], s, k)
    \/ \E i \in indices : /\ Relevant(l[i], s, k) /\ v = Effect(l[i])
                           /\ \A j \in indices : Relevant(l[j], s, k) => j <= i

\* The dispatcher still has this setting to give.
Pending(s, k) ==
    dispatcher.at \in {"calling", "hung"} /\ s \in dispatcher.session /\ k \in dispatcher.todo

\* A running session has what is recorded, or will be given it, or has refused it.
Settled(s, k) ==
    \/ <<s, k>> \in refused
    \/ Pending(s, k)
    \/ s \in registered /\ agent[s][k] = bridge.chosen[s][k]
    \/ s \notin registered /\ bridge.chosen[s][k] = Default

SetInv ==
    /\ \A s \in Sessions, k \in Settings : LastIn(Considered, log, s, k, bridge.chosen[s][k])
    /\ \A s \in registered : fiber[s] = "running"
    /\ dispatcher.at \in {"opening", "calling", "hung"} =>
          \E s \in Sessions : /\ dispatcher.session = {s}
                              /\ dispatcher.at = "opening" => fiber[s] # "running"
    /\ \A s \in Sessions, k \in Settings :
          fiber[s] = "running" /\ <<s, k>> \in Settable => Settled(s, k)

LEMMA LastSetMeans ==
    ASSUME NEW s, NEW k, NEW v, LastIn(Considered, log, s, k, v)
    PROVE  LastSet(s, k, v)
  BY DEF LastSet, Relevant, Effect, LastIn

\* What considering one more event, the n-th, does to it.
LEMMA LastInNext ==
    ASSUME NEW n \in Nat, NEW indices, \A i \in indices : i \in Nat /\ i <= n,
           NEW l, NEW s, NEW k, NEW v
    PROVE  /\ Relevant(l[n], s, k) /\ v = Effect(l[n]) => LastIn(indices \cup {n}, l, s, k, v)
           /\ ~Relevant(l[n], s, k) /\ LastIn(indices, l, s, k, v) =>
                 LastIn(indices \cup {n}, l, s, k, v)
  <1>1. CASE Relevant(l[n], s, k) /\ v = Effect(l[n])
    BY <1>1 DEF LastIn
  <1>2. CASE ~Relevant(l[n], s, k) /\ LastIn(indices, l, s, k, v)
    BY <1>2 DEF LastIn
  <1> QED
    BY <1>1, <1>2

\* It is a fact about the events considered, so a longer log does not change it.
LEMMA LastInLonger ==
    ASSUME NEW indices, NEW l, NEW longer, \A i \in indices : longer[i] = l[i],
           NEW s, NEW k, NEW v, LastIn(indices, l, s, k, v)
    PROVE  LastIn(indices, longer, s, k, v)
  BY DEF LastIn

\* What the bridge has recorded after an event.
LEMMA ChosenNext ==
    ASSUME NEW b \in BridgeType, NEW e \in Events, NEW s \in Sessions, NEW k \in Settings
    PROVE  Recorded(b, e).chosen[s][k] =
              IF Relevant(e, s, k) THEN Effect(e) ELSE b.chosen[s][k]
  <1>1. Recorded(b, e).chosen = ChosenAfter(b, e)
    BY DEF Recorded
  <1>2. b.chosen \in Chosen /\ e.session \in Sessions
    BY EventShape DEF BridgeType
  <1>3. CASE e.type = "set"
    <2>1. ChosenAfter(b, e) = [b.chosen EXCEPT ![e.session][e.setting] = e.value]
      BY <1>3 DEF ChosenAfter
    <2>2. e.setting \in Settings
      BY <1>3, EventShape
    <2> QED
      BY <1>1, <1>2, <1>3, <2>1, <2>2 DEF Chosen, Relevant, Effect
  <1>4. CASE e.type = "removed"
    <2>1. ChosenAfter(b, e) = [b.chosen EXCEPT ![e.session] = Nothing]
      BY <1>4 DEF ChosenAfter
    <2> QED
      BY <1>1, <1>2, <1>4, <2>1 DEF Chosen, Relevant, Effect, Nothing
  <1>5. CASE e.type # "set" /\ e.type # "removed"
    <2>1. ChosenAfter(b, e) = b.chosen
      BY <1>5 DEF ChosenAfter
    <2> QED
      BY <1>1, <1>5, <2>1 DEF Relevant
  <1> QED
    BY <1>3, <1>4, <1>5

\* Recording the next event keeps what is recorded the last of the log.
LEMMA ChosenIsLast ==
    ASSUME TypeInv, SetInv, position < Len(log),
           NEW s \in Sessions, NEW k \in Settings, NEW b, b = Recorded(bridge, Event)
    PROVE  /\ LastIn(Considered \cup {position + 1}, log, s, k, b.chosen[s][k])
           /\ ~Relevant(Event, s, k) => b.chosen[s][k] = bridge.chosen[s][k]
  <1>1. Event \in Events /\ bridge \in BridgeType /\ position \in Nat
    BY NextEvent DEF TypeInv
  <1>2. b.chosen[s][k] = IF Relevant(Event, s, k) THEN Effect(Event) ELSE bridge.chosen[s][k]
    BY <1>1, ChosenNext
  <1>3. LastIn(Considered, log, s, k, bridge.chosen[s][k])
    BY DEF SetInv
  <1>4. Event = log[position + 1] /\ \A i \in Considered : i \in Nat /\ i <= position + 1
    BY ConsideredGrows DEF Event, TypeInv
  <1> QED
    BY <1>1, <1>2, <1>3, <1>4, LastInNext

LEMMA SetInvInit == Init => SetInv
  BY DEF Init, SetInv, LastIn, Considered, EmptyBridge, Nothing, Idle

LEMMA SetInvCommit ==
    ASSUME TypeInv, SetInv, NEW e \in Events, Commit(e)
    PROVE  SetInv'
  <1>1. /\ UNCHANGED <<position, lost, bridge, fiber, dispatcher, registered, agent, refused>>
        /\ log' = Append(log, e)
    BY DEF Commit, adapterState, history
  <1>2. Considered' = Considered /\ \A i \in Considered : log'[i] = log[i]
    <2>1. Considered' = Considered /\ Considered \subseteq 1..position
      BY <1>1, ConsideredGrows
    <2>2. position \in 0..Len(log) /\ log \in Seq(Events)
      BY DEF TypeInv
    <2> QED
      BY <1>1, <2>1, <2>2
  <1>3. \A s \in Sessions, k \in Settings : LastIn(Considered, log', s, k, bridge.chosen[s][k])
    BY <1>2, LastInLonger DEF SetInv
  <1>4. \A s \in Sessions, k \in Settings : Settled(s, k)' <=> Settled(s, k)
    BY <1>1 DEF Settled, Pending
  <1> QED
    BY <1>1, <1>2, <1>3, <1>4 DEF SetInv

\* Nothing is considered or recorded.
LEMMA SetInvFrame ==
    ASSUME SetInv, UNCHANGED <<log, position, lost>>, bridge'.chosen = bridge.chosen,
           UNCHANGED <<fiber, registered, agent, refused>>,
           dispatcher'.at = "opening" => UNCHANGED dispatcher,
           dispatcher'.at \in {"calling", "hung"} =>
              /\ dispatcher.at \in {"opening", "calling", "hung"}
              /\ dispatcher'.session = dispatcher.session,
           dispatcher.at \in {"calling", "hung"} =>
              \A k \in dispatcher.todo : /\ dispatcher'.at \in {"calling", "hung"}
                                         /\ k \in dispatcher'.todo
    PROVE  SetInv'
  <1>1. Considered' = Considered
    BY DEF Considered
  <1>2. \A s, k : Settled(s, k) => Settled(s, k)'
    BY DEF Settled, Pending
  <1> QED
    BY <1>1, <1>2 DEF SetInv

\* After an event is considered, what matters is the agent it is about.
LEMMA SetInvRecorded ==
    ASSUME TypeInv, SetInv, position < Len(log), position' = position + 1,
           UNCHANGED <<log, lost>>,
           bridge' = Recorded(bridge, Event), UNCHANGED <<agent, refused>>,
           registered' \subseteq registered,
           \A s \in Sessions : fiber'[s] = "running" =>
              fiber[s] = "running" /\ (s \in registered' <=> s \in registered),
           \A s \in registered' : fiber'[s] = "running",
           \A s \in Sessions, k \in Settings :
              fiber'[s] = "running" /\ Relevant(Event, s, k) /\ <<s, k>> \in Settable =>
                 Pending(s, k)',
           dispatcher.at \notin {"calling", "hung"},
           dispatcher'.at \in {"opening", "calling", "hung"} =>
              \E s \in Sessions : /\ dispatcher'.session = {s}
                                  /\ dispatcher'.at = "opening" => fiber'[s] # "running"
    PROVE  SetInv'
  <1>0. Considered' = Considered \cup {position + 1}
    BY ConsideredGrows
  <1>1. ASSUME NEW s \in Sessions, NEW k \in Settings
        PROVE  /\ LastIn(Considered', log', s, k, bridge'.chosen[s][k])
               /\ ~Relevant(Event, s, k) => bridge'.chosen[s][k] = bridge.chosen[s][k]
    <2>1. /\ LastIn(Considered \cup {position + 1}, log, s, k, bridge'.chosen[s][k])
          /\ ~Relevant(Event, s, k) => bridge'.chosen[s][k] = bridge.chosen[s][k]
      BY ChosenIsLast
    <2> QED
      BY <1>0, <2>1
  <1>2. ASSUME NEW s \in Sessions, NEW k \in Settings, fiber'[s] = "running",
               <<s, k>> \in Settable
        PROVE  Settled(s, k)'
    <2>1. CASE Relevant(Event, s, k)
      BY <1>2, <2>1 DEF Settled
    <2>2. CASE ~Relevant(Event, s, k)
      <3>1. Settled(s, k) /\ ~Pending(s, k)
        BY <1>2 DEF SetInv, Pending
      <3> QED
        BY <1>1, <1>2, <2>2, <3>1 DEF Settled
    <2> QED
      BY <2>1, <2>2
  <1> QED
    BY <1>0, <1>1, <1>2 DEF SetInv

LEMMA SetInvConsider ==
    ASSUME TypeInv, LifeInv, SetInv
    PROVE  /\ ConsiderSessionCreated => SetInv'
           /\ ConsiderCommand => SetInv'
           /\ ConsiderSetting => SetInv'
           /\ ConsiderSessionRemoved => SetInv'
           /\ ReplayEvent => SetInv'
  <1> DEFINE e == Event
  <1>1. ASSUME NEW type, Considers(type)
        PROVE  /\ position < Len(log) /\ position' = position + 1 /\ e.type = type
               /\ lost' = lost /\ dispatcher.at = "idle" /\ e \in Events /\ e.session \in Sessions
    BY <1>1, NextEvent, EventShape DEF Considers, Event
  <1>2. \A s, key, todo : /\ Calling(s, key, todo).at \in {"idle", "calling"}
                          /\ Calling(s, key, todo).at = "calling" =>
                                Calling(s, key, todo).session = {s}
    BY DispatcherGoes
  <1>3. \A s, key : Opening(s, key).at = "opening" /\ Opening(s, key).session = {s}
    BY DispatcherGoes
  <1>4. \A s \in registered : s \in Sessions /\ fiber[s] = "running"
    BY DEF TypeInv, SetInv
  <1> HIDE DEF e
  <1>5. CASE ConsiderSessionCreated
    <2>1. /\ UNCHANGED <<log, fiber, registered, agent, refused>> /\ e.type = "created"
          /\ position < Len(log) /\ position' = position + 1 /\ lost' = lost
          /\ dispatcher.at = "idle"
          /\ e \in Events /\ e.session \in Sessions
      BY <1>1, <1>5 DEF ConsiderSessionCreated, adapterState, history
    <2>2. \A s, k : ~Relevant(e, s, k)
      BY <2>1 DEF Relevant
    <2>3. CASE UNCHANGED dispatcher /\ bridge' = Recorded(bridge, e)
      BY <1>4, <2>1, <2>2, <2>3, SetInvRecorded DEF e
    <2>4. CASE UNCHANGED bridge /\ dispatcher' = Opening(e.session, {})
      <3>1. fiber[e.session] # "running"
        BY <2>1, CreatedFirst DEF LifeInv, e
      <3>2. \A s \in Sessions, k \in Settings :
               LastIn(Considered', log', s, k, bridge'.chosen[s][k])
        <4>1. /\ position + 1 \in Nat /\ e = log[position + 1]
              /\ \A i \in Considered : i \in Nat /\ i <= position + 1
              /\ Considered' = Considered \cup {position + 1}
          BY <2>1, ConsideredGrows DEF TypeInv, e, Event
        <4> QED
          BY <2>1, <2>2, <2>4, <4>1, LastInNext DEF SetInv
      <3>3. ASSUME NEW s \in Sessions, NEW k \in Settings, fiber[s] = "running",
                   <<s, k>> \in Settable
            PROVE  Settled(s, k)'
        <4>1. Settled(s, k) /\ ~Pending(s, k)
          BY <2>1, <3>3 DEF SetInv, Pending
        <4> QED
          BY <2>1, <2>4, <4>1 DEF Settled
      <3> QED
        BY <1>3, <2>1, <2>4, <3>1, <3>2, <3>3 DEF SetInv
    <2> QED
      BY <1>5, <2>3, <2>4 DEF ConsiderSessionCreated, e
  <1>6. CASE ConsiderCommand
    <2>1. /\ UNCHANGED <<log, fiber, registered, agent, refused>> /\ e.type = "command"
          /\ position < Len(log) /\ position' = position + 1 /\ lost' = lost
          /\ dispatcher.at = "idle"
          /\ e \in Events /\ e.session \in Sessions /\ bridge' = Recorded(bridge, e)
      BY <1>1, <1>6 DEF ConsiderCommand, adapterState, e
    <2>2. \A s, k : ~Relevant(e, s, k)
      BY <2>1 DEF Relevant
    <2>3. \E key :
             \/ UNCHANGED dispatcher
             \/ dispatcher' = Calling(e.session, key, {})
             \/ dispatcher' = Opening(e.session, key) /\ fiber[e.session] # "running"
      BY <1>6 DEF ConsiderCommand, e
    <2>4. dispatcher'.at \in {"opening", "calling", "hung"} =>
             /\ dispatcher'.session = {e.session}
             /\ dispatcher'.at = "opening" => fiber'[e.session] # "running"
      BY <1>2, <1>3, <2>1, <2>3
    <2> QED
      BY <1>4, <2>1, <2>2, <2>4, SetInvRecorded DEF e
  <1>7. CASE ConsiderSetting
    <2>1. /\ UNCHANGED <<log, fiber, registered, agent, refused>> /\ e.type = "set"
          /\ position < Len(log) /\ position' = position + 1 /\ lost' = lost
          /\ dispatcher.at = "idle"
          /\ e \in Events /\ e.session \in Sessions /\ bridge' = Recorded(bridge, e)
      BY <1>1, <1>7 DEF ConsiderSetting, adapterState, history, e
    <2>2. \A s, k : Relevant(e, s, k) => s = e.session /\ k = e.setting
      BY <2>1 DEF Relevant
    <2>3. \/ /\ fiber[e.session] = "running"
             /\ dispatcher' = Calling(e.session, {}, IF <<e.session, e.setting>> \in Settable
                                                     THEN {e.setting} ELSE {})
          \/ /\ fiber[e.session] # "running"
             /\ UNCHANGED dispatcher \/ dispatcher' = Opening(e.session, {})
      BY <1>7 DEF ConsiderSetting, e
    <2>4. dispatcher'.at \in {"opening", "calling", "hung"} =>
             /\ dispatcher'.session = {e.session}
             /\ dispatcher'.at = "opening" => fiber'[e.session] # "running"
      BY <1>2, <1>3, <2>1, <2>3
    <2>5. Calling(e.session, {}, {e.setting}) =
             [at |-> "calling", session |-> {e.session}, key |-> {}, todo |-> {e.setting},
              tries |-> Retries]
      <3>1. {e.setting} # {}
        OBVIOUS
      <3> QED
        BY <3>1 DEF Calling
    <2>6. fiber[e.session] = "running" /\ <<e.session, e.setting>> \in Settable =>
             dispatcher'.at = "calling" /\ dispatcher'.session = {e.session}
             /\ dispatcher'.todo = {e.setting}
      BY <2>3, <2>5
    <2> QED
      BY <1>4, <2>1, <2>2, <2>4, <2>6, SetInvRecorded DEF e, Pending
  <1>8. CASE ConsiderSessionRemoved
    <2>1. /\ UNCHANGED <<log, dispatcher, agent, refused>> /\ e.type = "removed"
          /\ position < Len(log) /\ position' = position + 1 /\ lost' = lost
          /\ dispatcher.at = "idle"
          /\ e.session \in Sessions /\ bridge' = Recorded(bridge, e)
          /\ fiber' = [fiber EXCEPT ![e.session] = "none"]
          /\ registered' = registered \ {e.session}
      BY <1>1, <1>8 DEF ConsiderSessionRemoved, history, e
    <2>2. \A s \in Sessions : fiber'[s] = IF s = e.session THEN "none" ELSE fiber[s]
      BY <2>1 DEF TypeInv
    <2>3. \A s, k : Relevant(e, s, k) => s = e.session
      BY <2>1 DEF Relevant
    <2> QED
      BY <1>4, <2>1, <2>2, <2>3, SetInvRecorded DEF e
  <1>9. CASE ReplayEvent
    <2>1. /\ UNCHANGED <<log, lost, fiber, dispatcher, registered, agent, refused>>
          /\ position < Len(log) /\ position' = position + 1 /\ dispatcher.at = "replaying"
          /\ bridge' = Recorded(bridge, e)
      BY <1>9 DEF ReplayEvent, adapterState, history, e
    <2>2. \A s \in Sessions : fiber[s] # "running"
      BY <2>1 DEF LifeInv
    <2> QED
      BY <1>4, <2>1, <2>2, SetInvRecorded DEF e
  <1> QED
    BY <1>5, <1>6, <1>7, <1>8, <1>9

\* The dispatcher opens a session and calls adapters.
LEMMA SetInvOpenSession ==
    ASSUME TypeInv, SetInv, OpenSession
    PROVE  SetInv'
  <1>1. PICK s \in dispatcher.session :
           /\ bridge' = [bridge EXCEPT !.adapters = @ \cup {s}]
           /\ fiber' = [fiber EXCEPT ![s] = "running"]
           /\ dispatcher' = Calling(s, dispatcher.key, ToApply(s))
    BY DEF OpenSession
  <1> DEFINE todo == ToApply(s)
  <1>2. /\ dispatcher.session = {s} /\ s \in Sessions /\ fiber[s] # "running"
        /\ dispatcher.at = "opening"
    BY <1>1 DEF OpenSession, SetInv, TypeInv, DispatcherType
  <1>3. /\ UNCHANGED <<log, position, lost, registered, agent, refused>>
        /\ bridge'.chosen = bridge.chosen
    BY <1>1 DEF OpenSession, adapterState, history, TypeInv, BridgeType
  <1>4. /\ dispatcher'.at \in {"idle", "calling"}
        /\ dispatcher'.at = "calling" => dispatcher'.session = {s}
        /\ \A k \in todo : /\ dispatcher'.at = "calling" /\ s \in dispatcher'.session
                           /\ k \in dispatcher'.todo
    BY <1>1 DEF Calling, Idle
  <1>5. s \notin registered
    BY <1>2 DEF SetInv
  <1>6. \A t \in Sessions : fiber'[t] = IF t = s THEN "running" ELSE fiber[t]
    BY <1>1 DEF TypeInv
  <1>7. \A k \in Settings : bridge.chosen[s][k] # Default /\ <<s, k>> \in Settable => k \in todo
    BY DEF ToApply
  <1> HIDE DEF todo
  <1>8. ASSUME NEW t \in Sessions, NEW k \in Settings, fiber'[t] = "running",
               <<t, k>> \in Settable
        PROVE  Settled(t, k)'
    <2>1. CASE t = s
      BY <1>3, <1>4, <1>5, <1>7, <1>8, <2>1 DEF Settled, Pending
    <2>2. CASE t # s
      BY <1>2, <1>3, <1>6, <1>8, <2>2 DEF SetInv, Settled, Pending
    <2> QED
      BY <2>1, <2>2
  <1>9. Considered' = Considered
    BY <1>3 DEF Considered
  <1> QED
    BY <1>2, <1>3, <1>4, <1>6, <1>8, <1>9 DEF SetInv, TypeInv

\* A setting is given or refused; the agent changes at most in that setting.
LEMMA SetInvSetting ==
    ASSUME TypeInv, SetInv, UNCHANGED <<log, position, lost, bridge, fiber, registered>>,
           dispatcher.at = "calling",
           NEW s \in dispatcher.session, NEW k \in Settings,
           dispatcher' = Calling(s, dispatcher.key, dispatcher.todo \ {k}),
           agent' \in {agent, [agent EXCEPT ![s][k] = bridge.chosen[s][k]]},
           refused \ {<<s, k>>} \subseteq refused',
           \/ <<s, k>> \in refused'
           \/ s \in registered /\ agent' = [agent EXCEPT ![s][k] = bridge.chosen[s][k]]
    PROVE  SetInv'
  <1>1. dispatcher.session = {s} /\ s \in Sessions
    BY DEF SetInv
  <1>2. /\ agent' = [agent EXCEPT ![s][k] = bridge.chosen[s][k]] => agent'[s][k] = bridge.chosen[s][k]
        /\ \A t \in Sessions, j \in Settings : t # s \/ j # k => agent'[t][j] = agent[t][j]
    BY <1>1 DEF TypeInv, Chosen
  <1>3. \A j \in dispatcher.todo \ {k} : Pending(s, j)'
    BY DEF Pending, Calling
  <1>4. ASSUME NEW t \in Sessions, NEW j \in Settings, fiber[t] = "running",
               <<t, j>> \in Settable
        PROVE  Settled(t, j)'
    <2>1. CASE t = s /\ j = k
      BY <1>2, <2>1 DEF Settled
    <2>2. CASE t # s \/ j # k
      <3>1. Settled(t, j) /\ <<t, j>> # <<s, k>>
        BY <1>4, <2>2 DEF SetInv
      <3>2. CASE Pending(t, j)
        BY <1>1, <1>3, <2>2, <3>2 DEF Settled, Pending
      <3>3. CASE ~Pending(t, j)
        BY <1>2, <2>2, <3>1, <3>3 DEF Settled
      <3> QED
        BY <3>2, <3>3
    <2> QED
      BY <2>1, <2>2
  <1>5. /\ dispatcher'.at \in {"idle", "calling"}
        /\ dispatcher'.at = "calling" => dispatcher'.session = {s}
    BY DEF Calling, Idle
  <1>6. Considered' = Considered
    BY DEF Considered
  <1> QED
    BY <1>1, <1>4, <1>5, <1>6 DEF SetInv

LEMMA SetInvCalling ==
    ASSUME TypeInv, SetInv
    PROVE  /\ \A s \in Sessions, k \in Settings : ApplySetting(s, k) => SetInv'
           /\ CallFails => SetInv'
  <1>1. ASSUME NEW s \in Sessions, NEW k \in Settings, ApplySetting(s, k)
        PROVE  SetInv'
    BY <1>1, SetInvSetting DEF ApplySetting
  <1>2. CASE CallFails
    <2>1. /\ dispatcher.at = "calling"
          /\ UNCHANGED <<log, position, lost, bridge, fiber, registered>>
      BY <1>2 DEF CallFails
    <2>2. PICK s \in dispatcher.session :
             \/ \E k \in dispatcher.todo :
                   /\ k \in Settings
                   /\ agent' \in {agent, [agent EXCEPT ![s][k] = bridge.chosen[s][k]]}
                   /\ dispatcher' = Calling(s, dispatcher.key, dispatcher.todo \ {k})
                   /\ refused' = refused \cup {<<s, k>>}
             \/ dispatcher.todo = {} /\ dispatcher' = Idle /\ UNCHANGED <<agent, refused>>
      BY <1>2, CallFailsIs
    <2>3. CASE dispatcher.todo = {} /\ dispatcher' = Idle /\ UNCHANGED <<agent, refused>>
      BY <2>1, <2>3, SetInvFrame DEF Idle
    <2>4. CASE \E k \in dispatcher.todo :
                  /\ k \in Settings
                  /\ agent' \in {agent, [agent EXCEPT ![s][k] = bridge.chosen[s][k]]}
                  /\ dispatcher' = Calling(s, dispatcher.key, dispatcher.todo \ {k})
                  /\ refused' = refused \cup {<<s, k>>}
      BY <2>1, <2>4, SetInvSetting
    <2> QED
      BY <2>2, <2>3, <2>4
  <1> QED
    BY <1>1, <1>2

LEMMA SetInvStep == TypeInv /\ LifeInv /\ SetInv /\ [Next]_vars => SetInv'
  <1> SUFFICES ASSUME TypeInv, LifeInv, SetInv, [Next]_vars PROVE SetInv'
    OBVIOUS
  <1>1. CASE RootMissing
    <2>1. PICK s \in dispatcher.session : dispatcher' = Calling(s, dispatcher.key, {})
      BY <1>1 DEF RootMissing
    <2>2. dispatcher.session = {s} /\ dispatcher.at = "opening"
      BY <1>1, <2>1 DEF RootMissing, SetInv
    <2>3. /\ dispatcher'.at \in {"idle", "calling"}
          /\ dispatcher'.at = "calling" => dispatcher'.session = {s}
      BY <2>1 DEF Calling, Idle
    <2>4. UNCHANGED <<log, position, lost, bridge, fiber, registered, agent, refused>>
      BY <1>1 DEF RootMissing, adapterState
    <2> QED
      BY <2>2, <2>3, <2>4, SetInvFrame
  <1>2. CASE RetryCall \/ CallHangs \/ CallResumes
    <2>1. /\ dispatcher.at \in {"calling", "hung"} /\ dispatcher'.at \in {"calling", "hung"}
          /\ dispatcher'.session = dispatcher.session /\ dispatcher'.todo = dispatcher.todo
      BY <1>2, AttemptIs DEF RetryCall, CallHangs, CallResumes, TypeInv, DispatcherType
    <2>2. UNCHANGED <<log, position, lost, bridge, fiber, registered, agent, refused>>
      BY <1>2 DEF RetryCall, CallHangs, CallResumes, adapterState, history
    <2> QED
      BY <2>1, <2>2, SetInvFrame
  <1>3. ASSUME NEW s \in Sessions, NEW m \in Keys, DispatchCommand(s, m)
        PROVE  SetInv'
    <2>1. dispatcher' = Idle /\ dispatcher.at = "calling" /\ dispatcher.todo = {}
      BY <1>3 DEF DispatchCommand
    <2> QED
      BY <1>3, <2>1, SetInvFrame DEF DispatchCommand, adapterState, Idle
  <1>4. CASE ReplayEnds
    BY <1>4, SetInvFrame DEF ReplayEnds, adapterState, history, Idle
  <1>5. CASE UNCHANGED vars
    BY <1>5, SetInvFrame DEF vars, adapterState, history, SetInv
  <1>6. ASSUME NEW s \in Sessions, Register(s)
        PROVE  SetInv'
    <2>1. /\ UNCHANGED <<log, position, lost, bridge, fiber, dispatcher, refused>>
          /\ fiber[s] = "running" /\ s \notin registered
          /\ registered' = registered \cup {s}
          /\ agent' = [agent EXCEPT ![s] = Nothing]
      BY <1>6 DEF Register, history
    <2>2. \A t \in Sessions, k \in Settings :
             agent'[t][k] = IF t = s THEN Default ELSE agent[t][k]
      BY <2>1 DEF TypeInv, Chosen, Nothing
    <2>3. Considered' = Considered
      BY <2>1 DEF Considered
    <2>4. \A t \in Sessions, k \in Settings : Settled(t, k) => Settled(t, k)'
      BY <2>1, <2>2 DEF Settled, Pending
    <2> QED
      BY <2>1, <2>3, <2>4 DEF SetInv
  <1>7. ASSUME NEW s \in Sessions, StreamEnds(s) \/ StreamFails(s)
        PROVE  SetInv'
    <2>1. /\ UNCHANGED <<log, position, lost, bridge, dispatcher, agent, refused>>
          /\ fiber' = [fiber EXCEPT ![s] = "done"] /\ registered' = registered \ {s}
      BY <1>7 DEF StreamEnds, StreamFails, history
    <2>2. \A t \in Sessions : fiber'[t] = IF t = s THEN "done" ELSE fiber[t]
      BY <2>1 DEF TypeInv
    <2>3. \A t \in registered' : t \in Sessions /\ t # s
      BY <2>1 DEF TypeInv
    <2>4. Considered' = Considered
      BY <2>1 DEF Considered
    <2>5. \A t \in Sessions, k \in Settings : t # s /\ Settled(t, k) => Settled(t, k)'
      BY <2>1 DEF Settled, Pending
    <2> QED
      BY <2>1, <2>2, <2>3, <2>4, <2>5 DEF SetInv
  <1>8. CASE Restart
    <2>1. /\ position' = 0 /\ lost' = {} /\ bridge' = EmptyBridge /\ registered' = {}
          /\ dispatcher'.at = "replaying" /\ \A s \in Sessions : fiber'[s] = "none"
      BY <1>8 DEF Restart, Idle
    <2>2. \A s \in Sessions, k \in Settings : bridge'.chosen[s][k] = Default
      BY <2>1 DEF EmptyBridge, Nothing
    <2> QED
      BY <2>1, <2>2 DEF SetInv, LastIn, Considered
  <1>9. CASE PassOver
    <2>1. /\ UNCHANGED <<log, bridge, fiber, dispatcher, registered, agent, refused>>
          /\ position' = position + 1 /\ lost' = lost \cup {position + 1}
      BY <1>9 DEF PassOver, adapterState
    <2>2. Considered' = Considered
      BY <2>1, ConsideredGrows
    <2>3. \A s, k : Settled(s, k) => Settled(s, k)'
      BY <2>1 DEF Settled, Pending
    <2> QED
      BY <2>1, <2>2, <2>3 DEF SetInv
  <1> QED
    BY <1>1, <1>2, <1>3, <1>4, <1>5, <1>6, <1>7, <1>8, <1>9, SetInvCommit, SetInvConsider,
       SetInvOpenSession, SetInvCalling
    DEF Next, DispatcherStep

\* Whenever the dispatcher rests, a running agent works with the settings the log last
\* chose for it, as far as its adapter takes any and the choice was announced, or the
\* refusal was reported (applySettings, supportsSetMode, supportsSetModel).
THEOREM AgentsRunWithChosenSettings == Spec => []AgentRunsWithChosenSettings
  <1>1. Init => TypeInv /\ LifeInv /\ SetInv
    BY TypeInvInit, LifeInvInit, SetInvInit
  <1>2. TypeInv /\ LifeInv /\ SetInv /\ [Next]_vars => TypeInv' /\ LifeInv' /\ SetInv'
    BY TypeInvStep, LifeInvStep, SetInvStep
  <1>3. TypeInv /\ SetInv => AgentRunsWithChosenSettings
    <2> SUFFICES ASSUME TypeInv, SetInv, dispatcher.at = "idle",
                        NEW s \in registered, NEW k \in Settings, <<s, k>> \in Settable,
                        <<s, k>> \notin refused
                 PROVE  LastSet(s, k, agent[s][k])
      BY DEF AgentRunsWithChosenSettings
    <2>1. s \in Sessions /\ fiber[s] = "running"
      BY DEF TypeInv, SetInv
    <2>2. agent[s][k] = bridge.chosen[s][k] /\ LastIn(Considered, log, s, k, bridge.chosen[s][k])
      BY <2>1 DEF SetInv, Settled, Pending
    <2> QED
      BY <2>2, LastSetMeans
  <1> QED
    BY <1>1, <1>2, <1>3, PTL DEF Spec


-----------------------------------------------------------------------------
(* The dispatcher gets on: what EveryEventConsidered rests on *)

\* One call of an adapter: the tries that are left, and the call itself.
CallWork == Retries + 2

\* What opening a session may come to: every setting, and the command.
OpenWork == (Cardinality(Settings) + 2) * CallWork

\* What considering one event may come to.
EventWork == OpenWork + 1

Calls(key, todo) == Cardinality(todo) + (IF key = {} THEN 0 ELSE 1)

\* The steps the dispatcher has left before it can rest or consider an event.
StageOf(d) ==
    CASE d.at = "replaying" -> 1
      [] d.at = "opening"   -> OpenWork
      [] d.at \in {"calling", "hung"} -> Calls(d.key, d.todo) * CallWork + d.tries
      [] OTHER -> 0

WorkLeft == (Len(log) - position) * EventWork + StageOf(dispatcher)

\* Every step of the dispatcher leaves it less to do, past sessions that never
\* register, roots that are missing, calls that fail and events that are never
\* announced; no fiber adds to it, nor does a call that is waited for; and an event
\* committed adds what one event may come to.
DispatcherGetsOn ==
    /\ WorkLeft \in Nat
    /\ DispatcherStep \/ RootMissing \/ PassOver => WorkLeft' < WorkLeft
    /\ CallHangs \/ CallResumes \/ (\E s \in Sessions : Register(s) \/ StreamEnds(s) \/ StreamFails(s)) =>
          WorkLeft' = WorkLeft
    /\ (\E e \in Events : Commit(e)) => WorkLeft' = WorkLeft + EventWork

\* A guard of DispatcherStep is true, no adapter refusing or keeping silent.
CanDispatch ==
    \/ dispatcher.at = "replaying"
    \/ dispatcher.at = "idle" /\ position < Len(log)
    \/ dispatcher.at = "opening" /\ dispatcher.session # {}
    \/ /\ dispatcher.at = "calling" /\ dispatcher.session # {}
       /\ \/ dispatcher.session \cap registered = {}
          \/ dispatcher.session \cap registered # {} /\ dispatcher.key \cup dispatcher.todo # {}

\* When the dispatcher cannot step it is past every event committed and waits for
\* no session, or it waits for the answer to a call that it makes to a session.
DispatcherRestsDone ==
    \/ CanDispatch
    \/ dispatcher.at = "idle" /\ position = Len(log)
    \/ dispatcher.at = "hung" /\ dispatcher.session # {} /\ dispatcher.key \cup dispatcher.todo # {}

\* The dispatcher calls an adapter only when there is something to call it for.
CallInv == dispatcher.at \in {"calling", "hung"} => dispatcher.key # {} \/ dispatcher.todo # {}

LEMMA WorkBounds ==
    /\ Cardinality(Settings) \in Nat /\ CallWork \in Nat /\ CallWork >= 2
    /\ OpenWork \in Nat /\ EventWork \in Nat
  <1>1. Cardinality(Settings) \in Nat /\ Retries \in Nat
    BY BridgeAssumption, FS_CardinalityType
  <1> QED
    BY <1>1 DEF CallWork, OpenWork, EventWork

\* The calls that are left, and what one call less makes of them.
LEMMA CallsLeft ==
    ASSUME NEW key, NEW todo \in SUBSET Settings
    PROVE  /\ Calls(key, todo) \in 0..(Cardinality(Settings) + 1)
           /\ key # {} \/ todo # {} => Calls(key, todo) >= 1
           /\ \A k \in todo : Calls(key, todo \ {k}) = Calls(key, todo) - 1
  <1>1. IsFiniteSet(todo) /\ Cardinality(todo) \in Nat
        /\ Cardinality(todo) <= Cardinality(Settings)
    BY BridgeAssumption, FS_Subset, FS_CardinalityType
  <1>2. todo # {} => Cardinality(todo) # 0
    BY <1>1, FS_EmptySet
  <1>3. \A k \in todo : Cardinality(todo \ {k}) = Cardinality(todo) - 1
    BY <1>1, FS_RemoveElement
  <1> QED
    BY <1>1, <1>2, <1>3, WorkBounds DEF Calls

\* The work of calls is less than that of opening a session, and grows with them.
LEMMA CallsInOpenWork ==
    ASSUME NEW n \in 0..(Cardinality(Settings) + 1), NEW tries \in 0..Retries
    PROVE  /\ n * CallWork + tries \in Nat
           /\ n * CallWork + tries < OpenWork
           /\ n >= 1 => (n - 1) * CallWork + Retries < n * CallWork + tries
           /\ n >= 1 => n * CallWork + tries > 0
  <1> DEFINE c == Cardinality(Settings)
             w == CallWork
  <1>1. c \in Nat /\ w \in Nat /\ Retries \in Nat /\ w = Retries + 2
    BY WorkBounds, BridgeAssumption DEF CallWork
  <1>2. OpenWork = (c + 2) * w
    BY DEF OpenWork
  <1>3. n \in Nat /\ n <= c + 1 /\ tries \in Nat /\ tries <= Retries
    BY <1>1
  <1> HIDE DEF c, w
  <1>4. (c + 2) * w = (c + 1 - n) * w + n * w + w
    BY <1>1, <1>3
  <1>5. n * w \in Nat /\ (c + 1 - n) * w \in Nat
    BY <1>1, <1>3
  <1>6. (n - 1) * w = n * w - w
    BY <1>1, <1>3
  <1>7. n >= 1 => n * w >= w
    <2>1. n >= 1 => (n - 1) * w \in Nat
      BY <1>1, <1>3
    <2> QED
      BY <1>1, <1>5, <1>6, <2>1
  <1> QED
    BY <1>1, <1>2, <1>3, <1>4, <1>5, <1>6, <1>7 DEF w

\* The work of the states the dispatcher goes to.
LEMMA StageIs ==
    /\ StageOf(Idle) = 0
    /\ \A s, key : StageOf(Opening(s, key)) = OpenWork
    /\ \A d : /\ d.at = "replaying" => StageOf(d) = 1
              /\ d.at = "idle" => StageOf(d) = 0
              /\ d.at = "opening" => StageOf(d) = OpenWork
              /\ d.at \in {"calling", "hung"} =>
                    StageOf(d) = Calls(d.key, d.todo) * CallWork + d.tries
  BY DEF StageOf, Idle, Opening

LEMMA StageOfCalling ==
    ASSUME NEW s, NEW key, NEW todo \in SUBSET Settings
    PROVE  /\ StageOf(Calling(s, key, todo)) \in Nat
           /\ StageOf(Calling(s, key, todo)) <= Calls(key, todo) * CallWork + Retries
           /\ StageOf(Calling(s, key, todo)) < OpenWork
  <1>1. Retries \in 0..Retries
    BY BridgeAssumption
  <1>2. /\ Calls(key, todo) * CallWork + Retries \in Nat
        /\ Calls(key, todo) * CallWork + Retries < OpenWork
    BY <1>1, CallsLeft, CallsInOpenWork
  <1>3. \/ StageOf(Calling(s, key, todo)) = 0
        \/ StageOf(Calling(s, key, todo)) = Calls(key, todo) * CallWork + Retries
    BY DEF Calling, StageOf, Idle
  <1> QED
    BY <1>2, <1>3, WorkBounds

LEMMA StageBound ==
    ASSUME TypeInv
    PROVE  StageOf(dispatcher) \in Nat /\ WorkLeft \in Nat
  <1>1. dispatcher.todo \in SUBSET Settings /\ dispatcher.tries \in 0..Retries
    BY DEF TypeInv, DispatcherType
  <1>2. Calls(dispatcher.key, dispatcher.todo) * CallWork + dispatcher.tries \in Nat
    BY <1>1, CallsLeft, CallsInOpenWork
  <1>3. StageOf(dispatcher) \in Nat
    BY <1>2, WorkBounds DEF StageOf
  <1>4. Len(log) - position \in Nat
    BY DEF TypeInv
  <1>5. (Len(log) - position) * EventWork \in Nat
    BY <1>4, WorkBounds
  <1> QED
    BY <1>3, <1>5 DEF WorkLeft

\* A step that leaves the log and the position alone and lowers the stage gets on.
LEMMA StageGoesDown ==
    ASSUME TypeInv, UNCHANGED <<log, position>>,
           StageOf(dispatcher') \in Nat, StageOf(dispatcher') < StageOf(dispatcher)
    PROVE  WorkLeft' < WorkLeft
  <1>1. WorkLeft' = (Len(log) - position) * EventWork + StageOf(dispatcher')
    BY DEF WorkLeft
  <1>2. Len(log) - position \in Nat
    BY DEF TypeInv
  <1>3. (Len(log) - position) * EventWork \in Nat
    BY <1>2, WorkBounds
  <1> QED
    BY <1>1, <1>3, StageBound DEF WorkLeft

\* So does one that considers an event.
LEMMA EventConsidered ==
    ASSUME TypeInv, position < Len(log), position' = position + 1, log' = log,
           StageOf(dispatcher') \in Nat,
           StageOf(dispatcher') < EventWork + StageOf(dispatcher)
    PROVE  WorkLeft' < WorkLeft
  <1> DEFINE left == Len(log) - position
  <1>1. left \in Nat /\ left >= 1 /\ Len(log) - (position + 1) = left - 1
    BY DEF TypeInv
  <1>2. WorkLeft' = (left - 1) * EventWork + StageOf(dispatcher')
    <2>1. Len(log') - position' = left - 1
      BY <1>1
    <2> QED
      BY <2>1 DEF WorkLeft
  <1>3. WorkLeft = left * EventWork + StageOf(dispatcher)
    BY DEF WorkLeft
  <1> HIDE DEF left
  <1>4. (left - 1) * EventWork = left * EventWork - EventWork /\ left * EventWork \in Nat
    BY <1>1, WorkBounds
  <1> QED
    BY <1>2, <1>3, <1>4, StageBound, WorkBounds

LEMMA ConsiderGetsOn ==
    ASSUME TypeInv,
           \/ ReplayEvent \/ PassOver
           \/ ConsiderSessionCreated \/ ConsiderCommand \/ ConsiderSetting \/ ConsiderSessionRemoved
    PROVE  WorkLeft' < WorkLeft
  <1>1. OpenWork \in Nat /\ EventWork = OpenWork + 1
    BY WorkBounds DEF EventWork
  <1>2. ASSUME NEW type, Considers(type)
        PROVE  /\ position < Len(log) /\ position' = position + 1
               /\ StageOf(dispatcher) = 0 /\ Event.type = type
    BY <1>2, StageIs DEF Considers, Event
  <1>3. ASSUME NEW s, NEW key, NEW todo \in SUBSET Settings,
               \/ UNCHANGED dispatcher
               \/ dispatcher' = Opening(s, key)
               \/ dispatcher' = Calling(s, key, todo),
               StageOf(dispatcher) = 0
        PROVE  StageOf(dispatcher') \in Nat /\ StageOf(dispatcher') < EventWork
    BY <1>1, <1>3, StageIs, StageOfCalling
  <1>4. CASE ReplayEvent
    <2>1. /\ position < Len(log) /\ position' = position + 1 /\ log' = log
          /\ UNCHANGED dispatcher
      BY <1>4 DEF ReplayEvent
    <2>2. StageOf(dispatcher') = StageOf(dispatcher)
      BY <2>1
    <2> QED
      BY <1>1, <2>1, <2>2, StageBound, EventConsidered
  <1>5. CASE ConsiderSessionCreated
    <2>1. Considers("created") /\ log' = log
      BY <1>5 DEF ConsiderSessionCreated
    <2>2. UNCHANGED dispatcher \/ dispatcher' = Opening(Event.session, {})
      BY <1>5 DEF ConsiderSessionCreated
    <2>3. StageOf(dispatcher') \in Nat /\ StageOf(dispatcher') < EventWork
      BY <1>2, <1>3, <2>1, <2>2
    <2> QED
      BY <1>1, <1>2, <2>1, <2>3, EventConsidered
  <1>6. CASE ConsiderCommand
    <2>1. Considers("command") /\ log' = log
      BY <1>6 DEF ConsiderCommand
    <2>2. \/ UNCHANGED dispatcher
          \/ \E key : dispatcher' = Opening(Event.session, key)
          \/ \E key : dispatcher' = Calling(Event.session, key, {})
      BY <1>6 DEF ConsiderCommand
    <2>3. StageOf(dispatcher') \in Nat /\ StageOf(dispatcher') < EventWork
      <3>1. StageOf(dispatcher) = 0
        BY <1>2, <2>1
      <3>2. \A s, key : /\ StageOf(Calling(s, key, {})) \in Nat
                        /\ StageOf(Calling(s, key, {})) < EventWork
        BY <1>1, StageOfCalling
      <3> QED
        BY <1>1, <2>2, <3>1, <3>2, StageIs
    <2> QED
      BY <1>1, <1>2, <2>1, <2>3, EventConsidered
  <1>7. CASE ConsiderSetting
    <2>1. Considers("set") /\ log' = log
      BY <1>7 DEF ConsiderSetting
    <2>2. {Event.setting} \in SUBSET Settings /\ {} \in SUBSET Settings
      BY <1>2, <2>1, NextEvent, EventShape
    <2>3. PICK todo \in SUBSET Settings :
             \/ UNCHANGED dispatcher
             \/ dispatcher' = Opening(Event.session, {})
             \/ dispatcher' = Calling(Event.session, {}, todo)
      BY <1>7, <2>2 DEF ConsiderSetting
    <2>4. StageOf(dispatcher') \in Nat /\ StageOf(dispatcher') < EventWork
      <3>1. StageOf(dispatcher) = 0
        BY <1>2, <2>1
      <3> QED
        BY <1>3, <2>3, <3>1
    <2> QED
      BY <1>1, <1>2, <2>1, <2>4, EventConsidered
  <1>8. CASE ConsiderSessionRemoved
    <2>1. Considers("removed") /\ UNCHANGED <<log, dispatcher>>
      BY <1>8 DEF ConsiderSessionRemoved
    <2>2. StageOf(dispatcher') = 0
      BY <1>2, <2>1
    <2> QED
      BY <1>1, <1>2, <2>1, <2>2, EventConsidered
  <1>9. CASE PassOver
    <2>1. /\ position < Len(log) /\ position' = position + 1 /\ log' = log
          /\ UNCHANGED dispatcher
      BY <1>9 DEF PassOver
    <2>2. StageOf(dispatcher') = StageOf(dispatcher)
      BY <2>1
    <2> QED
      BY <1>1, <2>1, <2>2, StageBound, EventConsidered
  <1> QED
    BY <1>4, <1>5, <1>6, <1>7, <1>8, <1>9

LEMMA CallsGetOn ==
    ASSUME TypeInv, CallInv,
           \/ ReplayEnds \/ OpenSession \/ RootMissing \/ RetryCall \/ CallFails
           \/ \E s \in Sessions : \/ \E k \in Settings : ApplySetting(s, k)
                                  \/ \E m \in Keys : DispatchCommand(s, m)
    PROVE  WorkLeft' < WorkLeft
  <1> DEFINE key == dispatcher.key
             todo == dispatcher.todo
             tries == dispatcher.tries
  <1>1. /\ todo \in SUBSET Settings /\ tries \in 0..Retries /\ Retries \in Nat
        /\ StageOf(dispatcher) \in Nat
    BY StageBound, BridgeAssumption DEF TypeInv, DispatcherType
  <1>2. ASSUME dispatcher.at = "calling"
        PROVE  /\ StageOf(dispatcher) = Calls(key, todo) * CallWork + tries
               /\ StageOf(dispatcher) > 0
               /\ \A s : \A k \in todo : StageOf(Calling(s, key, todo \ {k})) < StageOf(dispatcher)
               /\ \A s : \A k \in todo : StageOf(Calling(s, key, todo \ {k})) \in Nat
    <2>1. StageOf(dispatcher) = Calls(key, todo) * CallWork + tries
      BY <1>2, StageIs
    <2>2. Calls(key, todo) \in 0..(Cardinality(Settings) + 1) /\ Calls(key, todo) >= 1
      BY <1>1, <1>2, CallsLeft DEF CallInv
    <2>3. /\ (Calls(key, todo) - 1) * CallWork + Retries < Calls(key, todo) * CallWork + tries
          /\ Calls(key, todo) * CallWork + tries > 0
      BY <1>1, <2>2, CallsInOpenWork
    <2>4. ASSUME NEW s, NEW k \in todo
          PROVE  /\ StageOf(Calling(s, key, todo \ {k})) \in Nat
                 /\ StageOf(Calling(s, key, todo \ {k})) <= (Calls(key, todo) - 1) * CallWork + Retries
      <3>1. Calls(key, todo \ {k}) = Calls(key, todo) - 1
        BY <1>1, CallsLeft
      <3>2. todo \ {k} \in SUBSET Settings
        BY <1>1
      <3> QED
        BY <3>1, <3>2, StageOfCalling
    <2>5. ASSUME NEW s, NEW k \in todo
          PROVE  StageOf(Calling(s, key, todo \ {k})) < StageOf(dispatcher)
      <3>1. (Calls(key, todo) - 1) * CallWork + Retries \in Int
        BY <1>1, <2>2, WorkBounds
      <3> QED
        BY <1>1, <2>1, <2>3, <2>4, <3>1
    <2> QED
      BY <2>1, <2>3, <2>4, <2>5
  <1> HIDE DEF key, todo, tries
  <1>3. CASE ReplayEnds
    <2>1. /\ dispatcher.at = "replaying" /\ dispatcher' = Idle /\ UNCHANGED <<log, position>>
      BY <1>3 DEF ReplayEnds
    <2>2. StageOf(dispatcher) = 1 /\ StageOf(dispatcher') = 0
      BY <2>1, StageIs
    <2> QED
      BY <2>1, <2>2, StageGoesDown
  <1>4. CASE OpenSession \/ RootMissing
    <2>1. dispatcher.at = "opening" /\ UNCHANGED <<log, position>>
      BY <1>4 DEF OpenSession, RootMissing
    <2>2. \E s : \E set \in SUBSET Settings : dispatcher' = Calling(s, key, set)
      <3>1. CASE OpenSession
        <4>1. PICK s \in dispatcher.session : dispatcher' = Calling(s, key, ToApply(s))
          BY <3>1 DEF OpenSession, key
        <4>2. ToApply(s) \in SUBSET Settings
          BY DEF ToApply
        <4> QED
          BY <4>1, <4>2
      <3>2. CASE RootMissing
        <4>1. PICK s \in dispatcher.session : dispatcher' = Calling(s, key, {})
          BY <3>2 DEF RootMissing, key
        <4> QED
          BY <4>1
      <3> QED
        BY <1>4, <3>1, <3>2
    <2>3. StageOf(dispatcher) = OpenWork
      BY <2>1, StageIs
    <2>4. StageOf(dispatcher') \in Nat /\ StageOf(dispatcher') < OpenWork
      BY <2>2, StageOfCalling
    <2> QED
      BY <2>1, <2>3, <2>4, StageGoesDown
  <1>5. CASE RetryCall
    <2>1. /\ dispatcher.at = "calling" /\ UNCHANGED <<log, position>>
          /\ dispatcher' = [dispatcher EXCEPT !.tries = tries - 1] /\ tries > 0
      BY <1>5, AttemptIs DEF RetryCall, tries
    <2>2. /\ dispatcher'.at \in {"calling", "hung"} /\ dispatcher'.key = key
          /\ dispatcher'.todo = todo /\ dispatcher'.tries = tries - 1
      BY <2>1 DEF TypeInv, DispatcherType, key, todo
    <2>3. StageOf(dispatcher') = Calls(key, todo) * CallWork + (tries - 1)
      BY <2>2, StageIs
    <2>4. tries - 1 \in 0..Retries /\ tries - 1 \in Nat
      BY <1>1, <2>1
    <2>5. StageOf(dispatcher') \in Nat
      BY <1>1, <2>3, <2>4, CallsLeft, CallsInOpenWork
    <2>6. Calls(key, todo) * CallWork \in Nat
      BY <1>1, CallsLeft, WorkBounds
    <2>7. StageOf(dispatcher') < StageOf(dispatcher)
      BY <1>1, <1>2, <2>1, <2>3, <2>4, <2>6
    <2> QED
      BY <2>1, <2>5, <2>7, StageGoesDown
  <1>6. CASE CallFails
    <2>1. dispatcher.at = "calling" /\ UNCHANGED <<log, position>>
      BY <1>6 DEF CallFails
    <2>2. \/ dispatcher' = Idle
          \/ \E s : \E k \in todo : dispatcher' = Calling(s, key, todo \ {k})
      BY <1>6 DEF CallFails, key, todo
    <2>3. StageOf(dispatcher') \in Nat /\ StageOf(dispatcher') < StageOf(dispatcher)
      <3>1. CASE dispatcher' = Idle
        BY <1>2, <2>1, <3>1, StageIs
      <3>2. CASE \E s : \E k \in todo : dispatcher' = Calling(s, key, todo \ {k})
        BY <1>2, <2>1, <3>2
      <3> QED
        BY <2>2, <3>1, <3>2
    <2> QED
      BY <2>1, <2>3, StageGoesDown
  <1>7. ASSUME NEW s \in Sessions, NEW k \in Settings, ApplySetting(s, k)
        PROVE  WorkLeft' < WorkLeft
    <2>1. /\ dispatcher.at = "calling" /\ UNCHANGED <<log, position>>
          /\ k \in todo /\ dispatcher' = Calling(s, key, todo \ {k})
      BY <1>7 DEF ApplySetting, key, todo
    <2>2. StageOf(dispatcher') \in Nat /\ StageOf(dispatcher') < StageOf(dispatcher)
      BY <1>2, <2>1
    <2> QED
      BY <2>1, <2>2, StageGoesDown
  <1>8. ASSUME NEW s \in Sessions, NEW m \in Keys, DispatchCommand(s, m)
        PROVE  WorkLeft' < WorkLeft
    <2>1. dispatcher.at = "calling" /\ UNCHANGED <<log, position>> /\ dispatcher' = Idle
      BY <1>8 DEF DispatchCommand
    <2>2. StageOf(dispatcher') \in Nat /\ StageOf(dispatcher') < StageOf(dispatcher)
      BY <1>2, <2>1, StageIs
    <2> QED
      BY <2>1, <2>2, StageGoesDown
  <1> QED
    BY <1>3, <1>4, <1>5, <1>6, <1>7, <1>8

\* The other steps leave the dispatcher's work, or add an event to it.
LEMMA OthersAddOnlyEvents ==
    ASSUME TypeInv
    PROVE  /\ \A s \in Sessions :
                 Register(s) \/ StreamEnds(s) \/ StreamFails(s) => WorkLeft' = WorkLeft
           /\ CallHangs \/ CallResumes => WorkLeft' = WorkLeft
           /\ \A e \in Events : Commit(e) => WorkLeft' = WorkLeft + EventWork
  <1>1. ASSUME NEW s \in Sessions, Register(s) \/ StreamEnds(s) \/ StreamFails(s)
        PROVE  WorkLeft' = WorkLeft
    <2>1. UNCHANGED <<log, position, dispatcher>>
      BY <1>1 DEF Register, StreamEnds, StreamFails
    <2> QED
      BY <2>1 DEF WorkLeft
  <1>2. ASSUME NEW e \in Events, Commit(e)
        PROVE  WorkLeft' = WorkLeft + EventWork
    <2> DEFINE left == Len(log) - position
    <2>1. log' = Append(log, e) /\ UNCHANGED <<position, dispatcher>>
      BY <1>2 DEF Commit
    <2>2. left \in Nat /\ Len(log') - position = left + 1
      BY <2>1 DEF TypeInv
    <2>3. WorkLeft' = (left + 1) * EventWork + StageOf(dispatcher)
      BY <2>1, <2>2 DEF WorkLeft
    <2>4. WorkLeft = left * EventWork + StageOf(dispatcher)
      BY DEF WorkLeft
    <2> HIDE DEF left
    <2>5. (left + 1) * EventWork = left * EventWork + EventWork /\ left * EventWork \in Nat
      BY <2>2, WorkBounds
    <2> QED
      BY <2>3, <2>4, <2>5, StageBound, WorkBounds
  <1>3. ASSUME CallHangs \/ CallResumes PROVE WorkLeft' = WorkLeft
    <2>1. /\ UNCHANGED <<log, position>> /\ dispatcher.at \in {"calling", "hung"}
          /\ \E at \in {"calling", "hung"} : dispatcher' = [dispatcher EXCEPT !.at = at]
      BY <1>3 DEF CallHangs, CallResumes
    <2>2. /\ dispatcher'.at \in {"calling", "hung"} /\ dispatcher'.key = dispatcher.key
          /\ dispatcher'.todo = dispatcher.todo /\ dispatcher'.tries = dispatcher.tries
      BY <2>1 DEF TypeInv, DispatcherType
    <2>3. StageOf(dispatcher') = StageOf(dispatcher)
      BY <2>1, <2>2, StageIs
    <2> QED
      BY <2>1, <2>3 DEF WorkLeft
  <1> QED
    BY <1>1, <1>2, <1>3

LEMMA CallInvStep == TypeInv /\ CallInv /\ [Next]_vars => CallInv'
  <1> SUFFICES ASSUME TypeInv, CallInv, [Next]_vars PROVE CallInv'
    OBVIOUS
  <1>1. \A s, key, todo : Calling(s, key, todo).at \in {"calling", "hung"} =>
                                /\ key # {} \/ todo # {}
                                /\ Calling(s, key, todo).key = key
                                /\ Calling(s, key, todo).todo = todo
    BY DEF Calling, Idle
  <1>2. \A s, key : Opening(s, key).at = "opening"
    BY DEF Opening
  <1>3. Idle.at = "idle" /\ [Idle EXCEPT !.at = "replaying"].at = "replaying"
    BY DEF Idle
  <1>4. CASE \/ UNCHANGED dispatcher
             \/ dispatcher' = Idle \/ dispatcher' = [Idle EXCEPT !.at = "replaying"]
             \/ \E s, key : dispatcher' = Opening(s, key)
             \/ \E s, key, todo : dispatcher' = Calling(s, key, todo)
    <2>1. CASE UNCHANGED dispatcher
      BY <2>1 DEF CallInv
    <2>2. CASE dispatcher' = Idle \/ dispatcher' = [Idle EXCEPT !.at = "replaying"]
      BY <1>3, <2>2 DEF CallInv
    <2>3. CASE \E s, key : dispatcher' = Opening(s, key)
      BY <1>2, <2>3 DEF CallInv
    <2>4. CASE \E s, key, todo : dispatcher' = Calling(s, key, todo)
      <3>1. PICK s, key, todo : dispatcher' = Calling(s, key, todo)
        BY <2>4
      <3> DEFINE next == Calling(s, key, todo)
      <3>2. next.at \in {"calling", "hung"} => (key # {} \/ todo # {}) /\ next.key = key /\ next.todo = todo
        BY <1>1
      <3> HIDE DEF next
      <3>3. dispatcher' = next
        BY <3>1 DEF next
      <3> QED
        BY <3>2, <3>3 DEF CallInv
    <2> QED
      BY <1>4, <2>1, <2>2, <2>3, <2>4
  <1>5. CASE RetryCall \/ CallHangs \/ CallResumes
    <2>2. /\ dispatcher.at \in {"calling", "hung"} /\ dispatcher'.key = dispatcher.key
          /\ dispatcher'.todo = dispatcher.todo
      BY <1>5, AttemptIs DEF RetryCall, CallHangs, CallResumes, TypeInv, DispatcherType
    <2> QED
      BY <2>2 DEF CallInv
  <1>6. CASE UNCHANGED vars \/ (\E e \in Events : Commit(e)) \/ Restart \/ PassOver
             \/ \E s \in Sessions : Register(s) \/ StreamEnds(s) \/ StreamFails(s)
    BY <1>4, <1>6 DEF vars, Commit, Restart, PassOver, Register, StreamEnds, StreamFails
  <1>7. CASE ReplayEvent \/ ReplayEnds \/ ConsiderSessionCreated \/ ConsiderCommand
             \/ ConsiderSetting \/ ConsiderSessionRemoved
    BY <1>4, <1>7 DEF ReplayEvent, ReplayEnds, ConsiderSessionCreated, ConsiderCommand,
       ConsiderSetting, ConsiderSessionRemoved
  <1>8. CASE OpenSession \/ RootMissing \/ CallFails
             \/ \E s \in Sessions : \/ \E k \in Settings : ApplySetting(s, k)
                                    \/ \E m \in Keys : DispatchCommand(s, m)
    <2>1. OpenSession \/ RootMissing \/ CallFails => dispatcher' = Idle
                                \/ \E s, key, todo : dispatcher' = Calling(s, key, todo)
      BY DEF OpenSession, RootMissing, CallFails
    <2>2. \A s, k : ApplySetting(s, k) => \E t, key, todo : dispatcher' = Calling(t, key, todo)
      BY DEF ApplySetting
    <2>3. \A s, m : DispatchCommand(s, m) => dispatcher' = Idle
      BY DEF DispatchCommand
    <2> QED
      BY <1>4, <1>8, <2>1, <2>2, <2>3
  <1> QED
    BY <1>5, <1>6, <1>7, <1>8 DEF Next, DispatcherStep

\* A session that never registers, dies or refuses cannot hold up the dispatcher: in
\* every state it can step, or it is past every event committed and waits for nothing,
\* or it waits for an adapter call that is not answered, which has no timeout.
THEOREM DispatcherRests == Spec => []DispatcherRestsDone
  <1>1. Init => TypeInv /\ LifeInv /\ SetInv /\ CallInv
    BY TypeInvInit, LifeInvInit, SetInvInit DEF Init, CallInv, Idle
  <1>2. TypeInv /\ LifeInv /\ SetInv /\ CallInv /\ [Next]_vars
           => TypeInv' /\ LifeInv' /\ SetInv' /\ CallInv'
    BY TypeInvStep, LifeInvStep, SetInvStep, CallInvStep
  <1>3. TypeInv /\ SetInv /\ CallInv => DispatcherRestsDone
    <2> SUFFICES ASSUME TypeInv, SetInv, CallInv PROVE DispatcherRestsDone
      OBVIOUS
    <2>1. /\ dispatcher.at \in {"idle", "opening", "calling", "hung", "replaying"}
          /\ position < Len(log) \/ position = Len(log)
      BY DEF TypeInv, DispatcherType
    <2>2. dispatcher.at \in {"opening", "calling", "hung"} => dispatcher.session # {}
      BY DEF SetInv
    <2> QED
      BY <2>1, <2>2 DEF DispatcherRestsDone, CanDispatch, CallInv
  <1> QED
    BY <1>1, <1>2, <1>3, PTL DEF Spec

\* And every step it takes gets it on, whatever the fibers and adapters do: with
\* DispatcherRests this is EveryEventConsidered, but for the fairness.
THEOREM DispatcherAlwaysGetsOn == Spec => [][DispatcherGetsOn]_vars
  <1>1. Init => TypeInv /\ CallInv
    BY TypeInvInit DEF Init, CallInv, Idle
  <1>2. TypeInv /\ CallInv /\ [Next]_vars => TypeInv' /\ CallInv'
    BY TypeInvStep, CallInvStep
  <1>3. TypeInv /\ CallInv /\ [Next]_vars => [DispatcherGetsOn]_vars
    <2>1. ASSUME TypeInv, CallInv, DispatcherStep \/ RootMissing \/ PassOver
          PROVE  WorkLeft' < WorkLeft
      BY <2>1, ConsiderGetsOn, CallsGetOn DEF DispatcherStep
    <2> QED
      BY <2>1, StageBound, OthersAddOnlyEvents DEF DispatcherGetsOn
  <1> QED
    BY <1>1, <1>2, <1>3, PTL DEF Spec
=============================================================================

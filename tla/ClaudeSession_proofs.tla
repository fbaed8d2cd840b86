------------------------ MODULE ClaudeSession_proofs ------------------------
(***************************************************************************)
(* Proofs about one session of the Claude adapter: its types, and that     *)
(* what a cancel, a recovery or a mode switch leaves behind is what the    *)
(* code promises, for any number of requests, modes, prompts and faults.   *)
(***************************************************************************)
EXTENDS ClaudeSession, TLAPS

QueryType == [generation : Nat, open : BOOLEAN, died : BOOLEAN, listening : BOOLEAN,
              mode : Modes, inbox : Nat]
CallType(places) == [at : places, query : Nat, generation : Nat, mode : Modes]

TypeInv ==
    /\ scope \in {"open", "closed"} /\ shut \in {"no", "archived", "closing", "done"}
    /\ query \in Seq(QueryType) /\ current \in DOMAIN query
    /\ generation \in Nat
    /\ modeId \in Modes
    /\ silence \in 0..2
    /\ pending \subseteq Requests /\ shown \subseteq Requests /\ replies \subseteq Requests
    /\ decision \in [Requests -> {"unasked", "waiting", "allow", "deny"}]
    /\ asker \in [Requests -> Nat]
    /\ sent \in Nat
    /\ dispatcher \in CallType({"idle", "reattach", "cancel", "mode"})
    /\ watchdog \in CallType({"polling", "tearing", "attaching", "off"})
    /\ dispatcher.at \in {"cancel", "mode"} \/ shut = "closing" => dispatcher.query \in DOMAIN query
    /\ shut = "closing" => dispatcher.at = "idle"
    /\ watchdog.at = "tearing" => watchdog.query \in DOMAIN query

\* What each step makes of the queries.
LEMMA QueryIsTyped ==
    ASSUME TypeInv
    PROVE  /\ DOMAIN query = 1..Len(query) /\ Len(query) \in Nat
           /\ \A q \in DOMAIN query : query[q] \in QueryType
           /\ \A q \in DOMAIN query : q \in Nat
  BY DEF TypeInv

LEMMA QueryReplaced ==
    ASSUME TypeInv, NEW q \in DOMAIN query, NEW x \in QueryType, query' = [query EXCEPT ![q] = x]
    PROVE  /\ query' \in Seq(QueryType) /\ DOMAIN query' = DOMAIN query
           /\ \A p \in DOMAIN query : query'[p] = IF p = q THEN x ELSE query[p]
  BY DEF TypeInv

LEMMA QueryClosed ==
    ASSUME TypeInv, NEW q \in DOMAIN query, Close(q)
    PROVE  /\ query' \in Seq(QueryType) /\ DOMAIN query' = DOMAIN query
           /\ \A p \in DOMAIN query :
                 query'[p] = IF p = q THEN [query[p] EXCEPT !.open = FALSE, !.inbox = 0]
                             ELSE query[p]
  <1> DEFINE x == [query[q] EXCEPT !.open = FALSE, !.inbox = 0]
  <1>1. x \in QueryType
    BY QueryIsTyped DEF QueryType
  <1>2. query' = [query EXCEPT ![q] = x]
    BY QueryIsTyped DEF Close, QueryType
  <1> QED
    BY <1>1, <1>2, QueryReplaced

LEMMA QueryAttached ==
    ASSUME TypeInv, NEW g \in Nat, NEW m \in Modes, NEW i \in Nat, Attach(g, m, i)
    PROVE  /\ query' \in Seq(QueryType) /\ DOMAIN query' = 1..(Len(query) + 1)
           /\ current' = Len(query) + 1 /\ current' \in DOMAIN query'
           /\ \A p \in DOMAIN query : query'[p] = query[p] /\ p \in DOMAIN query'
           /\ query'[current'] = [NewQuery(g, m) EXCEPT !.inbox = i]
           /\ \A p \in DOMAIN query' : p \in DOMAIN query \/ p = current'
  <1>1. [NewQuery(g, m) EXCEPT !.inbox = i] \in QueryType
    BY DEF NewQuery, QueryType
  <1> QED
    BY <1>1, QueryIsTyped DEF Attach, TypeInv

\* A step that attaches no query changes none of this about those there are.
QueriesKept ==
    /\ query' \in Seq(QueryType) /\ DOMAIN query' = DOMAIN query
    /\ \A q \in DOMAIN query : /\ query'[q].generation = query[q].generation
                               /\ query[q].died => query'[q].died
                               /\ query'[q].open => query[q].open

LEMMA CloseKeepsQueries ==
    ASSUME TypeInv, NEW q \in DOMAIN query, Close(q)
    PROVE  /\ QueriesKept
           /\ ~query'[q].open
           /\ \A p \in DOMAIN query : p # q => query'[p] = query[p]
           /\ \A p \in DOMAIN query : query'[p].mode = query[p].mode
  BY QueryClosed, QueryIsTyped DEF QueriesKept, QueryType

LEMMA ResultKeepsQueries ==
    ASSUME TypeInv, NEW q \in DOMAIN query, Result(q)
    PROVE  /\ QueriesKept
           /\ \A p \in DOMAIN query : /\ query'[p].open = query[p].open
                                      /\ query'[p].mode = query[p].mode
  <1> DEFINE x == [query[q] EXCEPT !.inbox = @ - 1]
  <1>1. x \in QueryType
    BY QueryIsTyped DEF Result, Working, QueryType
  <1>2. query' = [query EXCEPT ![q] = x]
    BY DEF Result
  <1> QED
    BY <1>1, <1>2, QueryReplaced, QueryIsTyped DEF QueriesKept, QueryType

LEMMA PromptKeepsQueries ==
    ASSUME TypeInv, SendPrompt
    PROVE  /\ QueriesKept
           /\ \A p \in DOMAIN query : /\ query'[p].open = query[p].open
                                      /\ query'[p].mode = query[p].mode
  <1> DEFINE x == [query[current] EXCEPT !.inbox = IF query[current].open THEN @ + 1 ELSE @]
  <1>1. current \in DOMAIN query /\ query[current] \in QueryType
    BY QueryIsTyped DEF TypeInv
  <1>2. x \in QueryType
    BY <1>1 DEF QueryType
  <1>3. query' = [query EXCEPT ![current] = x]
    BY <1>1 DEF SendPrompt
  <1> QED
    BY <1>1, <1>2, <1>3, QueryReplaced, QueryIsTyped DEF QueriesKept, QueryType

LEMMA DeathKeepsQueries ==
    ASSUME TypeInv, NEW q \in DOMAIN query, Die(q)
    PROVE  /\ QueriesKept /\ ~query'[q].open /\ query'[q].died
           /\ \A p \in DOMAIN query : p # q => query'[p] = query[p]
  <1> DEFINE x == [query[q] EXCEPT !.open = FALSE, !.inbox = 0, !.died = TRUE]
  <1>1. x \in QueryType
    BY QueryIsTyped DEF QueryType
  <1>2. query' = [query EXCEPT ![q] = x]
    BY QueryIsTyped DEF Die, QueryType
  <1> QED
    BY <1>1, <1>2, QueryReplaced, QueryIsTyped DEF QueriesKept, QueryType

LEMMA ListenerKeepsQueries ==
    ASSUME TypeInv, NEW q \in DOMAIN query, ListenerEnds(q)
    PROVE  /\ QueriesKept /\ ~query'[q].open
           /\ \A p \in DOMAIN query : p # q => query'[p] = query[p]
  <1> DEFINE x == [query[q] EXCEPT !.listening = FALSE, !.open = FALSE, !.inbox = 0]
  <1>1. x \in QueryType
    BY QueryIsTyped DEF QueryType
  <1>2. query' = [query EXCEPT ![q] = x]
    BY QueryIsTyped DEF ListenerEnds, QueryType
  <1> QED
    BY <1>1, <1>2, QueryReplaced, QueryIsTyped DEF QueriesKept, QueryType

LEMMA ModeKeepsQueries ==
    ASSUME TypeInv, ModeSet
    PROVE  /\ QueriesKept /\ dispatcher.query \in DOMAIN query
           /\ \A p \in DOMAIN query :
                 /\ query'[p].open = query[p].open
                 /\ p # dispatcher.query => query'[p] = query[p]
                 /\ p = dispatcher.query /\ query[p].open => query'[p].mode = dispatcher.mode
  <1> DEFINE d == dispatcher.query
             x == [query[d] EXCEPT !.mode = IF query[d].open THEN dispatcher.mode ELSE @]
  <1>1. d \in DOMAIN query /\ dispatcher.mode \in Modes
    BY DEF ModeSet, TypeInv, CallType
  <1>2. query[d] \in QueryType
    BY <1>1, QueryIsTyped
  <1>3. x \in QueryType
    BY <1>1, <1>2 DEF QueryType
  <1>4. query' = [query EXCEPT ![d] = x]
    BY <1>1 DEF ModeSet
  <1>5. \A p \in DOMAIN query : query'[p] = IF p = d THEN x ELSE query[p]
    BY <1>1, <1>3, <1>4, QueryReplaced
  <1>6. query' \in Seq(QueryType) /\ DOMAIN query' = DOMAIN query
    BY <1>1, <1>3, <1>4, QueryReplaced
  <1>7. /\ x.generation = query[d].generation /\ x.died = query[d].died
        /\ x.open = query[d].open
        /\ query[d].open => x.mode = dispatcher.mode
    BY <1>2 DEF QueryType
  <1> HIDE DEF x
  <1>8. ASSUME NEW p \in DOMAIN query
        PROVE  /\ query'[p].generation = query[p].generation /\ query'[p].died = query[p].died
               /\ query'[p].open = query[p].open
               /\ p # d => query'[p] = query[p]
               /\ p = d /\ query[p].open => query'[p].mode = dispatcher.mode
    <2>1. CASE p = d
      BY <1>5, <1>7, <2>1, Zenon
    <2>2. CASE p # d
      BY <1>5, <2>2
    <2> QED
      BY <2>1, <2>2
  <1> QED
    BY <1>1, <1>6, <1>8, Zenon DEF QueriesKept

LEMMA DrainedTypes ==
    ASSUME TypeInv, DrainPendingPermissions
    PROVE  /\ pending' = {} /\ shown' \subseteq shown
           /\ decision' \in [Requests -> {"unasked", "waiting", "allow", "deny"}]
  BY DEF TypeInv, DrainPendingPermissions

LEMMA CallTypes ==
    /\ \A places : "idle" \in places => Idle \in CallType(places)
    /\ \A places : "polling" \in places => Polling \in CallType(places)
  BY SessionAssumption DEF Idle, Polling, CallType

LEMMA TypeInvInit == Init => TypeInv
  <1> SUFFICES ASSUME Init PROVE TypeInv
    OBVIOUS
  <1>1. query \in Seq(QueryType) /\ current \in DOMAIN query
    BY SessionAssumption DEF Init, NewQuery, QueryType
  <1> QED
    BY <1>1, CallTypes, SessionAssumption DEF Init, TypeInv, Idle, Polling

LEMMA TypeInvSdk ==
    ASSUME TypeInv, NEW q \in DOMAIN query
    PROVE  /\ Message(q) => TypeInv'
           /\ Result(q) => TypeInv'
           /\ AuthRequired(q) => TypeInv'
           /\ Die(q) => TypeInv'
           /\ \A r \in Requests : Ask(q, r) => TypeInv'
           /\ ListenerEnds(q) => TypeInv'
  <1> USE DEF session, settings, turn, permissions, asked
  <1>1. CASE Message(q)
    BY <1>1 DEF Message, Quiet, TypeInv
  <1>2. CASE Result(q)
    <2>1. query' \in Seq(QueryType) /\ DOMAIN query' = DOMAIN query
      BY <1>2, ResultKeepsQueries DEF QueriesKept
    <2>2. /\ UNCHANGED <<session, current, generation, settings, permissions, asked, sent,
                         dispatcher, watchdog, shut>>
          /\ silence' = 0
      BY <1>2 DEF Result, Quiet
    <2> QED
      BY <2>1, <2>2 DEF TypeInv
  <1>3. CASE AuthRequired(q)
    BY <1>3 DEF AuthRequired, Quiet, TypeInv
  <1>4. CASE Die(q)
    BY <1>4, DeathKeepsQueries DEF Die, QueriesKept, TypeInv
  <1>5. ASSUME NEW r \in Requests, Ask(q, r) PROVE TypeInv'
    BY <1>5, QueryIsTyped DEF Ask, TypeInv
  <1>7. CASE ListenerEnds(q)
    <2>1. /\ pending' \subseteq Requests /\ shown' \subseteq Requests
          /\ decision' \in [Requests -> {"unasked", "waiting", "allow", "deny"}]
      BY <1>7, DrainedTypes DEF ListenerEnds, TypeInv
    <2> QED
      BY <1>7, <2>1, ListenerKeepsQueries DEF ListenerEnds, QueriesKept, TypeInv
  <1> QED
    BY <1>1, <1>2, <1>3, <1>4, <1>5, <1>7

LEMMA TypeInvStream ==
    ASSUME TypeInv
    PROVE  /\ Tick => TypeInv'
           /\ StreamEnds => TypeInv'
           /\ ConsumerFails => TypeInv'
           /\ Archive => TypeInv'
           /\ Reopen => TypeInv'
  <1> USE DEF session, settings, turn, permissions, asked
  <1>1. CloseScope => /\ scope' \in {"open", "closed"} /\ watchdog'.at = "off"
                      /\ watchdog' \in CallType({"polling", "tearing", "attaching", "off"})
    BY SessionAssumption DEF CloseScope, Polling, CallType
  <1>2. CASE StreamEnds
    BY <1>1, <1>2 DEF StreamEnds, TypeInv
  <1>3. CASE ConsumerFails
    BY <1>1, <1>3 DEF ConsumerFails, TypeInv
  <1>4. CASE Archive
    <2>1. \/ CloseScope
          \/ UNCHANGED <<scope, watchdog>>
      BY <1>4 DEF Archive
    <2>2. /\ UNCHANGED <<query, current, generation, settings, turn, permissions, asked, sent,
                         dispatcher>>
          /\ shut' = "archived" /\ shut = "no"
      BY <1>4 DEF Archive, Free
    <2> QED
      BY <1>1, <2>1, <2>2 DEF TypeInv
  <1>5. CASE Reopen
    <2>1. query' \in Seq(QueryType) /\ current' \in DOMAIN query'
      BY <1>5, SessionAssumption DEF Reopen, NewQuery, QueryType
    <2>2. /\ UNCHANGED <<decision, shown, replies, sent, dispatcher, shut>>
          /\ dispatcher.at = "idle" /\ shut = "no" /\ scope' = "open" /\ generation' = 0
          /\ modeId' = DefaultMode /\ silence' = 0 /\ pending' = {} /\ watchdog' = Polling
          /\ asker' = [r \in Requests |-> 0]
      BY <1>5 DEF Reopen, Free, Quiet
    <2>3. asker' \in [Requests -> Nat] /\ watchdog'.at = "polling"
      BY <2>2 DEF Polling
    <2> QED
      BY <2>1, <2>2, <2>3, CallTypes, SessionAssumption DEF TypeInv
  <1>6. CASE Tick
    <2>1. silence' \in 0..2
      BY <1>6 DEF Tick, TypeInv
    <2>2. UNCHANGED <<session, query, current, generation, settings, needsReattach, turnOpen,
                      permissions, asked, sent, dispatcher, watchdog, shut>>
      BY <1>6 DEF Tick
    <2> QED
      BY <2>1, <2>2 DEF TypeInv
  <1> QED
    BY <1>2, <1>3, <1>4, <1>5, <1>6

LEMMA TypeInvDispatcher ==
    ASSUME TypeInv
    PROVE  /\ SendPrompt => TypeInv'
           /\ Reattach => TypeInv'
           /\ Reattached => TypeInv'
           /\ ReattachFails => TypeInv'
           /\ CancelTurn => TypeInv'
           /\ Cancelled => TypeInv'
           /\ \A m \in Modes : SetMode(m) => TypeInv'
           /\ ModeSet \/ ModeRefused => TypeInv'
           /\ \A r \in Requests : Reply(r) => TypeInv'
           /\ \A r \in Requests : RespondToPermission(r) => TypeInv'
  <1> USE DEF session, settings, turn, permissions, asked
  <1> DEFINE Calls == CallType({"idle", "reattach", "cancel", "mode"})
  <1>1. Idle \in Calls /\ Idle.at = "idle"
    BY CallTypes DEF Idle
  <1>2. \A at \in {"reattach", "cancel", "mode"}, q \in Nat, g \in Nat, m \in Modes :
           /\ [Idle EXCEPT !.at = at, !.query = q] \in Calls
           /\ [Idle EXCEPT !.at = at, !.generation = g, !.mode = m] \in Calls
           /\ [Idle EXCEPT !.at = at, !.query = q, !.mode = m] \in Calls
    BY SessionAssumption DEF Idle, CallType
  <1>3. current \in DOMAIN query /\ current \in Nat
    BY QueryIsTyped DEF TypeInv
  <1>4. CASE SendPrompt
    <2>1. query' \in Seq(QueryType) /\ DOMAIN query' = DOMAIN query
      BY <1>4, PromptKeepsQueries DEF QueriesKept
    <2>2. /\ UNCHANGED <<session, current, generation, settings, permissions, asked,
                         dispatcher, watchdog, shut>>
          /\ silence' = 0 /\ sent' = sent + 1
      BY <1>4 DEF SendPrompt, Offered, Quiet
    <2> QED
      BY <2>1, <2>2 DEF TypeInv
  <1>5. CASE Reattach
    <2>1. /\ UNCHANGED <<session, query, current, settings, turn, permissions, asked, sent,
                         watchdog, shut>>
          /\ generation' = generation + 1 /\ shut = "no"
          /\ dispatcher' = [Idle EXCEPT !.at = "reattach", !.generation = generation + 1,
                                        !.mode = modeId]
      BY <1>5 DEF Reattach, Free
    <2>2. dispatcher' \in Calls /\ dispatcher'.at = "reattach"
      <3>1. generation + 1 \in Nat /\ modeId \in Modes
        BY DEF TypeInv
      <3>2. dispatcher'.at = "reattach"
        BY <2>1 DEF Idle
      <3> QED
        BY <1>2, <2>1, <3>1, <3>2
    <2> QED
      BY <2>1, <2>2 DEF TypeInv
  <1>6. CASE Reattached
    <2>1. dispatcher.generation \in Nat /\ dispatcher.mode \in Modes
      BY DEF TypeInv, CallType
    <2>2. /\ query' \in Seq(QueryType) /\ current' \in DOMAIN query'
          /\ \A p \in DOMAIN query : p \in DOMAIN query'
      BY <1>6, <2>1, QueryAttached DEF Reattached
    <2>3. /\ UNCHANGED <<session, generation, settings, permissions, asked, watchdog, shut>>
          /\ silence' = 0 /\ sent' = sent + 1 /\ dispatcher' = Idle
          /\ dispatcher.at = "reattach"
      BY <1>6 DEF Reattached, Offered, Quiet
    <2> QED
      BY <1>1, <2>2, <2>3 DEF TypeInv
  <1>7. CASE ReattachFails
    BY <1>1, <1>7 DEF ReattachFails, TypeInv
  <1>8. CASE CancelTurn
    <2>1. /\ UNCHANGED <<session, query, current, settings, asked, sent, watchdog, shut>>
          /\ generation' = generation + 1 /\ silence' = 0 /\ DrainPendingPermissions
          /\ dispatcher' = [Idle EXCEPT !.at = "cancel", !.query = current] /\ shut = "no"
      BY <1>8 DEF CancelTurn, Free, Quiet
    <2>2. dispatcher' \in Calls /\ dispatcher'.query = current
      BY <1>3, <2>1, SessionAssumption DEF Idle, CallType
    <2>3. /\ pending' \subseteq Requests /\ shown' \subseteq Requests
          /\ decision' \in [Requests -> {"unasked", "waiting", "allow", "deny"}]
      BY <2>1, DrainedTypes DEF TypeInv
    <2> QED
      BY <1>3, <2>1, <2>2, <2>3 DEF TypeInv
  <1>9. CASE Cancelled
    <2>1. dispatcher.query \in DOMAIN query
      BY <1>9 DEF Cancelled, TypeInv
    <2>2. query' \in Seq(QueryType) /\ DOMAIN query' = DOMAIN query
      BY <1>9, <2>1, CloseKeepsQueries DEF Cancelled, QueriesKept
    <2>3. /\ UNCHANGED <<session, current, generation, settings, turn, asked, sent, watchdog, shut>>
          /\ DrainPendingPermissions /\ dispatcher' = Idle /\ dispatcher.at = "cancel"
      BY <1>9 DEF Cancelled
    <2>4. /\ pending' \subseteq Requests /\ shown' \subseteq Requests
          /\ decision' \in [Requests -> {"unasked", "waiting", "allow", "deny"}]
      BY <2>3, DrainedTypes DEF TypeInv
    <2> QED
      BY <1>1, <2>1, <2>2, <2>3, <2>4 DEF TypeInv
  <1>10. ASSUME NEW m \in Modes, SetMode(m) PROVE TypeInv'
    <2>1. /\ UNCHANGED <<session, query, current, generation, turn, permissions, asked, sent,
                         watchdog, shut>>
          /\ modeId' = m /\ shut = "no"
          /\ dispatcher' = [Idle EXCEPT !.at = "mode", !.query = current, !.mode = m]
      BY <1>10 DEF SetMode, Free
    <2>2. dispatcher' \in Calls /\ dispatcher'.query = current
      BY <1>3, <2>1, SessionAssumption DEF Idle, CallType
    <2> QED
      BY <1>3, <2>1, <2>2 DEF TypeInv
  <1>11. CASE ModeSet
    <2>1. /\ query' \in Seq(QueryType) /\ DOMAIN query' = DOMAIN query
          /\ dispatcher.query \in DOMAIN query
      BY <1>11, ModeKeepsQueries DEF QueriesKept
    <2> QED
      BY <1>1, <1>11, <2>1 DEF ModeSet, TypeInv
  <1>12. ASSUME NEW r \in Requests, Reply(r) PROVE TypeInv'
    BY <1>12 DEF Reply, TypeInv
  <1>13. ASSUME NEW r \in Requests, RespondToPermission(r) PROVE TypeInv'
    <2>1. /\ pending' \subseteq Requests /\ replies' \subseteq Requests
          /\ decision' \in [Requests -> {"unasked", "waiting", "allow", "deny"}]
      BY <1>13 DEF RespondToPermission, TypeInv
    <2> QED
      BY <1>13, <2>1 DEF RespondToPermission, TypeInv
  <1>14. CASE ModeRefused
    BY <1>1, <1>14 DEF ModeRefused, TypeInv
  <1> QED
    BY <1>4, <1>5, <1>6, <1>7, <1>8, <1>9, <1>10, <1>11, <1>12, <1>13, <1>14

LEMMA TypeInvWatchdog ==
    ASSUME TypeInv
    PROVE  /\ WatchdogFires => TypeInv'
           /\ WatchdogClosed => TypeInv'
           /\ WatchdogAttached => TypeInv'
           /\ WatchdogDies => TypeInv'
           /\ ShutDown => TypeInv'
           /\ ShutDownDone => TypeInv'
  <1> USE DEF session, settings, turn, permissions, asked
  <1> DEFINE Calls == CallType({"polling", "tearing", "attaching", "off"})
  <1>1. current \in DOMAIN query /\ current \in Nat
    BY QueryIsTyped DEF TypeInv
  <1>2. /\ Polling \in Calls /\ Polling.at = "polling"
        /\ [Polling EXCEPT !.at = "off"] \in Calls /\ [Polling EXCEPT !.at = "off"].at = "off"
    BY SessionAssumption DEF Polling, CallType
  <1>3. CASE WatchdogFires
    <2>1. /\ UNCHANGED <<session, query, current, settings, asked, sent, dispatcher, shut>>
          /\ generation' = generation + 1 /\ silence' = 0 /\ DrainPendingPermissions
          /\ watchdog' = [Polling EXCEPT !.at = "tearing", !.query = current,
                                         !.generation = generation + 1]
      BY <1>3 DEF WatchdogFires, Quiet
    <2>2. generation + 1 \in Nat
      BY DEF TypeInv
    <2>3. watchdog' \in Calls /\ watchdog'.query = current
      BY <1>1, <2>1, <2>2, SessionAssumption DEF Polling, CallType
    <2>4. /\ pending' \subseteq Requests /\ shown' \subseteq Requests
          /\ decision' \in [Requests -> {"unasked", "waiting", "allow", "deny"}]
      BY <2>1, DrainedTypes DEF TypeInv
    <2> QED
      BY <1>1, <2>1, <2>2, <2>3, <2>4 DEF TypeInv
  <1>4. CASE WatchdogClosed
    <2>1. watchdog.query \in DOMAIN query
      BY <1>4 DEF WatchdogClosed, TypeInv
    <2>2. query' \in Seq(QueryType) /\ DOMAIN query' = DOMAIN query
      BY <1>4, <2>1, CloseKeepsQueries DEF WatchdogClosed, QueriesKept
    <2>3. /\ UNCHANGED <<session, current, generation, settings, turn, asked, sent, dispatcher, shut>>
          /\ DrainPendingPermissions
          /\ watchdog' = [watchdog EXCEPT !.at = "attaching", !.mode = modeId]
      BY <1>4 DEF WatchdogClosed
    <2>4. watchdog' \in Calls /\ watchdog'.at = "attaching"
      BY <2>3 DEF TypeInv, CallType
    <2> QED
      BY <2>2, <2>3, <2>4, DrainedTypes DEF TypeInv
  <1>5. CASE WatchdogAttached
    <2>1. watchdog.generation \in Nat /\ watchdog.mode \in Modes
      BY DEF TypeInv, CallType
    <2>2. /\ query' \in Seq(QueryType) /\ current' \in DOMAIN query'
          /\ \A p \in DOMAIN query : p \in DOMAIN query'
      BY <1>5, <2>1, QueryAttached DEF WatchdogAttached
    <2>3. /\ UNCHANGED <<session, generation, settings, permissions, asked, sent, dispatcher, shut>>
          /\ silence' = 0 /\ watchdog' = Polling
      BY <1>5 DEF WatchdogAttached, Quiet
    <2> QED
      BY <1>2, <2>2, <2>3 DEF TypeInv
  <1>6. CASE WatchdogDies
    BY <1>2, <1>6 DEF WatchdogDies, TypeInv
  <1>7. CASE ShutDown
    <2>1. /\ UNCHANGED <<session, query, current, generation, settings, turn, asked, sent, watchdog>>
          /\ DrainPendingPermissions /\ shut' = "closing"
          /\ dispatcher' = [Idle EXCEPT !.query = current]
      BY <1>7 DEF ShutDown
    <2>2. /\ dispatcher' \in CallType({"idle", "reattach", "cancel", "mode"})
          /\ dispatcher'.query = current /\ dispatcher'.at = "idle"
      BY <1>1, <2>1, SessionAssumption DEF Idle, CallType
    <2> QED
      BY <1>1, <2>1, <2>2, DrainedTypes DEF TypeInv
  <1>8. CASE ShutDownDone
    <2>1. dispatcher.query \in DOMAIN query
      BY <1>8 DEF ShutDownDone, TypeInv
    <2>2. query' \in Seq(QueryType) /\ DOMAIN query' = DOMAIN query
      BY <1>8, <2>1, CloseKeepsQueries DEF ShutDownDone, QueriesKept
    <2>3. /\ UNCHANGED <<current, generation, settings, turn, asked, sent, dispatcher>>
          /\ DrainPendingPermissions /\ shut' = "done"
      BY <1>8 DEF ShutDownDone
    <2>4. /\ scope' \in {"open", "closed"} /\ watchdog' \in Calls
          /\ watchdog'.at = "tearing" => watchdog'.query \in DOMAIN query
      BY <1>2, <1>8 DEF ShutDownDone, CloseScope, TypeInv
    <2> QED
      BY <2>1, <2>2, <2>3, <2>4, DrainedTypes DEF TypeInv
  <1> QED
    BY <1>3, <1>4, <1>5, <1>6, <1>7, <1>8

LEMMA TypeInvStep == TypeInv /\ [Next]_vars => TypeInv'
  <1> SUFFICES ASSUME TypeInv, [Next]_vars PROVE TypeInv'
    OBVIOUS
  <1>1. CASE UNCHANGED vars
    BY <1>1 DEF vars, session, settings, turn, permissions, asked, TypeInv
  <1> QED
    BY <1>1, TypeInvSdk, TypeInvStream, TypeInvDispatcher, TypeInvWatchdog
    DEF Next, DispatcherStep, WatchdogStep

\* Which queries have refused their last switch changes with a switch, and with
\* a new runtime.
LEMMA RefusalsChange ==
    ASSUME [Next]_vars
    PROVE  \/ UNCHANGED refusing \/ refusing' = {}
           \/ refusing' \subseteq refusing \cup {dispatcher.query}
  <1> USE DEF settings
  <1>1. CASE UNCHANGED vars \/ Tick \/ StreamEnds \/ ConsumerFails \/ Archive
    BY <1>1 DEF vars, Tick, StreamEnds, ConsumerFails, Archive
  <1>2. ASSUME NEW q \in DOMAIN query,
               \/ Message(q) \/ Result(q) \/ AuthRequired(q) \/ Die(q)
               \/ \E r \in Requests : Ask(q, r)
               \/ ListenerEnds(q)
        PROVE  UNCHANGED refusing
    BY <1>2 DEF Message, Result, AuthRequired, Die, Ask, ListenerEnds
  <1>3. CASE SendPrompt \/ Reattach \/ Reattached \/ ReattachFails \/ CancelTurn \/ Cancelled
    BY <1>3 DEF SendPrompt, Reattach, Reattached, ReattachFails, CancelTurn, Cancelled
  <1>4. CASE Reopen \/ ModeSet \/ ModeRefused \/ \E m \in Modes : SetMode(m)
    BY <1>4 DEF Reopen, ModeSet, ModeRefused, SetMode
  <1>5. CASE \/ WatchdogStep \/ WatchdogDies \/ ShutDown \/ ShutDownDone
             \/ \E r \in Requests : Reply(r) \/ RespondToPermission(r)
    BY <1>5 DEF WatchdogStep, WatchdogFires, WatchdogClosed, WatchdogAttached, WatchdogDies,
      ShutDown, ShutDownDone, Reply, RespondToPermission
  <1> QED
    BY <1>1, <1>2, <1>3, <1>4, <1>5 DEF Next, DispatcherStep

\* Whether a flag is a flag is left to a prover that knows the Booleans.
FlagInv ==
    /\ registered \in BOOLEAN /\ ended \in BOOLEAN /\ modeRaced \in BOOLEAN
    /\ needsReattach \in BOOLEAN /\ turnOpen \in BOOLEAN /\ waited \in BOOLEAN

LEMMA FlagInvSdk ==
    ASSUME FlagInv, NEW q,
           \/ Message(q) \/ Result(q) \/ AuthRequired(q) \/ Die(q) \/ \E r \in Requests : Ask(q, r)
           \/ ListenerEnds(q) \/ Tick
    PROVE  FlagInv'
  <1> USE DEF FlagInv, session, settings, turn, Quiet
  <1>1. CASE Message(q)
    BY <1>1, Zenon DEF Message
  <1>2. CASE Result(q)
    BY <1>2, Zenon DEF Result
  <1>3. CASE AuthRequired(q)
    BY <1>3, Zenon DEF AuthRequired
  <1>4. CASE Die(q)
    BY <1>4, Zenon DEF Die
  <1>5. CASE \E r \in Requests : Ask(q, r)
    BY <1>5, Zenon DEF Ask
  <1>6. CASE ListenerEnds(q)
    BY <1>6, Zenon DEF ListenerEnds
  <1>7. CASE Tick
    BY <1>7, Zenon DEF Tick
  <1> QED
    BY <1>1, <1>2, <1>3, <1>4, <1>5, <1>6, <1>7

LEMMA FlagInvStep == FlagInv /\ [Next]_vars => FlagInv'
  <1> SUFFICES ASSUME FlagInv, [Next]_vars PROVE FlagInv'
    OBVIOUS
  <1> USE DEF FlagInv, session, settings, turn, Quiet
  <1>1. CASE StreamEnds \/ ConsumerFails \/ Archive
    BY <1>1, Zenon DEF StreamEnds, ConsumerFails, Archive
  <1>2. CASE Reopen
    BY <1>2, Zenon DEF Reopen
  <1>3. CASE SendPrompt \/ Reattach \/ Reattached \/ ReattachFails
    BY <1>3, Zenon DEF SendPrompt, Reattach, Reattached, ReattachFails, Offered
  <1>4. CASE CancelTurn \/ Cancelled \/ ModeSet \/ ModeRefused
    BY <1>4, Zenon DEF CancelTurn, Cancelled, ModeSet, ModeRefused
  <1>5. ASSUME NEW m \in Modes, SetMode(m) PROVE FlagInv'
    BY <1>5, Zenon DEF SetMode
  <1>6. ASSUME NEW r \in Requests, Reply(r) \/ RespondToPermission(r) PROVE FlagInv'
    BY <1>6, Zenon DEF Reply, RespondToPermission
  <1>7. CASE WatchdogStep \/ WatchdogDies
    BY <1>7, Zenon DEF WatchdogStep, WatchdogFires, WatchdogClosed, WatchdogAttached, WatchdogDies
  <1>8. CASE ShutDown \/ ShutDownDone
    BY <1>8, Zenon DEF ShutDown, ShutDownDone
  <1>9. CASE UNCHANGED vars
    BY <1>9, Zenon DEF vars
  <1> QED
    BY <1>1, <1>2, <1>3, <1>4, <1>5, <1>6, <1>7, <1>8, <1>9, FlagInvSdk DEF Next, DispatcherStep

\* Every variable stays in its domain.
THEOREM TypeCorrect == Spec => []TypeOK
  <1> DEFINE Refusals == refusing \subseteq Nat
  <1>1. Init => TypeInv /\ FlagInv /\ Refusals
    <2>1. Init => FlagInv
      BY Zenon DEF Init, FlagInv
    <2>2. Init => Refusals
      BY DEF Init
    <2> QED
      BY <2>1, <2>2, TypeInvInit
  <1>2. TypeInv /\ Refusals /\ [Next]_vars => Refusals'
    BY RefusalsChange DEF TypeInv, CallType
  <1>3. TypeInv /\ FlagInv /\ Refusals /\ [Next]_vars => TypeInv' /\ FlagInv' /\ Refusals'
    BY <1>2, TypeInvStep, FlagInvStep
  <1>4. TypeInv /\ FlagInv /\ Refusals => TypeOK
    BY Zenon DEF TypeInv, FlagInv, TypeOK, QueryType, CallType
  <1> QED
    BY <1>1, <1>3, <1>4, PTL DEF Spec

-----------------------------------------------------------------------------
(* Generations: whoever throws a query away has outdated it first, so the   *)
(* listener that ends the session is the one of a query that died.          *)

Outdated(q) == q \in DOMAIN query /\ query[q].generation < generation

GenQueries ==
    /\ \A q \in DOMAIN query : query[q].generation <= generation
    /\ scope = "open" => \A q \in DOMAIN query : query[q].open \/ query[q].died \/ Outdated(q)
    /\ SessionSurvivesRestart

GenCalls ==
    /\ dispatcher.at = "cancel" => Outdated(dispatcher.query)
    /\ dispatcher.at = "reattach" => dispatcher.generation <= generation
    /\ watchdog.at = "tearing" => Outdated(watchdog.query)
    /\ watchdog.at \in {"tearing", "attaching"} => watchdog.generation <= generation

GenInv == GenQueries /\ GenCalls

LEMMA GenInvInit == Init => GenInv
  <1> SUFFICES ASSUME Init PROVE GenInv
    OBVIOUS
  <1>1. DOMAIN query = {1} /\ query[1].generation = 0 /\ query[1].open = TRUE
    BY DEF Init, NewQuery
  <1> QED
    BY <1>1 DEF Init, GenInv, GenQueries, GenCalls, SessionSurvivesRestart, Idle, Polling

LEMMA OutdatedStays ==
    ASSUME TypeInv, QueriesKept, generation' \in Nat, generation <= generation', NEW q, Outdated(q)
    PROVE  Outdated(q)'
  <1>1. q \in DOMAIN query /\ query[q].generation < generation
    BY DEF Outdated
  <1>2. query[q].generation \in Nat /\ generation \in Nat
    BY <1>1, QueryIsTyped DEF TypeInv, QueryType
  <1>3. q \in DOMAIN query' /\ query'[q].generation = query[q].generation
    BY <1>1 DEF QueriesKept
  <1> QED
    BY <1>1, <1>2, <1>3 DEF Outdated

\* A step that attaches no query: only one that died, or is outdated, closes.
LEMMA GenQueriesFrame ==
    ASSUME TypeInv, GenQueries, QueriesKept, generation' \in Nat, generation <= generation',
           scope' = "open" => scope = "open",
           scope' = "open" => \A q \in DOMAIN query :
              query[q].open /\ ~query'[q].open => query'[q].died \/ Outdated(q),
           scope' = "open" /\ ~registered' => ~registered \/ \E q \in DOMAIN query : query[q].died
    PROVE  GenQueries'
  <1>1. \A q : Outdated(q) => Outdated(q)'
    BY OutdatedStays
  <1>2. \A q \in DOMAIN query' : query'[q].generation <= generation'
    <2> SUFFICES ASSUME NEW q \in DOMAIN query' PROVE query'[q].generation <= generation'
      OBVIOUS
    <2>1. q \in DOMAIN query /\ query'[q].generation = query[q].generation
      BY DEF QueriesKept
    <2>2. query[q].generation \in Nat /\ query[q].generation <= generation /\ generation \in Nat
      BY <2>1, QueryIsTyped DEF GenQueries, TypeInv, QueryType
    <2> QED
      BY <2>1, <2>2
  <1>3. ASSUME scope' = "open", NEW q \in DOMAIN query'
        PROVE  query'[q].open \/ query'[q].died \/ Outdated(q)'
    <2>1. q \in DOMAIN query /\ (query[q].died => query'[q].died)
      BY DEF QueriesKept
    <2>2. query[q].open \/ query[q].died \/ Outdated(q)
      BY <1>3, <2>1 DEF GenQueries
    <2> QED
      BY <1>1, <1>3, <2>1, <2>2, Zenon
  <1>4. SessionSurvivesRestart'
    BY DEF GenQueries, SessionSurvivesRestart, QueriesKept
  <1> QED
    BY <1>2, <1>3, <1>4 DEF GenQueries

\* Attaching a query of a generation that has been counted.
LEMMA GenInvAttach ==
    ASSUME TypeInv, GenInv, NEW g \in Nat, NEW m \in Modes, NEW i \in Nat, Attach(g, m, i),
           g <= generation, UNCHANGED <<generation, scope, registered>>,
           dispatcher'.at \in {"cancel", "reattach"} => UNCHANGED dispatcher,
           watchdog'.at \in {"tearing", "attaching"} => UNCHANGED watchdog
    PROVE  GenInv'
  <1>1. /\ current' \in DOMAIN query'
        /\ \A p \in DOMAIN query : query'[p] = query[p] /\ p \in DOMAIN query'
        /\ \A p \in DOMAIN query' : p \in DOMAIN query \/ p = current'
        /\ query'[current'] = [NewQuery(g, m) EXCEPT !.inbox = i]
    BY QueryAttached
  <1>2. query'[current'].generation = g /\ query'[current'].open = TRUE
    BY <1>1 DEF NewQuery
  <1>3. \A q : Outdated(q) => Outdated(q)'
    BY <1>1 DEF Outdated
  <1>4. \A q \in DOMAIN query' : query'[q].generation <= generation
    BY <1>1, <1>2 DEF GenInv, GenQueries
  <1>5. scope' = "open" => \A q \in DOMAIN query' :
                              query'[q].open \/ query'[q].died \/ Outdated(q)'
    BY <1>1, <1>2, <1>3 DEF GenInv, GenQueries
  <1>6. SessionSurvivesRestart'
    BY <1>1 DEF GenInv, GenQueries, SessionSurvivesRestart
  <1>7. GenCalls'
    BY <1>3 DEF GenInv, GenCalls
  <1> QED
    BY <1>4, <1>5, <1>6, <1>7 DEF GenInv, GenQueries

LEMMA DispatcherCallStays ==
    ASSUME TypeInv, GenCalls, QueriesKept, generation' \in Nat, generation <= generation',
           dispatcher'.at \in {"cancel", "reattach"} => UNCHANGED dispatcher
    PROVE  /\ dispatcher'.at = "cancel" => Outdated(dispatcher.query)'
           /\ dispatcher'.at = "reattach" => dispatcher'.generation <= generation'
  <1>1. CASE dispatcher'.at = "cancel"
    BY <1>1, OutdatedStays DEF GenCalls
  <1>2. CASE dispatcher'.at = "reattach"
    <2>1. dispatcher.generation \in Nat /\ generation \in Nat /\ dispatcher.generation <= generation
      BY <1>2 DEF GenCalls, TypeInv, CallType
    <2> QED
      BY <1>2, <2>1
  <1> QED
    BY <1>1, <1>2

LEMMA WatchdogCallStays ==
    ASSUME TypeInv, GenCalls, QueriesKept, generation' \in Nat, generation <= generation',
           watchdog'.at \in {"tearing", "attaching"} => UNCHANGED watchdog
    PROVE  /\ watchdog'.at = "tearing" => Outdated(watchdog.query)'
           /\ watchdog'.at \in {"tearing", "attaching"} => watchdog'.generation <= generation'
  <1>1. watchdog'.at = "tearing" => Outdated(watchdog.query)'
    BY OutdatedStays DEF GenCalls
  <1>2. ASSUME watchdog'.at \in {"tearing", "attaching"}
        PROVE  watchdog'.generation <= generation'
    <2>1. watchdog.generation \in Nat /\ generation \in Nat /\ watchdog.generation <= generation
      BY <1>2 DEF GenCalls, TypeInv, CallType
    <2> QED
      BY <1>2, <2>1
  <1> QED
    BY <1>1, <1>2

\* No call begins that has a query or a generation.
LEMMA GenInvFrame ==
    ASSUME TypeInv, GenInv, QueriesKept, UNCHANGED generation,
           scope' = "open" => scope = "open",
           scope' = "open" => \A q \in DOMAIN query :
              query[q].open /\ ~query'[q].open => query'[q].died \/ Outdated(q),
           scope' = "open" /\ ~registered' => ~registered \/ \E q \in DOMAIN query : query[q].died,
           dispatcher'.at \in {"cancel", "reattach"} => UNCHANGED dispatcher,
           watchdog'.at \in {"tearing", "attaching"} => UNCHANGED watchdog
    PROVE  GenInv'
  <1>1. generation \in Nat /\ generation <= generation'
    BY DEF TypeInv
  <1> QED
    BY <1>1, GenQueriesFrame, DispatcherCallStays, WatchdogCallStays DEF GenInv, GenCalls

\* The queries are left alone.
LEMMA SameQueries == ASSUME TypeInv, UNCHANGED query PROVE QueriesKept
  BY QueryIsTyped DEF QueriesKept, TypeInv

LEMMA GenInvSdk ==
    ASSUME TypeInv, GenInv, NEW q \in DOMAIN query
    PROVE  /\ Message(q) => GenInv'
           /\ Result(q) => GenInv'
           /\ AuthRequired(q) => GenInv'
           /\ Die(q) => GenInv'
           /\ \A r \in Requests : Ask(q, r) => GenInv'
           /\ ListenerEnds(q) => GenInv'
  <1> USE DEF session
  <1>1. CASE Message(q) \/ AuthRequired(q) \/ \E r \in Requests : Ask(q, r)
    <2>1. UNCHANGED <<session, query, generation, dispatcher, watchdog>>
      BY <1>1 DEF Message, AuthRequired, Ask
    <2> QED
      BY <2>1, SameQueries, GenInvFrame
  <1>2. CASE Result(q)
    <2>1. UNCHANGED <<session, generation, dispatcher, watchdog>>
      BY <1>2 DEF Result
    <2> QED
      BY <1>2, <2>1, ResultKeepsQueries, GenInvFrame
  <1>3. CASE Die(q)
    <2>1. UNCHANGED <<session, generation, dispatcher, watchdog>>
      BY <1>3 DEF Die
    <2> QED
      BY <1>3, <2>1, DeathKeepsQueries, GenInvFrame
  <1>4. CASE ListenerEnds(q)
    <2>1. /\ UNCHANGED <<scope, generation, dispatcher, watchdog>>
          /\ ~query[q].open \/ scope = "closed"
          /\ query[q].generation = generation \/ UNCHANGED registered
      BY <1>4 DEF ListenerEnds
    <2>2. /\ QueriesKept
          /\ \A p \in DOMAIN query : p # q => query'[p] = query[p]
      BY <1>4, ListenerKeepsQueries
    <2>3. scope' = "open" => \A p \in DOMAIN query :
             query[p].open /\ ~query'[p].open => query'[p].died \/ Outdated(p)
      BY <2>1, <2>2
    <2>4. scope' = "open" /\ ~registered' =>
             ~registered \/ \E p \in DOMAIN query : query[p].died
      <3> SUFFICES ASSUME scope = "open", query[q].generation = generation
                   PROVE  query[q].died
        BY <2>1
      <3>1. query[q].died \/ Outdated(q)
        BY <2>1 DEF GenInv, GenQueries
      <3>2. ~Outdated(q)
        <4>1. generation \in Nat
          BY DEF TypeInv
        <4> QED
          BY <4>1 DEF Outdated
      <3> QED
        BY <3>1, <3>2
    <2> QED
      BY <2>1, <2>2, <2>3, <2>4, GenInvFrame
  <1> QED
    BY <1>1, <1>2, <1>3, <1>4

LEMMA GenInvQuiet ==
    ASSUME TypeInv, GenInv
    PROVE  /\ Tick \/ StreamEnds \/ ConsumerFails \/ Archive => GenInv'
           /\ ReattachFails \/ WatchdogDies \/ ShutDown => GenInv'
           /\ \A m \in Modes : SetMode(m) => GenInv'
           /\ \A r \in Requests : Reply(r) \/ RespondToPermission(r) => GenInv'
           /\ UNCHANGED vars => GenInv'
  <1>1. ASSUME \/ Tick \/ StreamEnds \/ ConsumerFails \/ Archive
               \/ ReattachFails \/ WatchdogDies \/ ShutDown
               \/ \E m \in Modes : SetMode(m)
               \/ \E r \in Requests : Reply(r) \/ RespondToPermission(r)
               \/ UNCHANGED vars
        PROVE  GenInv'
    <2>1. UNCHANGED <<query, generation, registered>> /\ (scope' = "open" => scope = "open")
      BY <1>1 DEF Tick, StreamEnds, ConsumerFails, Archive, CloseScope, ReattachFails, WatchdogDies,
        ShutDown, SetMode, Reply, RespondToPermission, vars, session
    <2>2. \/ UNCHANGED dispatcher
          \/ dispatcher' = Idle \/ dispatcher' = [Idle EXCEPT !.query = current]
          \/ \E m \in Modes : dispatcher' = [Idle EXCEPT !.at = "mode", !.query = current, !.mode = m]
      BY <1>1, Zenon DEF Tick, StreamEnds, ConsumerFails, Archive, ReattachFails, WatchdogDies,
        ShutDown, SetMode, Reply, RespondToPermission, vars
    <2>4. dispatcher'.at \in {"cancel", "reattach"} => UNCHANGED dispatcher
      <3>1. dispatcher' = Idle => dispatcher'.at = "idle"
        BY DEF Idle
      <3>2. dispatcher' = [Idle EXCEPT !.query = current] => dispatcher'.at = "idle"
        BY DEF Idle
      <3>3. ASSUME NEW m \in Modes,
                   dispatcher' = [Idle EXCEPT !.at = "mode", !.query = current, !.mode = m]
            PROVE  dispatcher'.at = "mode"
        BY <3>3 DEF Idle
      <3> QED
        BY <2>2, <3>1, <3>2, <3>3
    <2>3. watchdog'.at \in {"tearing", "attaching"} => UNCHANGED watchdog
      BY <1>1 DEF Tick, StreamEnds, ConsumerFails, Archive, CloseScope, ReattachFails, WatchdogDies,
        ShutDown, SetMode, Reply, RespondToPermission, vars, Polling
    <2> QED
      BY <2>1, <2>3, <2>4, SameQueries, GenInvFrame
  <1> QED
    BY <1>1

LEMMA GenInvDispatcher ==
    ASSUME TypeInv, GenInv
    PROVE  /\ Reopen => GenInv'
           /\ SendPrompt => GenInv'
           /\ Reattach => GenInv'
           /\ Reattached => GenInv'
           /\ CancelTurn => GenInv'
           /\ Cancelled => GenInv'
           /\ ModeSet \/ ModeRefused => GenInv'
  <1> USE DEF session
  <1>1. CASE Reopen
    <2>1. /\ query' = <<NewQuery(0, DefaultMode)>> /\ generation' = 0 /\ registered' = TRUE
          /\ dispatcher'.at = "idle" /\ watchdog' = Polling
      BY <1>1 DEF Reopen, Free
    <2>2. DOMAIN query' = {1} /\ query'[1].generation = 0 /\ query'[1].open = TRUE
      BY <2>1 DEF NewQuery
    <2> QED
      BY <2>1, <2>2 DEF GenInv, GenQueries, GenCalls, SessionSurvivesRestart, Polling
  <1>2. CASE SendPrompt
    <2>1. UNCHANGED <<session, generation, dispatcher, watchdog>>
      BY <1>2 DEF SendPrompt
    <2> QED
      BY <1>2, <2>1, PromptKeepsQueries, GenInvFrame
  <1>3. CASE Reattach
    <2>1. /\ UNCHANGED <<session, query, watchdog>> /\ generation' = generation + 1
          /\ dispatcher' = [Idle EXCEPT !.at = "reattach", !.generation = generation + 1,
                                        !.mode = modeId]
      BY <1>3 DEF Reattach
    <2>2. dispatcher'.at = "reattach" /\ dispatcher'.generation = generation'
      BY <2>1 DEF Idle
    <2>3. generation' \in Nat /\ generation <= generation'
      BY <2>1 DEF TypeInv
    <2> QED
      BY <2>1, <2>2, <2>3, SameQueries, GenQueriesFrame, WatchdogCallStays DEF GenInv, GenCalls
  <1>4. CASE Reattached
    <2>1. /\ Attach(dispatcher.generation, dispatcher.mode, 1) /\ dispatcher.at = "reattach"
          /\ UNCHANGED <<generation, scope, registered, watchdog>> /\ dispatcher' = Idle
      BY <1>4 DEF Reattached
    <2>2. dispatcher.generation \in Nat /\ dispatcher.mode \in Modes
      BY DEF TypeInv, CallType
    <2>3. dispatcher'.at = "idle"
      BY <2>1 DEF Idle
    <2> QED
      BY <2>1, <2>2, <2>3, GenInvAttach DEF GenInv, GenCalls
  <1>5. CASE CancelTurn
    <2>1. /\ UNCHANGED <<session, query, watchdog>> /\ generation' = generation + 1
          /\ dispatcher' = [Idle EXCEPT !.at = "cancel", !.query = current]
      BY <1>5 DEF CancelTurn
    <2>2. dispatcher'.at = "cancel" /\ dispatcher'.query = current
      BY <2>1 DEF Idle
    <2>3. generation' \in Nat /\ generation <= generation'
      BY <2>1 DEF TypeInv
    <2>4. Outdated(dispatcher.query)'
      <3>1. /\ current \in DOMAIN query /\ generation \in Nat /\ query[current].generation \in Nat
            /\ query[current].generation <= generation
        BY QueryIsTyped DEF TypeInv, QueryType, GenInv, GenQueries
      <3> QED
        BY <2>1, <2>2, <3>1 DEF Outdated
    <2> QED
      BY <2>1, <2>2, <2>3, <2>4, SameQueries, GenQueriesFrame, WatchdogCallStays
      DEF GenInv, GenCalls
  <1>6. CASE Cancelled
    <2>1. /\ Close(dispatcher.query) /\ dispatcher.at = "cancel" /\ dispatcher' = Idle
          /\ UNCHANGED <<session, generation, watchdog>>
      BY <1>6 DEF Cancelled
    <2>2. Outdated(dispatcher.query)
      BY <2>1 DEF GenInv, GenCalls
    <2>3. /\ QueriesKept
          /\ \A p \in DOMAIN query : p # dispatcher.query => query'[p] = query[p]
      BY <2>1, <2>2, CloseKeepsQueries DEF Outdated
    <2>4. dispatcher'.at = "idle"
      BY <2>1 DEF Idle
    <2> QED
      BY <2>1, <2>2, <2>3, <2>4, GenInvFrame
  <1>7. CASE ModeSet
    <2>1. UNCHANGED <<session, generation, watchdog>> /\ dispatcher' = Idle
      BY <1>7 DEF ModeSet
    <2>2. dispatcher'.at = "idle"
      BY <2>1 DEF Idle
    <2> QED
      BY <1>7, <2>1, <2>2, ModeKeepsQueries, GenInvFrame
  <1>8. CASE ModeRefused
    <2>1. UNCHANGED <<session, query, generation, watchdog>> /\ dispatcher' = Idle
      BY <1>8 DEF ModeRefused
    <2>2. dispatcher'.at = "idle"
      BY <2>1 DEF Idle
    <2> QED
      BY <2>1, <2>2, SameQueries, GenInvFrame
  <1> QED
    BY <1>1, <1>2, <1>3, <1>4, <1>5, <1>6, <1>7, <1>8

LEMMA GenInvWatchdog ==
    ASSUME TypeInv, GenInv
    PROVE  /\ WatchdogFires => GenInv'
           /\ WatchdogClosed => GenInv'
           /\ WatchdogAttached => GenInv'
           /\ ShutDownDone => GenInv'
  <1> USE DEF session
  <1>1. CASE WatchdogFires
    <2>1. /\ UNCHANGED <<session, query, dispatcher>> /\ generation' = generation + 1
          /\ watchdog' = [Polling EXCEPT !.at = "tearing", !.query = current,
                                         !.generation = generation + 1]
      BY <1>1 DEF WatchdogFires
    <2>2. /\ watchdog'.at = "tearing" /\ watchdog'.query = current
          /\ watchdog'.generation = generation'
      BY <2>1 DEF Polling
    <2>3. generation' \in Nat /\ generation <= generation'
      BY <2>1 DEF TypeInv
    <2>4. Outdated(watchdog.query)'
      <3>1. /\ current \in DOMAIN query /\ generation \in Nat /\ query[current].generation \in Nat
            /\ query[current].generation <= generation
        BY QueryIsTyped DEF TypeInv, QueryType, GenInv, GenQueries
      <3> QED
        BY <2>1, <2>2, <3>1 DEF Outdated
    <2> QED
      BY <2>1, <2>2, <2>3, <2>4, SameQueries, GenQueriesFrame, DispatcherCallStays
      DEF GenInv, GenCalls
  <1>2. CASE WatchdogClosed
    <2>1. /\ Close(watchdog.query) /\ watchdog.at = "tearing"
          /\ watchdog' = [watchdog EXCEPT !.at = "attaching", !.mode = modeId]
          /\ UNCHANGED <<session, generation, dispatcher>>
      BY <1>2 DEF WatchdogClosed
    <2>2. Outdated(watchdog.query) /\ watchdog.generation <= generation
      BY <2>1 DEF GenInv, GenCalls
    <2>3. /\ QueriesKept
          /\ \A p \in DOMAIN query : p # watchdog.query => query'[p] = query[p]
      BY <2>1, <2>2, CloseKeepsQueries DEF Outdated
    <2>4. watchdog'.at = "attaching" /\ watchdog'.generation = watchdog.generation
      BY <2>1 DEF TypeInv, CallType
    <2>5. generation' \in Nat /\ generation <= generation'
      BY <2>1 DEF TypeInv
    <2>6. GenQueries'
      BY <2>1, <2>2, <2>3, <2>5, GenQueriesFrame DEF GenInv
    <2> QED
      BY <2>1, <2>2, <2>3, <2>4, <2>5, <2>6, DispatcherCallStays DEF GenInv, GenCalls
  <1>3. CASE WatchdogAttached
    <2>1. /\ Attach(watchdog.generation, watchdog.mode, 0) /\ watchdog.at = "attaching"
          /\ UNCHANGED <<generation, scope, registered, dispatcher>> /\ watchdog' = Polling
      BY <1>3 DEF WatchdogAttached
    <2>2. watchdog.generation \in Nat /\ watchdog.mode \in Modes
      BY DEF TypeInv, CallType
    <2>3. watchdog'.at = "polling"
      BY <2>1 DEF Polling
    <2> QED
      BY <2>1, <2>2, <2>3, GenInvAttach DEF GenInv, GenCalls
  <1>4. CASE ShutDownDone
    <2>1. /\ Close(dispatcher.query) /\ shut = "closing"
          /\ UNCHANGED <<registered, generation, dispatcher>>
          /\ CloseScope \/ (scope = "closed" /\ UNCHANGED <<scope, watchdog>>)
      BY <1>4 DEF ShutDownDone
    <2>2. /\ scope' = "closed"
          /\ watchdog'.at \in {"tearing", "attaching"} => UNCHANGED watchdog
      BY <2>1 DEF CloseScope, Polling
    <2>3. dispatcher.query \in DOMAIN query
      BY <2>1 DEF TypeInv
    <2> QED
      BY <2>1, <2>2, <2>3, CloseKeepsQueries, GenInvFrame
  <1> QED
    BY <1>1, <1>2, <1>3, <1>4

LEMMA GenInvStep == TypeInv /\ GenInv /\ [Next]_vars => GenInv'
  BY GenInvSdk, GenInvQuiet, GenInvDispatcher, GenInvWatchdog
  DEF Next, DispatcherStep, WatchdogStep

\* A session ends only after one of its queries has died: no cancel, signed-out
\* answer or recovery ends it (ListenerEnds, the generation of Adapter.ts).
THEOREM RestartsKeepTheSession == Spec => []SessionSurvivesRestart
  <1>1. Init => TypeInv /\ GenInv
    BY TypeInvInit, GenInvInit
  <1>2. TypeInv /\ GenInv /\ [Next]_vars => TypeInv' /\ GenInv'
    BY TypeInvStep, GenInvStep
  <1>3. GenInv => SessionSurvivesRestart
    BY DEF GenInv, GenQueries
  <1> QED
    BY <1>1, <1>2, <1>3, PTL DEF Spec

-----------------------------------------------------------------------------
(* Permissions: whoever throws a query away drains after it has closed it.  *)

PermInv ==
    /\ \A r \in Requests : Waiting(r) => r \in pending
    /\ \A r \in Requests : decision[r] = "unasked" => r \notin pending \cup shown \cup replies
    /\ shown \cap replies = {}
    /\ scope = "open" =>
          /\ \A r \in pending : asker[r] \in DOMAIN query
                                /\ (query[asker[r]].open \/ query[asker[r]].died)
          /\ \A r \in shown : asker[r] # 0 => r \in pending /\ ~ended

LEMMA PermInvInit == Init => PermInv
  BY DEF Init, PermInv, Waiting

LEMMA PermInvDrain ==
    ASSUME TypeInv, PermInv, DrainPendingPermissions, UNCHANGED <<asker, replies>>,
           scope' = "open" => scope = "open"
    PROVE  PermInv'
  <1>1. /\ pending' = {} /\ decision' = [r \in Requests |-> IF r \in pending THEN "deny" ELSE decision[r]]
        /\ shown' = IF Heard THEN shown \ pending ELSE shown
    BY DEF DrainPendingPermissions
  <1>2. \A r \in Requests : ~Waiting(r)'
    BY <1>1 DEF PermInv, Waiting
  <1>3. \A r \in Requests : decision'[r] = "unasked" => decision[r] = "unasked"
    BY <1>1
  <1>4. shown' \subseteq shown
    BY <1>1
  <1>5. scope' = "open" => \A r \in shown' : asker[r] = 0
    <2> SUFFICES ASSUME scope' = "open", NEW r \in shown', asker[r] # 0 PROVE FALSE
      OBVIOUS
    <2>1. r \in pending /\ ~ended
      BY <1>4 DEF PermInv
    <2> QED
      BY <1>1, <2>1 DEF Heard
  <1> QED
    BY <1>1, <1>2, <1>3, <1>4, <1>5 DEF PermInv

\* Nothing is asked or answered, and no query that might ask is closed.
LEMMA PermInvFrame ==
    ASSUME PermInv, UNCHANGED <<pending, decision, shown, asker, replies, ended>>,
           scope' = "open" => scope = "open",
           scope' = "open" => \A q \in DOMAIN query :
              /\ q \in DOMAIN query'
              /\ query[q].open \/ query[q].died => query'[q].open \/ query'[q].died
    PROVE  PermInv'
  <1>1. \A r : Waiting(r)' <=> Waiting(r)
    BY DEF Waiting
  <1> QED
    BY <1>1 DEF PermInv

LEMMA PermInvSdk ==
    ASSUME TypeInv, PermInv, NEW q \in DOMAIN query
    PROVE  /\ Message(q) => PermInv'
           /\ Result(q) => PermInv'
           /\ AuthRequired(q) => PermInv'
           /\ Die(q) => PermInv'
           /\ \A r \in Requests : Ask(q, r) => PermInv'
           /\ ListenerEnds(q) => PermInv'
  <1> USE DEF session, permissions, asked
  <1>1. CASE Message(q) \/ AuthRequired(q)
    <2>1. UNCHANGED <<session, query, permissions, asked>>
      BY <1>1 DEF Message, AuthRequired
    <2> QED
      BY <2>1, PermInvFrame
  <1>2. CASE Result(q)
    <2>1. UNCHANGED <<session, permissions, asked>>
      BY <1>2 DEF Result
    <2>2. \A p \in DOMAIN query : /\ p \in DOMAIN query' /\ query'[p].open = query[p].open
                                  /\ query[p].died => query'[p].died
      BY <1>2, ResultKeepsQueries DEF QueriesKept
    <2> QED
      BY <2>1, <2>2, PermInvFrame
  <1>3. CASE Die(q)
    <2>1. UNCHANGED <<session, permissions, asked>>
      BY <1>3 DEF Die
    <2>2. /\ DOMAIN query' = DOMAIN query /\ query'[q].died
          /\ \A p \in DOMAIN query : p # q => query'[p] = query[p]
      BY <1>3, DeathKeepsQueries DEF QueriesKept
    <2> QED
      BY <2>1, <2>2, PermInvFrame
  <1>4. ASSUME NEW r \in Requests, Ask(q, r) PROVE PermInv'
    <2>1. /\ UNCHANGED <<session, query, replies>> /\ decision[r] = "unasked"
          /\ decision' = [decision EXCEPT ![r] = "waiting"]
          /\ asker' = [asker EXCEPT ![r] = q] /\ pending' = pending \cup {r}
          /\ shown' = IF Heard THEN shown \cup {r} ELSE shown
          /\ scope = "open" /\ query[q].open
      BY <1>4 DEF Ask, Working
    <2>2. r \notin pending \cup shown \cup replies
      BY <2>1 DEF PermInv
    <2>3. \A t \in Requests : /\ t # r => decision'[t] = decision[t] /\ asker'[t] = asker[t]
                              /\ t = r => decision'[t] = "waiting" /\ asker'[t] = q
      BY <2>1 DEF TypeInv
    <2>4. \A t \in Requests : /\ Waiting(t)' => t \in pending'
                              /\ decision'[t] = "unasked" => t \notin pending' \cup shown' \cup replies'
      BY <2>1, <2>3 DEF PermInv, Waiting
    <2>5. shown' \cap replies' = {}
      BY <2>1, <2>2 DEF PermInv
    <2>6. \A t \in pending' : asker'[t] \in DOMAIN query'
                              /\ (query'[asker'[t]].open \/ query'[asker'[t]].died)
      <3>1. pending \subseteq Requests
        BY DEF TypeInv
      <3> QED
        BY <2>1, <2>2, <2>3, <3>1 DEF PermInv
    <2>7. \A t \in shown' : asker'[t] # 0 => t \in pending' /\ ~ended'
      <3>1. shown \subseteq Requests
        BY DEF TypeInv
      <3> QED
        BY <2>1, <2>2, <2>3, <3>1 DEF PermInv, Heard
    <2> QED
      BY <2>4, <2>5, <2>6, <2>7 DEF PermInv
  <1>5. CASE ListenerEnds(q)
    <2>1. CASE DrainPendingPermissions
      BY <1>5, <2>1, PermInvDrain DEF ListenerEnds
    <2>2. CASE UNCHANGED <<permissions, ended>>
      <3>1. UNCHANGED <<scope, asked>> /\ (~query[q].open \/ scope = "closed")
        BY <1>5 DEF ListenerEnds
      <3>2. /\ DOMAIN query' = DOMAIN query
            /\ \A p \in DOMAIN query : p # q => query'[p] = query[p]
            /\ \A p \in DOMAIN query : query[p].died => query'[p].died
        BY <1>5, ListenerKeepsQueries DEF QueriesKept
      <3> QED
        BY <2>2, <3>1, <3>2, PermInvFrame
    <2> QED
      BY <1>5, <2>1, <2>2 DEF ListenerEnds
  <1> QED
    BY <1>1, <1>2, <1>3, <1>4, <1>5

LEMMA PermInvQuiet ==
    ASSUME TypeInv, PermInv,
           \/ Tick \/ StreamEnds \/ ConsumerFails \/ Archive \/ SendPrompt
           \/ Reattach \/ Reattached \/ ReattachFails \/ ModeSet \/ ModeRefused
           \/ WatchdogAttached \/ WatchdogDies
           \/ \E m \in Modes : SetMode(m)
           \/ UNCHANGED vars
    PROVE  PermInv'
  <1> USE DEF session, permissions, asked
  <1>1. /\ UNCHANGED <<permissions, asked, ended>>
        /\ scope' = "open" => scope = "open"
    BY DEF Tick, StreamEnds, ConsumerFails, Archive, CloseScope, SendPrompt, Reattach, Reattached,
      ReattachFails, ModeSet, ModeRefused, WatchdogAttached, WatchdogDies, SetMode, vars
  <1>2. CASE UNCHANGED query
    BY <1>1, <1>2, PermInvFrame
  <1>3. CASE SendPrompt \/ ModeSet
    <2>1. \A p \in DOMAIN query : /\ p \in DOMAIN query' /\ query'[p].open = query[p].open
                                  /\ query[p].died => query'[p].died
      BY <1>3, PromptKeepsQueries, ModeKeepsQueries DEF QueriesKept
    <2> QED
      BY <1>1, <2>1, PermInvFrame
  <1>4. CASE Reattached \/ WatchdogAttached
    <2>1. PICK g \in Nat, m \in Modes, i \in Nat : Attach(g, m, i)
      BY <1>4 DEF Reattached, WatchdogAttached, TypeInv, CallType
    <2>2. \A p \in DOMAIN query : p \in DOMAIN query' /\ query'[p] = query[p]
      BY <2>1, QueryAttached
    <2> QED
      BY <1>1, <2>2, PermInvFrame
  <1> QED
    BY <1>2, <1>3, <1>4
    DEF Tick, StreamEnds, ConsumerFails, Archive, Reattach, ReattachFails, ModeRefused, WatchdogDies,
      SetMode, vars

LEMMA PermInvStep == TypeInv /\ PermInv /\ [Next]_vars => PermInv'
  <1> SUFFICES ASSUME TypeInv, PermInv, [Next]_vars PROVE PermInv'
    OBVIOUS
  <1> USE DEF session, permissions, asked
  <1>1. CASE \/ CancelTurn \/ Cancelled \/ WatchdogFires \/ WatchdogClosed \/ ShutDown \/ ShutDownDone
    <2>1. /\ DrainPendingPermissions /\ UNCHANGED asked
          /\ scope' = "open" => scope = "open"
      BY <1>1 DEF CancelTurn, Cancelled, WatchdogFires, WatchdogClosed, ShutDown, ShutDownDone,
        CloseScope
    <2> QED
      BY <2>1, PermInvDrain
  <1>2. CASE Reopen
    <2>1. /\ pending' = {} /\ UNCHANGED <<decision, shown, replies>>
          /\ asker' = [r \in Requests |-> 0]
      BY <1>2 DEF Reopen
    <2>2. \A r \in Requests : asker'[r] = 0 /\ ~Waiting(r)'
      BY <2>1 DEF Waiting
    <2>3. shown \subseteq Requests
      BY DEF TypeInv
    <2> QED
      BY <2>1, <2>2, <2>3 DEF PermInv
  <1>3. ASSUME NEW r \in Requests, Reply(r) PROVE PermInv'
    <2>1. /\ UNCHANGED <<session, query, pending, decision, asker>>
          /\ shown' = shown \ {r} /\ replies' = replies \cup {r} /\ r \in shown
      BY <1>3 DEF Reply
    <2>2. \A t : Waiting(t)' <=> Waiting(t)
      BY <2>1 DEF Waiting
    <2> QED
      BY <2>1, <2>2 DEF PermInv
  <1>4. ASSUME NEW r \in Requests, RespondToPermission(r) PROVE PermInv'
    <2>1. /\ UNCHANGED <<session, query, asker, shown>>
          /\ r \in replies /\ replies' = replies \ {r}
          /\ \/ decision' = [decision EXCEPT ![r] = "allow"] /\ pending' = pending \ {r}
             \/ UNCHANGED <<decision, pending>>
      BY <1>4 DEF RespondToPermission
    <2>2. \A t \in Requests : decision'[t] = decision[t] \/ (t = r /\ decision'[t] = "allow")
      BY <2>1 DEF TypeInv
    <2>3. \A t \in Requests : Waiting(t)' => t \in pending'
      BY <2>1, <2>2 DEF Waiting, PermInv, TypeInv
    <2>4. r \notin shown
      BY <2>1 DEF PermInv
    <2>5. \A t \in Requests : decision'[t] = "unasked" => t \notin pending' \cup shown' \cup replies'
      BY <2>1, <2>2 DEF PermInv
    <2> QED
      BY <2>1, <2>3, <2>4, <2>5 DEF PermInv
  <1> QED
    BY <1>1, <1>2, <1>3, <1>4, PermInvSdk, PermInvQuiet DEF Next, DispatcherStep, WatchdogStep

\* No query is thrown away with its canUseTool left blocked, not even for what
\* was asked during the interrupt (the drain after the teardown).
THEOREM PermissionsAreDrained == Spec => []NoAbandonedPermission
  <1>1. Init => TypeInv /\ PermInv
    BY TypeInvInit, PermInvInit
  <1>2. TypeInv /\ PermInv /\ [Next]_vars => TypeInv' /\ PermInv'
    BY TypeInvStep, PermInvStep
  <1>3. PermInv => NoAbandonedPermission
    BY DEF PermInv, NoAbandonedPermission
  <1> QED
    BY <1>1, <1>2, <1>3, PTL DEF Spec

\* What the operator sees can still be answered (the answers drain publishes).
THEOREM ApprovalsCanBeAnswered == Spec => []NoStaleApproval
  <1>1. Init => TypeInv /\ PermInv
    BY TypeInvInit, PermInvInit
  <1>2. TypeInv /\ PermInv /\ [Next]_vars => TypeInv' /\ PermInv'
    BY TypeInvStep, PermInvStep
  <1>3. PermInv => NoStaleApproval
    BY DEF PermInv, NoStaleApproval
  <1> QED
    BY <1>1, <1>2, <1>3, PTL DEF Spec

-----------------------------------------------------------------------------
(* The mode: whoever builds or switches a query has read the latest choice. *)

ModeInv ==
    shut = "no" =>
        /\ dispatcher.at \in {"reattach", "mode"} => dispatcher.mode = modeId
        /\ watchdog.at = "attaching" => watchdog.mode = modeId \/ modeRaced
        /\ query[current].open =>
              \/ query[current].mode = modeId \/ modeRaced \/ current \in refusing
              \/ dispatcher.at = "mode" /\ dispatcher.query = current

LEMMA ModeInvInit == Init => ModeInv
  <1> SUFFICES ASSUME Init PROVE ModeInv
    OBVIOUS
  <1>1. query[current].mode = DefaultMode /\ modeId = DefaultMode
    BY DEF Init, NewQuery
  <1> QED
    BY <1>1 DEF Init, ModeInv, Idle, Polling

\* No mode is chosen, no query attached, no call begun that has a mode.
LEMMA ModeInvFrame ==
    ASSUME ModeInv, UNCHANGED <<settings, current>>,
           shut' = "no" => shut = "no",
           query'[current].open => query[current].open /\ query'[current].mode = query[current].mode,
           \/ UNCHANGED dispatcher
           \/ dispatcher.at # "mode" /\ dispatcher'.at \notin {"reattach", "mode"},
           UNCHANGED watchdog \/ watchdog'.at # "attaching"
    PROVE  ModeInv'
  BY DEF ModeInv, settings

LEMMA ModeInvQueries ==
    ASSUME TypeInv, ModeInv
    PROVE  /\ \A q \in DOMAIN query : Result(q) \/ Die(q) \/ ListenerEnds(q) => ModeInv'
           /\ SendPrompt => ModeInv'
           /\ Cancelled => ModeInv'
           /\ ShutDownDone => ModeInv'
  <1>1. current \in DOMAIN query
    BY DEF TypeInv
  <1>2. ASSUME NEW q \in DOMAIN query, Result(q) PROVE ModeInv'
    <2>1. UNCHANGED <<settings, current, shut, dispatcher, watchdog>>
      BY <1>2 DEF Result
    <2> QED
      BY <1>1, <1>2, <2>1, ResultKeepsQueries, ModeInvFrame
  <1>3. ASSUME NEW q \in DOMAIN query, Die(q) PROVE ModeInv'
    <2>1. UNCHANGED <<settings, current, shut, dispatcher, watchdog>>
      BY <1>3 DEF Die
    <2> QED
      BY <1>1, <1>3, <2>1, DeathKeepsQueries, ModeInvFrame
  <1>4. ASSUME NEW q \in DOMAIN query, ListenerEnds(q) PROVE ModeInv'
    <2>1. UNCHANGED <<settings, current, shut, dispatcher, watchdog>>
      BY <1>4 DEF ListenerEnds
    <2> QED
      BY <1>1, <1>4, <2>1, ListenerKeepsQueries, ModeInvFrame
  <1>5. CASE SendPrompt
    <2>1. UNCHANGED <<settings, current, shut, dispatcher, watchdog>>
      BY <1>5 DEF SendPrompt
    <2> QED
      BY <1>1, <1>5, <2>1, PromptKeepsQueries, ModeInvFrame
  <1>6. CASE Cancelled
    <2>1. /\ UNCHANGED <<settings, current, shut, watchdog>> /\ Close(dispatcher.query)
          /\ dispatcher.at = "cancel" /\ dispatcher' = Idle
      BY <1>6 DEF Cancelled
    <2>2. dispatcher.query \in DOMAIN query /\ dispatcher'.at = "idle"
      BY <2>1 DEF TypeInv, Idle
    <2> QED
      BY <1>1, <2>1, <2>2, CloseKeepsQueries, ModeInvFrame
  <1>7. CASE ShutDownDone
    BY <1>7 DEF ShutDownDone, ModeInv
  <1> QED
    BY <1>2, <1>3, <1>4, <1>5, <1>6, <1>7

LEMMA ModeInvElsewhere ==
    ASSUME ModeInv
    PROVE  /\ \A q : Message(q) \/ AuthRequired(q) => ModeInv'
           /\ \A q : \A r \in Requests : Ask(q, r) => ModeInv'
           /\ Tick \/ StreamEnds \/ ConsumerFails \/ Archive => ModeInv'
           /\ ReattachFails \/ CancelTurn \/ ShutDown => ModeInv'
           /\ WatchdogFires \/ WatchdogDies => ModeInv'
           /\ \A r \in Requests : Reply(r) \/ RespondToPermission(r) => ModeInv'
           /\ UNCHANGED vars => ModeInv'
  <1>1. ASSUME \/ \E q : Message(q) \/ AuthRequired(q) \/ \E r \in Requests : Ask(q, r)
               \/ Tick \/ \E r \in Requests : Reply(r) \/ RespondToPermission(r)
               \/ UNCHANGED vars
        PROVE  ModeInv'
    <2>1. UNCHANGED <<settings, query, current, shut, dispatcher, watchdog>>
      BY <1>1 DEF Message, AuthRequired, Ask, Tick, Reply, RespondToPermission, vars
    <2> QED
      BY <2>1, ModeInvFrame
  <1>2. ASSUME StreamEnds \/ ConsumerFails \/ Archive PROVE ModeInv'
    <2>1. /\ UNCHANGED <<settings, query, current, dispatcher>>
          /\ UNCHANGED shut \/ shut' = "archived"
          /\ UNCHANGED watchdog \/ watchdog' = [Polling EXCEPT !.at = "off"]
      BY <1>2 DEF StreamEnds, ConsumerFails, Archive, CloseScope
    <2>2. watchdog' = [Polling EXCEPT !.at = "off"] => watchdog'.at = "off"
      BY DEF Polling
    <2> QED
      BY <2>1, <2>2, ModeInvFrame
  <1>3. ASSUME ReattachFails \/ CancelTurn PROVE ModeInv'
    <2>1. /\ UNCHANGED <<settings, query, current, shut, watchdog>>
          /\ dispatcher.at \in {"reattach", "idle"}
          /\ dispatcher' = Idle \/ dispatcher' = [Idle EXCEPT !.at = "cancel", !.query = current]
      BY <1>3 DEF ReattachFails, CancelTurn, Free
    <2>2. dispatcher' = Idle => dispatcher'.at = "idle"
      BY DEF Idle
    <2>3. dispatcher' = [Idle EXCEPT !.at = "cancel", !.query = current] =>
             dispatcher'.at = "cancel"
      BY DEF Idle
    <2> QED
      BY <2>1, <2>2, <2>3, ModeInvFrame
  <1>4. ASSUME ShutDown PROVE ModeInv'
    BY <1>4 DEF ShutDown, ModeInv
  <1>5. ASSUME WatchdogFires \/ WatchdogDies PROVE ModeInv'
    <2>1. UNCHANGED <<settings, query, current, shut, dispatcher>>
      BY <1>5 DEF WatchdogFires, WatchdogDies
    <2>2. watchdog'.at # "attaching"
      BY <1>5 DEF WatchdogFires, WatchdogDies, Polling
    <2> QED
      BY <2>1, <2>2, ModeInvFrame
  <1> QED
    BY <1>1, <1>2, <1>3, <1>4, <1>5

LEMMA ModeInvCalls ==
    ASSUME TypeInv, ModeInv
    PROVE  /\ Reopen => ModeInv'
           /\ Reattach => ModeInv'
           /\ Reattached => ModeInv'
           /\ \A m \in Modes : SetMode(m) => ModeInv'
           /\ ModeSet \/ ModeRefused => ModeInv'
           /\ WatchdogClosed => ModeInv'
           /\ WatchdogAttached => ModeInv'
  <1>1. current \in DOMAIN query
    BY DEF TypeInv
  <1>2. CASE Reopen
    <2>1. /\ query' = <<NewQuery(0, DefaultMode)>> /\ current' = 1 /\ modeId' = DefaultMode
          /\ watchdog' = Polling /\ dispatcher'.at = "idle"
      BY <1>2 DEF Reopen, Free
    <2>2. query'[current'].mode = DefaultMode /\ watchdog'.at = "polling"
      BY <2>1 DEF NewQuery, Polling
    <2> QED
      BY <2>1, <2>2 DEF ModeInv
  <1>3. CASE Reattach
    <2>1. /\ UNCHANGED <<query, current, settings, watchdog, shut>> /\ dispatcher.at = "idle"
          /\ dispatcher' = [Idle EXCEPT !.at = "reattach", !.generation = generation + 1,
                                        !.mode = modeId]
      BY <1>3 DEF Reattach, Free
    <2>2. dispatcher'.at = "reattach" /\ dispatcher'.mode = modeId
      BY <2>1 DEF Idle
    <2> QED
      BY <2>1, <2>2 DEF ModeInv, settings
  <1>4. CASE Reattached
    <2>1. /\ Attach(dispatcher.generation, dispatcher.mode, 1) /\ dispatcher.at = "reattach"
          /\ UNCHANGED <<settings, watchdog, shut>> /\ dispatcher' = Idle
      BY <1>4 DEF Reattached
    <2>2. dispatcher.generation \in Nat /\ dispatcher.mode \in Modes
      BY DEF TypeInv, CallType
    <2>3. query'[current'].mode = dispatcher.mode
      <3>1. query'[current'] =
               [NewQuery(dispatcher.generation, dispatcher.mode) EXCEPT !.inbox = 1]
        BY <2>1, <2>2, QueryAttached
      <3> QED
        BY <3>1 DEF NewQuery
    <2>4. dispatcher'.at = "idle"
      BY <2>1 DEF Idle
    <2> QED
      BY <2>1, <2>3, <2>4 DEF ModeInv, settings
  <1>5. ASSUME NEW m \in Modes, SetMode(m) PROVE ModeInv'
    <2>1. /\ UNCHANGED <<query, current, watchdog, shut, refusing>> /\ modeId' = m
          /\ modeRaced' = (watchdog.at = "attaching")
          /\ dispatcher' = [Idle EXCEPT !.at = "mode", !.query = current, !.mode = m]
      BY <1>5 DEF SetMode
    <2>2. dispatcher'.at = "mode" /\ dispatcher'.query = current /\ dispatcher'.mode = m
      BY <2>1 DEF Idle
    <2> QED
      BY <2>1, <2>2 DEF ModeInv
  <1>6. CASE ModeSet
    <2>1. /\ UNCHANGED <<modeId, modeRaced, current, watchdog, shut>> /\ dispatcher.at = "mode"
          /\ dispatcher'.at = "idle"
          /\ refusing' = refusing \ {dispatcher.query}
      BY <1>6 DEF ModeSet, Idle
    <2>2. /\ query'[current].open = query[current].open
          /\ current # dispatcher.query => query'[current].mode = query[current].mode
          /\ current = dispatcher.query /\ query[current].open =>
                query'[current].mode = dispatcher.mode
      BY <1>1, <1>6, ModeKeepsQueries
    <2> QED
      BY <2>1, <2>2 DEF ModeInv
  <1>7. CASE ModeRefused
    <2>1. /\ UNCHANGED <<query, modeId, modeRaced, current, watchdog, shut>>
          /\ dispatcher.at = "mode" /\ dispatcher'.at = "idle" /\ refusing' = refusing \cup {dispatcher.query}
      BY <1>7 DEF ModeRefused, Idle
    <2>2. shut = "no" /\ query[current].open =>
             \/ query[current].mode = modeId \/ modeRaced \/ dispatcher.query = current
             \/ current \in refusing
      BY DEF ModeInv
    <2> QED
      BY <2>1, <2>2 DEF ModeInv
  <1>8. CASE WatchdogClosed
    <2>1. /\ UNCHANGED <<settings, current, dispatcher, shut>> /\ Close(watchdog.query)
          /\ watchdog.at = "tearing"
          /\ watchdog' = [watchdog EXCEPT !.at = "attaching", !.mode = modeId]
      BY <1>8 DEF WatchdogClosed
    <2>2. watchdog'.mode = modeId /\ watchdog.query \in DOMAIN query
      BY <2>1 DEF TypeInv, CallType
    <2>3. query'[current].open =>
             query[current].open /\ query'[current].mode = query[current].mode
      BY <1>1, <2>1, <2>2, CloseKeepsQueries
    <2> QED
      BY <2>1, <2>2, <2>3 DEF ModeInv, settings
  <1>9. CASE WatchdogAttached
    <2>1. /\ Attach(watchdog.generation, watchdog.mode, 0) /\ watchdog.at = "attaching"
          /\ UNCHANGED <<settings, dispatcher, shut>> /\ watchdog' = Polling
      BY <1>9 DEF WatchdogAttached
    <2>2. watchdog.generation \in Nat /\ watchdog.mode \in Modes
      BY DEF TypeInv, CallType
    <2>3. query'[current'].mode = watchdog.mode /\ watchdog'.at = "polling"
      BY ZenonT(40), <2>1, <2>2, QueryAttached DEF NewQuery, Polling
    <2> QED
      BY <2>1, <2>3 DEF ModeInv, settings
  <1> QED
    BY <1>2, <1>3, <1>4, <1>5, <1>6, <1>7, <1>8, <1>9

\* The open query runs in the mode the operator chose (setMode, attachQuery).
THEOREM ChosenModeIsKept == Spec => []ModeIsKept
  <1>1. Init => TypeInv /\ ModeInv
    BY TypeInvInit, ModeInvInit
  <1>2. TypeInv /\ ModeInv /\ [Next]_vars => ModeInv'
    BY ModeInvQueries, ModeInvElsewhere, ModeInvCalls
    DEF Next, DispatcherStep, WatchdogStep
  <1>3. TypeInv /\ ModeInv /\ [Next]_vars => TypeInv' /\ ModeInv'
    BY <1>2, TypeInvStep
  <1>4. ModeInv => ModeIsKept
    BY DEF ModeInv, ModeIsKept
  <1> QED
    BY <1>1, <1>3, <1>4, PTL DEF Spec


-----------------------------------------------------------------------------
(* Recovery: what StalledTurnsEnd rests on *)

\* A turn has gone silent, and there is a watchdog to notice.
Stalled == turnOpen /\ silence > 0 /\ watchdog.at # "off"

\* The guards of Tick and WatchdogStep.
TickDue == turnOpen /\ scope = "open" /\ silence < 2
WatchdogDue ==
    \/ /\ watchdog.at = "polling"
       /\ turnOpen
       /\ silence >= IF pending # {} THEN 2 ELSE 1
    \/ watchdog.at \in {"tearing", "attaching"}

\* A turn that has gone silent is recovered by a step that is due already, or
\* by time: whatever is pending, the watchdog waits for nobody.
RecoveryIsDue == Stalled => TickDue \/ (silence = 2 /\ WatchdogDue)

\* The steps of time and of the watchdog until the turn is recovered.
RecoverySteps(quiet, at) ==
    (2 - quiet) + (CASE at = "tearing" -> 2 [] at = "attaching" -> 1 [] OTHER -> 0)
RecoveryLeft == RecoverySteps(silence, watchdog.at)

\* No step of the SDK, of the operator, of the dispatcher or of a listener puts a
\* recovery off, other than by ending the turn or the silence; time and the
\* watchdog bring it nearer.
RecoveryComes ==
    Stalled /\ Stalled' =>
        /\ RecoveryLeft \in Nat
        /\ silence' >= silence /\ RecoveryLeft' <= RecoveryLeft
        /\ Tick \/ WatchdogStep => RecoveryLeft' < RecoveryLeft

\* The watchdog lives in the scope of the session.
WatchInv == watchdog.at # "off" => scope = "open"

\* What a step does to the silence and to the watchdog.
LEMMA SilenceAndWatchdog ==
    ASSUME [Next]_vars
    PROVE  \/ UNCHANGED <<silence, watchdog, scope>>
           \/ Tick /\ UNCHANGED <<watchdog, scope>>
           \/ silence' = 0 /\ UNCHANGED <<watchdog, scope>>
           \/ watchdog'.at = "off"
           \/ silence' = 0 /\ scope' = "open"
           \/ WatchdogStep /\ UNCHANGED scope
  <1> USE DEF session, turn
  <1>1. CASE UNCHANGED vars
    BY <1>1 DEF vars
  <1>2. ASSUME NEW q \in DOMAIN query,
               \/ Message(q) \/ Result(q) \/ AuthRequired(q) \/ Die(q)
               \/ \E r \in Requests : Ask(q, r)
               \/ ListenerEnds(q)
        PROVE  UNCHANGED <<watchdog, scope>> /\ (silence' = 0 \/ UNCHANGED silence)
    BY <1>2 DEF Message, Result, AuthRequired, Die, Ask, ListenerEnds, Quiet
  <1>3. CASE StreamEnds \/ ConsumerFails \/ WatchdogDies
    BY <1>3 DEF StreamEnds, ConsumerFails, CloseScope, WatchdogDies, Polling
  <1>4. CASE Archive \/ ShutDownDone
    BY <1>4 DEF Archive, ShutDownDone, CloseScope, Polling
  <1>5. CASE Reopen
    BY <1>5 DEF Reopen, Quiet
  <1>6. CASE SendPrompt \/ Reattached \/ CancelTurn
    BY <1>6 DEF SendPrompt, Reattached, CancelTurn, Offered, Quiet
  <1>7. CASE Reattach \/ ReattachFails \/ Cancelled \/ ModeSet \/ ModeRefused \/ ShutDown
    BY <1>7 DEF Reattach, ReattachFails, Cancelled, ModeSet, ModeRefused, ShutDown
  <1>8. CASE \E m \in Modes : SetMode(m)
    BY <1>8 DEF SetMode
  <1>9. CASE \E r \in Requests : Reply(r) \/ RespondToPermission(r)
    BY <1>9 DEF Reply, RespondToPermission
  <1>10. WatchdogStep => UNCHANGED scope
    BY DEF WatchdogStep, WatchdogFires, WatchdogClosed, WatchdogAttached
  <1>11. Tick => UNCHANGED <<watchdog, scope>>
    BY DEF Tick
  <1> QED
    BY <1>1, <1>2, <1>3, <1>4, <1>5, <1>6, <1>7, <1>8, <1>9, <1>10, <1>11 DEF Next, DispatcherStep

\* The three steps of the watchdog.
LEMMA WatchdogSteps ==
    ASSUME TypeInv, WatchdogStep
    PROVE  /\ watchdog.at # "off"
           /\ \/ silence' = 0
              \/ watchdog.at = "tearing" /\ watchdog'.at = "attaching" /\ UNCHANGED silence
  <1>1. WatchdogFires \/ WatchdogAttached => watchdog.at # "off" /\ silence' = 0
    BY DEF WatchdogFires, WatchdogAttached, Quiet
  <1>2. ASSUME WatchdogClosed
        PROVE  watchdog.at = "tearing" /\ watchdog'.at = "attaching" /\ UNCHANGED silence
    BY <1>2 DEF WatchdogClosed, turn, TypeInv, CallType
  <1> QED
    BY <1>1, <1>2 DEF WatchdogStep

LEMMA WatchInvStep == TypeInv /\ WatchInv /\ [Next]_vars => WatchInv'
  <1> SUFFICES ASSUME TypeInv, WatchInv, [Next]_vars PROVE WatchInv'
    OBVIOUS
  <1>1. WatchdogStep => scope = "open"
    BY WatchdogSteps DEF WatchInv
  <1> QED
    BY <1>1, SilenceAndWatchdog DEF WatchInv

\* A turn that has gone silent is recovered by a step of the watchdog that is
\* due, or by time that may pass, whoever is asked and whatever is under way.
THEOREM RecoveryIsAlwaysDue == Spec => []RecoveryIsDue
  <1>1. Init => TypeInv /\ WatchInv
    BY TypeInvInit DEF Init, WatchInv
  <1>2. TypeInv /\ WatchInv /\ [Next]_vars => TypeInv' /\ WatchInv'
    BY TypeInvStep, WatchInvStep
  <1>3. TypeInv /\ WatchInv => RecoveryIsDue
    <2> SUFFICES ASSUME TypeInv, WatchInv, Stalled PROVE TickDue \/ (silence = 2 /\ WatchdogDue)
      BY DEF RecoveryIsDue
    <2>1. /\ silence \in 0..2 /\ scope = "open" /\ turnOpen
          /\ watchdog.at \in {"polling", "tearing", "attaching"}
      BY DEF TypeInv, CallType, WatchInv, Stalled
    <2>2. silence < 2 \/ silence = 2
      BY <2>1
    <2> QED
      BY <2>1, <2>2 DEF TickDue, WatchdogDue
  <1> QED
    BY <1>1, <1>2, <1>3, PTL DEF Spec

LEMMA RecoveryStepsAre ==
    ASSUME NEW quiet \in 0..2
    PROVE  /\ \A at : RecoverySteps(quiet, at) \in Nat
           /\ \A at : \A less \in 0..2 :
                 less < quiet => RecoverySteps(quiet, at) < RecoverySteps(less, at)
           /\ RecoverySteps(quiet, "attaching") < RecoverySteps(quiet, "tearing")
  BY DEF RecoverySteps

\* Nobody puts it off: only the end of the turn, of the silence or of the watchdog
\* stops a recovery from coming nearer.  With RecoveryIsAlwaysDue this is
\* StalledTurnsEnd, but for the fairness.
THEOREM RecoveryAlwaysComes == Spec => [][RecoveryComes]_vars
  <1>1. ASSUME TypeInv, TypeInv', [Next]_vars, Stalled, Stalled'
        PROVE  /\ RecoveryLeft \in Nat
               /\ silence' >= silence /\ RecoveryLeft' <= RecoveryLeft
               /\ Tick \/ WatchdogStep => RecoveryLeft' < RecoveryLeft
    <2>1. /\ silence \in 0..2 /\ silence' \in 0..2
          /\ silence # 0 /\ silence' # 0 /\ watchdog'.at # "off"
      BY <1>1 DEF TypeInv, Stalled
    <2>2. /\ RecoveryLeft = RecoverySteps(silence, watchdog.at)
          /\ RecoveryLeft' = RecoverySteps(silence', watchdog'.at)
      BY DEF RecoveryLeft
    <2>3. RecoveryLeft \in Nat /\ RecoveryLeft' \in Nat
      BY <2>1, <2>2, RecoveryStepsAre
    <2>4. CASE Tick
      <3>1. silence' = silence + 1 /\ UNCHANGED watchdog
        BY <2>4 DEF Tick
      <3>2. silence < silence'
        BY <2>1, <3>1
      <3>3. RecoveryLeft' < RecoveryLeft
        BY <2>1, <2>2, <3>1, <3>2, RecoveryStepsAre
      <3> QED
        BY <2>1, <2>3, <3>2, <3>3
    <2>5. CASE WatchdogStep
      <3>1. watchdog.at = "tearing" /\ watchdog'.at = "attaching" /\ UNCHANGED silence
        BY <1>1, <2>1, <2>5, WatchdogSteps
      <3>2. RecoveryLeft' < RecoveryLeft
        BY <2>1, <2>2, <3>1, RecoveryStepsAre
      <3> QED
        BY <2>1, <2>3, <3>1, <3>2
    <2>6. CASE ~Tick /\ ~WatchdogStep
      <3>1. UNCHANGED <<silence, watchdog>>
        BY <1>1, <2>1, <2>6, SilenceAndWatchdog
      <3>2. RecoveryLeft' = RecoveryLeft
        BY <2>2, <3>1
      <3> QED
        BY <2>1, <2>3, <2>6, <3>1, <3>2
    <2> QED
      BY <2>4, <2>5, <2>6
  <1>2. TypeInv /\ TypeInv' /\ [Next]_vars => [RecoveryComes]_vars
    BY <1>1 DEF RecoveryComes
  <1> QED
    BY <1>2, TypeInvInit, TypeInvStep, PTL DEF Spec
=============================================================================

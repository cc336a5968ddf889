----------------------------- MODULE MQTTProofs -----------------------------
(***************************************************************************)
(* Proofs about MQTT for every number of endpoints and of lost connections.*)
(*                                                                         *)
(* MQTTInv is not inductive.  Order says that the generations come one     *)
(* after the other: a connection can be lost only when its generation has  *)
(* done with connecting, and the next one begins then.  Cancels is the     *)
(* trace that the handlers leave, Client ties this.client to the phases,   *)
(* and Tried is what the search for the first broker has established.      *)
(***************************************************************************)
EXTENDS MQTT, TLAPS

Done == {"spawning", "looping", "over"}

\* A generation begins after all earlier ones have connected.
Order == \A g, h \in Gen : g < h /\ phase[h] # "idle" => phase[g] \in Done

\* The first one is not the work of a handler.
First == phase[1] \notin {"idle", "lost"}

\* A handler that has gone on to connect has cancelled the generation before its own.
Cancels == \A h \in Gen : h > 1 /\ phase[h] \notin {"idle", "lost"} => h - 1 \in cancelled

\* this.client is that of the generation that connects or has connected last.
Client ==
    /\ client = NoGen => phase[1] = "connecting"
    /\ client # NoGen => phase[client] \notin {"idle", "lost"}
    /\ \A g \in Gen : phase[g] = "dialing" => client = g
    /\ connected => /\ client # NoGen
                    /\ phase[client] \in Done
                    /\ \A h \in Gen : h > client => phase[h] = "idle"

\* Without a client there is nothing to publish, if there is a period.
Nothing == periodic /\ client = NoGen => \A p \in Pubs : pending[p] = 0

\* Brokers that the first search has passed over were out of reach at some time.
Tried ==
    /\ steady \subseteq reachable
    /\ phase[1] = "connecting" => \A b \in steady : endpoint <= b
    /\ phase[1] = "dialing" => endpoint = broker + 1 /\ \A b \in steady : broker <= b

IInv == TypeOK /\ Order /\ First /\ Cancels /\ Client /\ Nothing /\ Tried
        /\ NilClientOnlyAtStart /\ PriorityAtStart

-----------------------------------------------------------------------------
\* The first generation is one, whatever the bound.
LEMMA GenOne == 1 \in Gen /\ \A g \in Gen : g \in Nat /\ g >= 1
  BY MQTTAssumption DEF Gen

\* The publications that a tick or a Status starts stay within their bound.
LEMMA LaunchType ==
    ASSUME pending \in [Pubs -> 0..MaxPending], NEW ps, Room(ps), Launch(ps)
    PROVE  pending' \in [Pubs -> 0..MaxPending]
  BY MQTTAssumption DEF Room, Launch

\* Two loops that both run: the later generation's handler has cancelled the earlier.
LEMMA OneLoopHolds == IInv => OneLoop
<1> SUFFICES ASSUME IInv, NEW g \in Gen, NEW h \in Gen, g < h,
                    phase[g] = "looping", phase[h] = "looping"
             PROVE  g \in cancelled
  BY GenOne DEF OneLoop
<1>1. g + 1 \in Gen /\ g + 1 > 1
  BY GenOne, MQTTAssumption DEF Gen
<1>2. phase[g + 1] \notin {"idle", "lost"}
  <2>1. CASE g + 1 = h
    BY <2>1
  <2>2. CASE g + 1 # h
    <3>1. g + 1 < h
      BY <2>2, GenOne
    <3> QED
      BY <1>1, <3>1 DEF IInv, Order, Done
  <2> QED
    BY <2>1, <2>2
<1>3. (g + 1) - 1 \in cancelled
  BY <1>1, <1>2 DEF IInv, Cancels
<1> QED
  BY <1>3, GenOne

\* The invariant holds initially.
LEMMA InitIInv == Init => IInv
<1> SUFFICES ASSUME Init PROVE IInv
  OBVIOUS
<1>1. endpoint \in 0..Endpoints /\ broker \in Broker /\ flips \in 0..MaxFlips /\ news \in 0..MaxStatus
  BY MQTTAssumption DEF Init, Broker
<1>2. pending \in [Pubs -> 0..MaxPending]
  BY MQTTAssumption DEF Init
<1>3. phase \in [Gen -> Phase]
  BY DEF Init, Phase
<1>4. values \in [Tag -> Value] /\ published \in [Tag -> Value]
  BY MQTTAssumption DEF Init
<1>5. TypeOK
  BY <1>1, <1>2, <1>3, <1>4 DEF Init, TypeOK, NoGen
<1>6. Order /\ First /\ Cancels /\ Client
  BY GenOne DEF Init, Order, First, Cancels, Client, NoGen
<1>7. Nothing /\ Tried /\ NilClientOnlyAtStart /\ PriorityAtStart
  BY GenOne, <1>5 DEF Init, Nothing, Tried, NilClientOnlyAtStart, PriorityAtStart, TypeOK, Broker
<1> QED
  BY <1>5, <1>6, <1>7 DEF IInv

-----------------------------------------------------------------------------
\* connect takes the next endpoint of the list.
LEMMA DialKeeps ==
    ASSUME IInv, NEW g \in Gen, Dial(g)
    PROVE  IInv'
<1> USE GenOne DEF IInv, NoGen
<1> DEFINE i == IF endpoint = Endpoints THEN 0 ELSE endpoint
<1>1. i \in Broker /\ i + 1 \in 0..Endpoints /\ broker' = i /\ endpoint' = i + 1
  BY MQTTAssumption DEF Dial, TypeOK, Broker
<1>2. TypeOK'
  BY <1>1 DEF Dial, TypeOK, Phase, envVars
<1>3. Order' /\ First' /\ Cancels'
  BY DEF Dial, TypeOK, Order, First, Cancels, Done
<1>4. \A h \in Gen : h # g => phase[h] \notin {"connecting", "dialing"}
  BY DEF Dial, Order, Done
<1>5. Client' /\ Nothing'
  BY <1>4 DEF Dial, TypeOK, Client, Nothing
<1>6. Tried'
  <2>1. steady' \subseteq reachable'
    BY DEF Dial, Tried, envVars
  <2>2. CASE g = 1
    <3>1. \A b \in steady : endpoint <= b /\ b \in 0..(Endpoints - 1)
      BY <2>2 DEF Dial, Tried, TypeOK, Broker
    <3>2. \A b \in steady : i <= b
      BY <3>1, MQTTAssumption DEF TypeOK
    <3> QED
      BY <1>1, <2>1, <2>2, <3>2 DEF Dial, Tried, TypeOK
  <2>3. CASE g # 1
    BY <1>4, <2>1, <2>3 DEF Dial, Tried, TypeOK
  <2> QED
    BY <2>2, <2>3
<1>7. NilClientOnlyAtStart' /\ PriorityAtStart'
  BY DEF Dial, Up, NilClientOnlyAtStart, PriorityAtStart
<1> QED
  BY <1>2, <1>3, <1>5, <1>6, <1>7

\* Connect returns: with a connection, or to try the next endpoint.
LEMMA DialResultKeeps ==
    ASSUME IInv, NEW g \in Gen, DialResult(g)
    PROVE  IInv'
<1> USE GenOne DEF IInv, NoGen
<1>1. client = g /\ \A h \in Gen : h > g => phase[h] = "idle"
  BY DEF DialResult, Client, Order, Done
<1>2. TypeOK'
  BY DEF DialResult, TypeOK, Phase, envVars
<1>3. Order' /\ First' /\ Cancels'
  BY <1>1 DEF DialResult, TypeOK, Order, First, Cancels, Done
<1>4. Client' /\ Nothing'
  BY <1>1 DEF DialResult, TypeOK, Client, Nothing, Done
<1>5. Tried' /\ PriorityAtStart'
  <2>1. CASE g = 1
    <3>1. \A b \in steady : b \in Nat /\ broker <= b /\ (broker \notin reachable => broker # b)
      BY <2>1 DEF DialResult, Tried, TypeOK, Broker
    <3>2. endpoint = broker + 1 /\ broker \in Nat
      BY <2>1 DEF DialResult, Tried, TypeOK, Broker
    <3> QED
      BY <2>1, <3>1, <3>2 DEF DialResult, Tried, PriorityAtStart, TypeOK, envVars
  <2>2. CASE g # 1
    BY <1>1, <2>2 DEF DialResult, Tried, PriorityAtStart, TypeOK, envVars
  <2> QED
    BY <2>1, <2>2
<1>6. NilClientOnlyAtStart'
  BY DEF DialResult, Up, NilClientOnlyAtStart
<1> QED
  BY <1>2, <1>3, <1>4, <1>5, <1>6

\* The publish loop is started.
LEMMA SpawnKeeps ==
    ASSUME IInv, NEW g \in Gen, Spawn(g)
    PROVE  IInv'
<1> USE GenOne DEF IInv, NoGen
<1>1. TypeOK'
  BY DEF Spawn, TypeOK, Phase, envVars
<1>2. Order' /\ First' /\ Cancels' /\ Client' /\ Nothing'
  BY DEF Spawn, TypeOK, Order, First, Cancels, Client, Nothing, Done
<1>3. Tried' /\ PriorityAtStart'
  BY DEF Spawn, TypeOK, Tried, PriorityAtStart, envVars
<1>4. NilClientOnlyAtStart'
  BY DEF Spawn, Up, NilClientOnlyAtStart
<1> QED
  BY <1>1, <1>2, <1>3, <1>4

\* A connection is lost: the next generation begins.
LEMMA ConnectionLostKeeps ==
    ASSUME IInv, NEW g \in Gen, ConnectionLost(g)
    PROVE  IInv'
<1> USE GenOne DEF IInv, NoGen
<1>1. /\ g + 1 \in Gen /\ phase[g] \in Done /\ phase[g + 1] = "idle"
      /\ \A h \in Gen : h > g => phase[h] = "idle"
      /\ \A h \in Gen : h <= g => phase[h] \in Done
  BY DEF ConnectionLost, Client, Order, Done
<1>2. TypeOK'
  BY <1>1 DEF ConnectionLost, TypeOK, Phase, envVars
<1>3. Order'
  BY <1>1 DEF ConnectionLost, TypeOK, Order
<1>4. First' /\ Cancels' /\ Client' /\ Nothing'
  BY <1>1 DEF ConnectionLost, TypeOK, First, Cancels, Client, Nothing, Done
<1>5. Tried' /\ PriorityAtStart'
  BY <1>1 DEF ConnectionLost, TypeOK, Tried, PriorityAtStart, envVars
<1>6. NilClientOnlyAtStart'
  BY DEF ConnectionLost, Up, NilClientOnlyAtStart
<1> QED
  BY <1>2, <1>3, <1>4, <1>5, <1>6

\* The handler cancels the context of the generation that lost its connection.
LEMMA HandleLostKeeps ==
    ASSUME IInv, NEW g \in Gen, HandleLost(g)
    PROVE  IInv'
<1> USE GenOne DEF IInv, NoGen
<1>1. g > 1 /\ g - 1 \in Gen /\ phase[1] \in Done
  BY MQTTAssumption DEF HandleLost, First, Order, Gen
<1>2. TypeOK'
  BY <1>1 DEF HandleLost, TypeOK, Phase, envVars
<1>3. Order' /\ First' /\ Cancels'
  BY <1>1 DEF HandleLost, TypeOK, Order, First, Cancels, Done
<1>4. Client' /\ Nothing'
  BY <1>1 DEF HandleLost, TypeOK, Client, Nothing, Done
<1>5. ~(connected /\ client = 1)
  BY <1>1 DEF HandleLost, Client
<1>6. Tried' /\ PriorityAtStart'
  BY <1>1, <1>5 DEF HandleLost, TypeOK, Tried, PriorityAtStart, envVars, Done
<1>7. NilClientOnlyAtStart'
  BY DEF HandleLost, Up, NilClientOnlyAtStart
<1> QED
  BY <1>2, <1>3, <1>4, <1>6, <1>7

\* Ticks, publications and Status messages.
LEMMA PublishingKeeps ==
    ASSUME IInv,
           \/ \E g \in Gen : Tick(g)
           \/ \E p \in Pubs : Publish(p)
           \/ Status
    PROVE  IInv'
<1> USE GenOne DEF IInv, NoGen
<1>1. UNCHANGED <<periodic, term, endpoint, client, broker, connected, phase, cancelled, steady,
                  reachable, flips>>
  BY DEF Tick, Publish, Status, envVars
<1>2. Order' /\ First' /\ Cancels' /\ Client' /\ Tried' /\ PriorityAtStart'
  BY <1>1 DEF Order, First, Cancels, Client, Tried, PriorityAtStart
<1>3. ASSUME NEW g \in Gen, Tick(g) PROVE TypeOK' /\ Nothing' /\ NilClientOnlyAtStart'
  <2>1. PICK ps : Room(ps) /\ Launch(ps)
    BY <1>3 DEF Tick
  <2>2. pending' \in [Pubs -> 0..MaxPending]
    BY <2>1, LaunchType DEF TypeOK
  <2>3. client # NoGen
    BY <1>3 DEF Tick, Client, Order, Done
  <2> QED
    BY <1>3, <2>2, <2>3 DEF Tick, TypeOK, Nothing, NilClientOnlyAtStart, Up, envVars
<1>4. ASSUME NEW p \in Pubs, Publish(p) PROVE TypeOK' /\ Nothing' /\ NilClientOnlyAtStart'
  <2>1. pending' \in [Pubs -> 0..MaxPending] /\ published' \in [Tag -> Value]
    BY <1>4, MQTTAssumption DEF Publish, TypeOK, Pubs
  <2>2. TypeOK'
    BY <1>4, <2>1 DEF Publish, TypeOK, envVars
  <2>3. client = NoGen => ~periodic /\ phase[1] = "connecting"
    BY <1>4 DEF Publish, Nothing, Client, TypeOK
  <2> QED
    BY <1>4, <2>2, <2>3 DEF Publish, Nothing, NilClientOnlyAtStart, Up
<1>5. CASE Status
  <2>1. PICK S \in (SUBSET Tag) \ {{}} : \E m \in [S -> Value] :
            /\ values' = [t \in Tag |-> IF t \in S THEN m[t] ELSE values[t]]
            /\ IF periodic THEN UNCHANGED pending
               ELSE Room({<<t, m[t]>> : t \in S}) /\ Launch({<<t, m[t]>> : t \in S})
    BY <1>5 DEF Status
  <2>2. PICK m \in [S -> Value] :
            /\ values' = [t \in Tag |-> IF t \in S THEN m[t] ELSE values[t]]
            /\ IF periodic THEN UNCHANGED pending
               ELSE Room({<<t, m[t]>> : t \in S}) /\ Launch({<<t, m[t]>> : t \in S})
    BY <2>1
  <2>3. values' \in [Tag -> Value]
    BY <2>2 DEF TypeOK
  <2>4. pending' \in [Pubs -> 0..MaxPending]
    BY <2>2, LaunchType DEF TypeOK
  <2>5. news' \in 0..MaxStatus
    BY <1>5, MQTTAssumption DEF Status, TypeOK
  <2>6. TypeOK'
    BY <1>5, <2>3, <2>4, <2>5 DEF Status, TypeOK, envVars
  <2>7. Nothing' /\ NilClientOnlyAtStart'
    BY <1>5, <2>2 DEF Status, Nothing, NilClientOnlyAtStart, Up
  <2> QED
    BY <1>2, <1>5, <2>7, <2>6
<1> QED
  BY <1>2, <1>3, <1>4, <1>5

\* The end of a loop, of the process, and changes of the brokers.
LEMMA OthersKeep ==
    ASSUME IInv,
           \/ \E g \in Gen : StopLoop(g)
           \/ Sigterm \/ Exit
           \/ \E b \in Broker : BrokerChanges(b)
           \/ UNCHANGED vars
    PROVE  IInv'
<1> USE GenOne DEF IInv, NoGen
<1>1. ASSUME NEW g \in Gen, StopLoop(g) PROVE IInv'
  <2>1. TypeOK'
    BY <1>1 DEF StopLoop, TypeOK, Phase, envVars
  <2>2. Order' /\ First' /\ Cancels' /\ Client' /\ Nothing'
    BY <1>1 DEF StopLoop, TypeOK, Order, First, Cancels, Client, Nothing, Done
  <2>3. Tried' /\ PriorityAtStart' /\ NilClientOnlyAtStart'
    BY <1>1 DEF StopLoop, TypeOK, Tried, PriorityAtStart, NilClientOnlyAtStart, Up, envVars
  <2> QED
    BY <2>1, <2>2, <2>3
<1>2. CASE Sigterm \/ Exit \/ UNCHANGED vars
  <2>1. UNCHANGED <<periodic, endpoint, client, broker, connected, phase, cancelled, values,
                    pending, published, steady, news, reachable, flips>>
    BY <1>2 DEF Sigterm, Exit, vars, envVars
  <2>2. main' \in {main, "exited"} /\ term' \in {term, TRUE}
    BY <1>2 DEF Sigterm, Exit, vars
  <2>3. TypeOK'
    BY <2>1, <2>2 DEF TypeOK
  <2>4. Order' /\ First' /\ Cancels' /\ Client' /\ Nothing' /\ Tried' /\ PriorityAtStart'
    BY <2>1 DEF Order, First, Cancels, Client, Nothing, Tried, PriorityAtStart
  <2>5. NilClientOnlyAtStart'
    BY <2>1, <2>2 DEF NilClientOnlyAtStart
  <2> QED
    BY <2>3, <2>4, <2>5
<1>3. ASSUME NEW b \in Broker, BrokerChanges(b) PROVE IInv'
  <2>1. reachable' \subseteq Broker /\ steady' = steady \cap reachable' /\ flips' \in 0..MaxFlips
    BY <1>3, MQTTAssumption DEF BrokerChanges, TypeOK
  <2>2. TypeOK'
    BY <1>3, <2>1 DEF BrokerChanges, TypeOK
  <2>3. Order' /\ First' /\ Cancels' /\ Client' /\ Nothing'
    BY <1>3 DEF BrokerChanges, Order, First, Cancels, Client, Nothing
  <2>4. Tried' /\ PriorityAtStart' /\ NilClientOnlyAtStart'
    BY <1>3, <2>1 DEF BrokerChanges, Tried, PriorityAtStart, NilClientOnlyAtStart, Up
  <2> QED
    BY <2>2, <2>3, <2>4
<1> QED
  BY <1>1, <1>2, <1>3

\* Every step preserves the invariant.
LEMMA NextIInv == IInv /\ [Next]_vars => IInv'
  BY DialKeeps, DialResultKeeps, SpawnKeeps, ConnectionLostKeeps, HandleLostKeeps,
     PublishingKeeps, OthersKeep DEF Next, Connecting

\* For every number of endpoints and however often connections are lost: the index stays
\* within the list, one loop publishes, no publication after the first attempt finds a nil
\* client, and the first connection goes to the first broker that could be had
\* (mqtt.go:187-273, 335-343).
THEOREM MQTTCorrect == Spec => []MQTTInv
<1>1. IInv => MQTTInv
  BY OneLoopHolds DEF IInv, MQTTInv
<1> QED
  BY <1>1, InitIInv, NextIInv, PTL DEF Spec
=============================================================================

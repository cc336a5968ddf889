-------------------------------- MODULE MQTT --------------------------------
(***************************************************************************)
(* The MQTT module (go/mqtt): it keeps the latest value of its tags and    *)
(* publishes them to the first broker of a list that it can connect to.    *)
(*                                                                         *)
(* connectAndRun is called once by Run and then by the handler of every    *)
(* lost connection, in a goroutine of its own; the n-th call is generation *)
(* n.  When it has connected it starts a publish loop whose context the    *)
(* next loss cancels.  Every publication is a goroutine.  Without a period *)
(* there is no loop and each Status is published when it arrives.          *)
(***************************************************************************)
EXTENDS Naturals, FiniteSets

CONSTANTS
    Endpoints,  \* how many <endpoint> elements there are
    Tag, Value,
    Zero,       \* the value of every tag before its first Status
    MaxGen, MaxStatus, MaxFlips, MaxPending  \* bounds

ASSUME MQTTAssumption ==
    /\ Endpoints \in Nat \ {0} /\ MaxGen \in Nat \ {0}
    /\ MaxStatus \in Nat /\ MaxFlips \in Nat /\ MaxPending \in Nat \ {0}
    /\ Zero \in Value

Gen == 1..MaxGen
Broker == 0..(Endpoints - 1)
NoGen == 0

VARIABLES
    periodic,   \* a <period> is configured
    main,       \* "running" in Run, "waiting" for SIGTERM, "exited", "crashed"
    term,       \* SIGTERM has been received
    endpoint,   \* this.endpoint: index of the endpoint to try next
    client,     \* the generation that made this.client; NoGen while it is nil
    broker,     \* the broker of this.client
    connected,  \* this.client has a connection
    phase,      \* where each generation is
    cancelled,  \* generations whose context is cancelled
    values,     \* this.values
    pending,    \* publications whose goroutine has not run yet, a bag
    published,  \* the last value of each tag a broker received
    reachable,  \* brokers that accept connections
    steady,     \* history: brokers reachable ever since the last generation began
    flips, news \* counters for the bounds

envVars == <<reachable, flips>>
vars == <<periodic, main, term, endpoint, client, broker, connected, phase, cancelled,
          values, pending, published, steady, news, envVars>>

Phase == {"idle",        \* not begun
          "lost",        \* the library calls the handler of the lost connection
          "connecting",  \* about to try an endpoint
          "dialing",     \* in Connect
          "spawning",    \* connected, `go this.run(cctx)' is next
          "looping",     \* the publish loop runs
          "over"}

Pubs == Tag \X Value

TypeOK ==
    /\ periodic \in BOOLEAN
    /\ main \in {"running", "waiting", "exited", "crashed"}
    /\ term \in BOOLEAN
    /\ endpoint \in 0..Endpoints
    /\ client \in Gen \cup {NoGen}
    /\ broker \in Broker
    /\ connected \in BOOLEAN
    /\ phase \in [Gen -> Phase]
    /\ cancelled \subseteq Gen
    /\ values \in [Tag -> Value]
    /\ pending \in [Pubs -> 0..MaxPending]
    /\ published \in [Tag -> Value]
    /\ reachable \subseteq Broker
    /\ steady \subseteq Broker
    /\ flips \in 0..MaxFlips /\ news \in 0..MaxStatus

\* Configure and the beginning of Run, up to connectAndRun.
Init ==
    /\ periodic \in BOOLEAN
    /\ main = "running"
    /\ term = FALSE
    /\ endpoint = 0
    /\ client = NoGen
    /\ broker = 0
    /\ connected = FALSE
    /\ phase = [g \in Gen |-> IF g = 1 THEN "connecting" ELSE "idle"]
    /\ cancelled = {}
    /\ values = [t \in Tag |-> Zero]
    /\ pending = [p \in Pubs |-> 0]
    /\ published = [t \in Tag |-> Zero]
    /\ reachable \in SUBSET Broker
    /\ steady = reachable
    /\ flips = 0 /\ news = 0

Up == main \in {"running", "waiting"}

-----------------------------------------------------------------------------
(* connectAndRun, connect and the handler of a lost connection.            *)

\* Mutant: the index is not moved on.
DialSame(g) ==
    /\ Up
    /\ phase[g] = "connecting"
    /\ broker' = endpoint
    /\ endpoint' = endpoint
    /\ client' = g
    /\ connected' = FALSE
    /\ phase' = [phase EXCEPT ![g] = "dialing"]
    /\ UNCHANGED <<periodic, main, term, cancelled, values, pending, published, steady, news, envVars>>

\* connect, up to the new client that replaces the old one.
Dial(g) ==
    /\ Up
    /\ phase[g] = "connecting"
    /\ LET i == IF endpoint = Endpoints THEN 0 ELSE endpoint
       IN broker' = i /\ endpoint' = i + 1
    /\ client' = g
    /\ connected' = FALSE
    /\ phase' = [phase EXCEPT ![g] = "dialing"]
    /\ UNCHANGED <<periodic, main, term, cancelled, values, pending, published, steady, news, envVars>>

\* Connect returns; after an error the loop sleeps and tries again.
DialResult(g) ==
    /\ Up
    /\ phase[g] = "dialing"
    /\ connected' = (broker \in reachable)
    /\ phase' = [phase EXCEPT ![g] = IF broker \in reachable THEN "spawning" ELSE "connecting"]
    /\ UNCHANGED <<periodic, main, term, endpoint, client, broker, cancelled, values, pending,
                   published, steady, news, envVars>>

\* Mutant: run is called, not started as a goroutine.
SpawnSync(g) ==
    /\ Up
    /\ phase[g] = "spawning"
    /\ phase' = [phase EXCEPT ![g] = IF periodic THEN "looping" ELSE "over"]
    /\ main' = IF g = 1 /\ ~periodic THEN "waiting" ELSE main
    /\ UNCHANGED <<periodic, term, endpoint, client, broker, connected, cancelled, values, pending,
                   published, steady, news, envVars>>

\* `go this.run(cctx)'; run returns at once without a period.  For the first generation
\* Run returns too, and main waits for SIGTERM.
Spawn(g) ==
    /\ Up
    /\ phase[g] = "spawning"
    /\ phase' = [phase EXCEPT ![g] = IF periodic THEN "looping" ELSE "over"]
    /\ main' = IF g = 1 THEN "waiting" ELSE main
    /\ UNCHANGED <<periodic, term, endpoint, client, broker, connected, cancelled, values, pending,
                   published, steady, news, envVars>>

\* The library notices that the connection is gone, perhaps before connectAndRun went on.
ConnectionLost(g) ==
    /\ Up
    /\ g + 1 \in Gen
    /\ client = g
    /\ connected
    /\ connected' = FALSE
    /\ phase' = [phase EXCEPT ![g + 1] = "lost"]
    /\ UNCHANGED <<periodic, main, term, endpoint, client, broker, cancelled, values, pending,
                   published, steady, news, envVars>>

\* Mutant: cancel is not called.
HandleLostNoCancel(g) ==
    /\ Up
    /\ phase[g] = "lost"
    /\ cancelled' = cancelled
    /\ phase' = [phase EXCEPT ![g] = "connecting"]
    /\ steady' = reachable
    /\ UNCHANGED <<periodic, main, term, endpoint, client, broker, connected, values, pending,
                   published, news, envVars>>

\* The handler: cancel() and connectAndRun.
HandleLost(g) ==
    /\ Up
    /\ phase[g] = "lost"
    /\ cancelled' = cancelled \cup {g - 1}
    /\ phase' = [phase EXCEPT ![g] = "connecting"]
    /\ steady' = reachable
    /\ UNCHANGED <<periodic, main, term, endpoint, client, broker, connected, values, pending,
                   published, news, envVars>>

-----------------------------------------------------------------------------
(* run, publish and handleMsgBusStatus.                                    *)

Room(ps) == \A p \in ps : pending[p] < MaxPending

Launch(ps) == pending' = [p \in Pubs |-> IF p \in ps THEN pending[p] + 1 ELSE pending[p]]

\* Mutant: the values are those of the start of the module.
TickSnapshot(g) ==
    /\ Up
    /\ phase[g] = "looping"
    /\ LET ps == {<<t, Zero>> : t \in Tag} IN Room(ps) /\ Launch(ps)
    /\ UNCHANGED <<periodic, main, term, endpoint, client, broker, connected, phase, cancelled,
                   values, published, steady, news, envVars>>

\* A tick starts a publication of every tag.  When the context is done as well, select
\* may still choose the tick.
Tick(g) ==
    /\ Up
    /\ phase[g] = "looping"
    /\ LET ps == {<<t, values[t]>> : t \in Tag} IN Room(ps) /\ Launch(ps)
    /\ UNCHANGED <<periodic, main, term, endpoint, client, broker, connected, phase, cancelled,
                   values, published, steady, news, envVars>>

\* <-ctx.Done(): the connection is lost or SIGTERM was received.
StopLoop(g) ==
    /\ Up
    /\ phase[g] = "looping"
    /\ g \in cancelled \/ term
    /\ phase' = [phase EXCEPT ![g] = "over"]
    /\ UNCHANGED <<periodic, main, term, endpoint, client, broker, connected, cancelled,
                   values, pending, published, steady, news, envVars>>

\* The goroutine of a publication uses the client there is when it runs: it panics if
\* there is none, and what it publishes without a connection is lost.
Publish(p) ==
    /\ Up
    /\ pending[p] > 0
    /\ pending' = [pending EXCEPT ![p] = @ - 1]
    /\ main' = IF client = NoGen THEN "crashed" ELSE main
    /\ published' = IF connected THEN [published EXCEPT ![p[1]] = p[2]] ELSE published
    /\ UNCHANGED <<periodic, term, endpoint, client, broker, connected, phase, cancelled,
                   values, steady, news, envVars>>

\* The tags of the module that a Status names are set under the lock.
Status ==
    /\ Up
    /\ news < MaxStatus
    /\ news' = news + 1
    /\ \E S \in (SUBSET Tag) \ {{}} : \E m \in [S -> Value] :
          LET ps == {<<t, m[t]>> : t \in S}
          IN /\ values' = [t \in Tag |-> IF t \in S THEN m[t] ELSE values[t]]
             /\ IF periodic THEN UNCHANGED pending ELSE Room(ps) /\ Launch(ps)
    /\ UNCHANGED <<periodic, main, term, endpoint, client, broker, connected, phase, cancelled,
                   published, steady, envVars>>

-----------------------------------------------------------------------------
(* The process (go/cmd/ot-sim-mqtt-module/main.go) and the brokers.        *)

Sigterm ==
    /\ Up
    /\ ~term
    /\ term' = TRUE
    /\ UNCHANGED <<periodic, main, endpoint, client, broker, connected, phase, cancelled,
                   values, pending, published, steady, news, envVars>>

\* main returns from <-ctx.Done(), which it reaches only when otsim.Start has returned.
Exit ==
    /\ main = "waiting"
    /\ term
    /\ main' = "exited"
    /\ UNCHANGED <<periodic, term, endpoint, client, broker, connected, phase, cancelled,
                   values, pending, published, steady, news, envVars>>

BrokerChanges(b) ==
    /\ Up
    /\ flips < MaxFlips
    /\ flips' = flips + 1
    /\ reachable' = IF b \in reachable THEN reachable \ {b} ELSE reachable \cup {b}
    /\ steady' = steady \cap reachable'
    /\ UNCHANGED <<periodic, main, term, endpoint, client, broker, connected, phase, cancelled,
                   values, pending, published, news>>

Connecting(g) == Dial(g) \/ DialResult(g) \/ Spawn(g) \/ HandleLost(g)

Next ==
    \/ \E g \in Gen : Connecting(g) \/ ConnectionLost(g) \/ Tick(g) \/ StopLoop(g)
    \/ \E p \in Pubs : Publish(p)
    \/ Status \/ Sigterm \/ Exit
    \/ \E b \in Broker : BrokerChanges(b)

\* Goroutines that can run do run, tickers tick, main returns.  Nothing is assumed of the
\* brokers, of Status messages and of SIGTERM.
Fairness ==
    /\ \A g \in Gen : WF_vars(Connecting(g)) /\ WF_vars(Tick(g)) /\ WF_vars(StopLoop(g))
    /\ \A p \in Pubs : WF_vars(Publish(p))
    /\ WF_vars(Exit)

Spec == Init /\ [][Next]_vars
FairSpec == Spec /\ Fairness

-----------------------------------------------------------------------------
(* Properties.                                                             *)

\* At most one publish loop runs whose context is not cancelled, however fast connections
\* are lost and made again (mqtt.go:196-209, 335-343).
OneLoop ==
    \A g, h \in Gen :
        phase[g] = "looping" /\ phase[h] = "looping" /\ {g, h} \cap cancelled = {} => g = h

\* A publication finds no client only when the module publishes every Status at once and
\* one arrives before the first attempt to connect (mqtt.go:187-191, 236, 296).
NilClientOnlyAtStart ==
    main = "crashed" => ~periodic /\ client = NoGen /\ phase[1] = "connecting"

\* mqtt.go:26: the first connection is made to the first endpoint of the list that could
\* be reached all the time.
PriorityAtStart == connected /\ client = 1 => \A b \in steady : broker <= b

\* The types, with the index of the endpoint within the list (mqtt.go:213-218), one loop
\* (mqtt.go:339), a client for every publication after the start (mqtt.go:236) and the
\* order of the endpoints at the start (mqtt.go:26).
MQTTInv == TypeOK /\ OneLoop /\ NilClientOnlyAtStart /\ PriorityAtStart

\* A module with a broker that stays reachable gets a connection and, if connections are
\* not lost for ever, keeps one (mqtt.go:200-206, 213-218).
Reconnects == (<>[](reachable # {})) => (<>[](connected \/ ~Up))

\* With a period, publications that overtake each other are corrected: while the
\* connection lasts the broker comes to hold the latest values (mqtt.go:263-270).
BrokerCatchesUp ==
    (periodic /\ <>[](Up /\ connected /\ ~term)) => <>[](published = values)

\* SIGTERM ends the module if it can reach a broker: before the first connection
\* otsim.Start does not return and main does not look at the signal (ot-sim.go:88,
\* mqtt.go:191).
TermEnds == (<>[](reachable # {})) => (term ~> ~Up)
=============================================================================

------------------------------ MODULE CPUProofs ------------------------------
(***************************************************************************)
(* Proofs about the two kinds of messages the CPU handles itself: module   *)
(* control on INTERNAL (ModuleControl), for every set of requests and      *)
(* faults, and metrics on HEALTH (Health), for every set of modules,       *)
(* metrics, names and topics.                                              *)
(***************************************************************************)
EXTENDS ModuleControl, Health, SequenceTheorems, TLAPS

-----------------------------------------------------------------------------
(* Queues in which nothing occurs twice.                                   *)

In(q, r) == \E i \in 1..Len(q) : q[i] = r
Distinct(q) == \A i, j \in 1..Len(q) : q[i] = q[j] => i = j

LEMMA AppendQueue ==
    ASSUME NEW q \in Seq(Request), NEW x \in Request
    PROVE  /\ \A r : In(Append(q, x), r) <=> In(q, r) \/ r = x
           /\ Distinct(q) /\ ~In(q, x) => Distinct(Append(q, x))
<1> DEFINE n == Len(q)
           p == Append(q, x)
<1>1. n \in Nat /\ Len(p) = n + 1 /\ p[n + 1] = x /\ \A i \in 1..n : p[i] = q[i]
  OBVIOUS
<1> HIDE DEF n, p
<1>2. \A r : In(p, r) <=> In(q, r) \/ r = x
  BY <1>1 DEF In, n
<1>3. Distinct(q) /\ ~In(q, x) => Distinct(p)
  BY <1>1 DEF In, Distinct, n
<1> QED
  BY <1>2, <1>3 DEF p

LEMMA TailQueue ==
    ASSUME NEW q \in Seq(Request), q # <<>>
    PROVE  /\ In(q, Head(q)) /\ Head(q) \in Request /\ Tail(q) \in Seq(Request)
           /\ \A r : In(Tail(q), r) => In(q, r)
           /\ Distinct(q) => Distinct(Tail(q)) /\ ~In(Tail(q), Head(q))
<1> DEFINE n == Len(q)
           p == Tail(q)
           h == Head(q)
<1>1. /\ n \in Nat \ {0} /\ Len(p) = n - 1 /\ h = q[1] /\ \A i \in 1..(n - 1) : p[i] = q[i + 1]
      /\ h \in Request /\ p \in Seq(Request)
  OBVIOUS
<1> HIDE DEF n, p, h
<1>2. In(q, h)
  BY <1>1 DEF In, n
<1>3. \A r : In(p, r) => In(q, r)
  <2> SUFFICES ASSUME NEW r, NEW i \in 1..Len(p), p[i] = r
               PROVE  In(q, r)
    BY DEF In
  <2>1. i + 1 \in 1..n /\ q[i + 1] = r
    BY <1>1
  <2> QED
    BY <2>1 DEF In, n
<1>4. Distinct(q) => Distinct(p)
  <2> SUFFICES ASSUME Distinct(q), NEW i \in 1..Len(p), NEW j \in 1..Len(p), p[i] = p[j]
               PROVE  i = j
    BY DEF Distinct
  <2>1. i + 1 \in 1..n /\ j + 1 \in 1..n /\ q[i + 1] = q[j + 1]
    BY <1>1
  <2>2. i + 1 = j + 1
    BY <2>1 DEF Distinct, n
  <2> QED
    BY <1>1, <2>2
<1>5. Distinct(q) => ~In(p, h)
  <2> SUFFICES ASSUME Distinct(q), NEW i \in 1..Len(p), p[i] = h
               PROVE  FALSE
    BY DEF In
  <2>1. i + 1 \in 1..n /\ 1 \in 1..n /\ q[i + 1] = q[1]
    BY <1>1
  <2>2. i + 1 = 1
    BY <2>1 DEF Distinct, n
  <2> QED
    BY <1>1, <2>2
<1> QED
  BY <1>1, <1>2, <1>3, <1>4, <1>5 DEF p, h

-----------------------------------------------------------------------------
(* The inductive invariant: where a request is tells what has happened to   *)
(* it.                                                                     *)

Located(r) ==
    /\ In(toCpu, r) => r \notin served
    /\ In(toTelnet, r) => r \in served /\ sending # r
    /\ sending = r => r \in served
    /\ session[r] \in {"new", "failed"} => ~In(toCpu, r) /\ r \notin served
    /\ session[r] = "answered" => r \in served /\ ~In(toTelnet, r) /\ sending # r

Queues == Distinct(toCpu) /\ Distinct(toTelnet)

IInv == TypeOK /\ Queues /\ \A r \in Request : Located(r)

LEMMA ControlInit == Init => IInv
<1> SUFFICES ASSUME Init
             PROVE  IInv
  OBVIOUS
<1>1. TypeOK
  BY DEF Init, TypeOK, SessionState
<1>2. Queues /\ \A r : ~In(toCpu, r) /\ ~In(toTelnet, r)
  BY DEF Init, Queues, Distinct, In
<1>3. \A r \in Request : Located(r)
  BY <1>2, RequestAssumption DEF Init, Located
<1> QED
  BY <1>1, <1>2, <1>3 DEF IInv

LEMMA ControlStep == IInv /\ [Next]_vars => IInv'
<1> SUFFICES ASSUME IInv, [Next]_vars
             PROVE  IInv'
  OBVIOUS
<1>0. /\ TypeOK /\ Queues /\ \A r \in Request : Located(r)
      /\ toCpu \in Seq(Request) /\ toTelnet \in Seq(Request) /\ session \in [Request -> SessionState]
  BY DEF IInv, TypeOK
<1>1. ASSUME NEW r \in Request, Ask(r)
      PROVE  IInv'
  <2>1. session[r] = "new" /\ UNCHANGED <<served, internal, toTelnet, sending, telnet, lost>>
    BY <1>1 DEF Ask
  <2>2. ~In(toCpu, r) /\ r \notin served
    BY <1>0, <2>1 DEF Located
  <2>3. CASE toCpu' = Append(toCpu, r) /\ session' = [session EXCEPT ![r] = "waiting"]
    <3>1. TypeOK'
      BY <1>0, <1>1, <2>3 DEF Ask, TypeOK, SessionState
    <3>2. Queues' /\ \A q : In(toCpu, q)' => In(toCpu, q) \/ q = r
      BY <1>0, <2>1, <2>2, <2>3, AppendQueue DEF Queues
    <3>3. ASSUME NEW q \in Request
          PROVE  Located(q)'
      <4>1. Located(q) /\ (In(toTelnet, q)' <=> In(toTelnet, q))
        BY <1>0, <2>1
      <4>2. session'[q] = IF q = r THEN "waiting" ELSE session[q]
        BY <1>0, <2>3
      <4> QED
        BY <2>1, <2>2, <3>2, <4>1, <4>2 DEF Located
    <3> QED
      BY <3>1, <3>2, <3>3 DEF IInv
  <2>4. CASE UNCHANGED toCpu /\ session' = [session EXCEPT ![r] = "failed"]
    <3>1. TypeOK'
      BY <1>0, <1>1, <2>4 DEF Ask, TypeOK, SessionState
    <3>2. ASSUME NEW q \in Request
          PROVE  Located(q)'
      <4>1. /\ Located(q) /\ (In(toTelnet, q)' <=> In(toTelnet, q))
            /\ In(toCpu, q)' <=> In(toCpu, q)
        BY <1>0, <2>1, <2>4
      <4>2. session'[q] = IF q = r THEN "failed" ELSE session[q]
        BY <1>0, <2>4
      <4> QED
        BY <2>1, <2>2, <4>1, <4>2 DEF Located
    <3> QED
      BY <1>0, <2>1, <2>4, <3>1, <3>2 DEF IInv, Queues
  <2> QED
    BY <1>1, <2>3, <2>4 DEF Ask
<1>2. ASSUME NEW r \in Request, Timeout(r)
      PROVE  IInv'
  <2>1. TypeOK'
    BY <1>0, <1>2 DEF Timeout, TypeOK, SessionState
  <2>2. ASSUME NEW q \in Request
        PROVE  Located(q)'
    <3>1. Located(q) /\ session'[q] = IF q = r THEN "timedout" ELSE session[q]
      BY <1>0, <1>2 DEF Timeout
    <3> QED
      BY <1>2, <3>1 DEF Timeout, Located
  <2> QED
    BY <1>0, <1>2, <2>1, <2>2 DEF IInv, Queues, Timeout
<1>3. CASE Serve
  <2>1. toCpu # <<>> /\ toCpu' = Tail(toCpu) /\ UNCHANGED <<session, registered, sending, telnet, lost>>
    BY <1>3 DEF Serve
  <2>2. PICK h : h = Head(toCpu)
    OBVIOUS
  <2>3. /\ h \in Request /\ In(toCpu, h) /\ ~In(toCpu, h)' /\ Distinct(toCpu)' /\ toCpu' \in Seq(Request)
        /\ \A q : In(toCpu, q)' => In(toCpu, q)
    BY <1>0, <2>1, <2>2, TailQueue DEF Queues
  <2>4. h \notin served /\ ~In(toTelnet, h) /\ sending # h
    BY <1>0, <2>3 DEF Located
  <2>5. /\ Distinct(toTelnet)' /\ toTelnet' \in Seq(Request)
        /\ \A q : In(toTelnet, q)' => In(toTelnet, q) \/ q = h
    <3>1. CASE toTelnet' = Append(toTelnet, h)
      BY <1>0, <2>3, <2>4, <3>1, AppendQueue DEF Queues
    <3>2. CASE UNCHANGED toTelnet
      BY <1>0, <3>2 DEF Queues
    <3> QED
      BY <1>3, <2>2, <3>1, <3>2 DEF Serve
  <2>6. TypeOK'
    BY <1>0, <1>3, <2>1, <2>2, <2>3, <2>5 DEF Serve, TypeOK
  <2>7. served' = served \cup {h}
    BY <1>3, <2>2 DEF Serve
  <2>8. ASSUME NEW q \in Request
        PROVE  Located(q)'
    BY <1>0, <2>1, <2>3, <2>4, <2>5, <2>7 DEF Located
  <2> QED
    BY <2>3, <2>5, <2>6, <2>8 DEF IInv, Queues
<1>4. CASE Dispatch
  <2>1. /\ sending = None /\ toTelnet # <<>> /\ toTelnet' = Tail(toTelnet)
        /\ UNCHANGED <<session, registered, toCpu, served, internal, telnet, lost>>
    BY <1>4 DEF Dispatch
  <2>2. PICK h : h = Head(toTelnet)
    OBVIOUS
  <2>3. /\ h \in Request /\ In(toTelnet, h) /\ ~In(toTelnet, h)' /\ Distinct(toTelnet)'
        /\ toTelnet' \in Seq(Request) /\ \A q : In(toTelnet, q)' => In(toTelnet, q)
    BY <1>0, <2>1, <2>2, TailQueue DEF Queues
  <2>4. sending' \in {h, None}
    BY <1>4, <2>2 DEF Dispatch
  <2>5. TypeOK'
    BY <1>0, <2>1, <2>3, <2>4 DEF TypeOK
  <2>6. ASSUME NEW q \in Request
        PROVE  Located(q)'
    <3>1. Located(q) /\ Located(h) /\ q # None /\ (In(toCpu, q)' <=> In(toCpu, q))
      BY <1>0, <2>1, <2>3, RequestAssumption
    <3> QED
      BY <2>1, <2>3, <2>4, <3>1 DEF Located
  <2> QED
    BY <1>0, <2>1, <2>3, <2>5, <2>6 DEF IInv, Queues
<1>5. ASSUME NEW r \in Request, Deliver(r)
      PROVE  IInv'
  <2>1. /\ sending = r /\ sending' = None /\ session' = [session EXCEPT ![r] = "answered"]
        /\ UNCHANGED <<toCpu, served, internal, toTelnet, telnet, lost>>
    BY <1>5 DEF Deliver
  <2>2. TypeOK'
    BY <1>0, <1>5, <2>1 DEF Deliver, TypeOK, SessionState
  <2>3. ASSUME NEW q \in Request
        PROVE  Located(q)'
    <3>1. /\ Located(q) /\ q # None /\ (In(toCpu, q)' <=> In(toCpu, q))
          /\ In(toTelnet, q)' <=> In(toTelnet, q)
      BY <1>0, <2>1, RequestAssumption
    <3>2. session'[q] = IF q = r THEN "answered" ELSE session[q]
      BY <1>0, <2>1
    <3> QED
      BY <2>1, <3>1, <3>2 DEF Located
  <2> QED
    BY <1>0, <2>1, <2>2, <2>3 DEF IInv, Queues
<1>6. CASE Lose
  <2>1. UNCHANGED <<session, registered, served, internal, sending, telnet>>
    BY <1>6 DEF Lose
  <2>2. /\ (Distinct(toCpu) /\ Distinct(toTelnet))'
        /\ toCpu' \in Seq(Request) /\ toTelnet' \in Seq(Request) /\ lost' \subseteq Request
        /\ \A q : (In(toCpu, q)' => In(toCpu, q)) /\ (In(toTelnet, q)' => In(toTelnet, q))
    <3>1. CASE /\ toCpu # <<>> /\ toCpu' = Tail(toCpu) /\ UNCHANGED toTelnet
               /\ lost' = lost \cup {Head(toCpu)}
      BY <1>0, <3>1, TailQueue DEF Queues, TypeOK
    <3>2. CASE /\ toTelnet # <<>> /\ toTelnet' = Tail(toTelnet) /\ UNCHANGED toCpu
               /\ lost' = lost \cup {Head(toTelnet)}
      BY <1>0, <3>2, TailQueue DEF Queues, TypeOK
    <3> QED
      BY <1>6, <3>1, <3>2 DEF Lose
  <2>3. TypeOK'
    BY <1>0, <2>1, <2>2 DEF TypeOK
  <2>4. ASSUME NEW q \in Request
        PROVE  Located(q)'
    BY <1>0, <2>1, <2>2 DEF Located
  <2> QED
    BY <2>2, <2>3, <2>4 DEF IInv, Queues
<1>7. CASE Garbage \/ \E r \in Request : MapRace(r)
  <2>1. /\ UNCHANGED <<session, registered, toCpu, served, toTelnet, sending, lost>>
        /\ internal' \in BOOLEAN /\ telnet' \in BOOLEAN
    BY <1>0, <1>7 DEF Garbage, MapRace, TypeOK
  <2> QED
    BY <1>0, <2>1 DEF IInv, TypeOK, Queues, Located
<1>8. CASE UNCHANGED vars
  BY <1>0, <1>8 DEF vars, IInv, TypeOK, Queues, Located
<1> QED
  BY <1>1, <1>2, <1>3, <1>4, <1>5, <1>6, <1>7, <1>8 DEF Next, Subscriber

-----------------------------------------------------------------------------
\* For every set of requests, whatever is lost, times out or ends: a request is in one
\* place at a time, it is carried out and confirmed at most once, its session is told a
\* result only after the CPU carried it out (internal.go:22-90), and only a session that
\* gave up can block the subscriber (subscriber.go:135).
THEOREM ControlCorrect == Spec => []ControlInv
<1>1. IInv => ControlInv
  <2> SUFFICES ASSUME IInv
               PROVE  ControlInv
    OBVIOUS
  <2>1. TypeOK /\ Queues /\ \A r \in Request : Located(r)
    BY DEF IInv
  <2>2. StuckOnlyByTimeout
    <3> SUFFICES ASSUME sending # None, session[sending] # "waiting"
                 PROVE  session[sending] = "timedout"
      BY DEF StuckOnlyByTimeout, Stuck
    <3>1. sending \in Request /\ Located(sending) /\ session[sending] \in SessionState
      BY <2>1 DEF TypeOK
    <3> QED
      BY <3>1 DEF Located, SessionState
  <2>3. OnceOnly
    <3> SUFFICES ASSUME NEW r \in Request
                 PROVE  LET on(q) == {i \in 1..Len(q) : q[i] = r}
                            places == {<<"cpu", i>> : i \in on(toCpu)}
                                      \cup {<<"telnet", i>> : i \in on(toTelnet)}
                                      \cup (IF sending = r THEN {<<"sending", 0>>} ELSE {})
                        IN /\ \A p, q \in places : p = q
                           /\ on(toCpu) # {} => r \notin served
                           /\ session[r] = "answered" => r \in served /\ places = {}
      BY DEF OnceOnly
    <3> DEFINE onCpu == {i \in 1..Len(toCpu) : toCpu[i] = r}
               onTelnet == {i \in 1..Len(toTelnet) : toTelnet[i] = r}
    <3>1. /\ \A i, j \in onCpu : i = j
          /\ \A i, j \in onTelnet : i = j
      BY <2>1 DEF Queues, Distinct
    <3>2. (onCpu # {} <=> In(toCpu, r)) /\ (onTelnet # {} <=> In(toTelnet, r))
      BY DEF In
    <3>3. /\ onCpu # {} => r \notin served
          /\ onTelnet # {} => r \in served /\ sending # r
          /\ sending = r => r \in served
          /\ session[r] = "answered" => r \in served /\ onTelnet = {} /\ sending # r
      BY <2>1, <3>2 DEF Located
    <3> HIDE DEF onCpu, onTelnet
    <3> DEFINE places == {<<"cpu", i>> : i \in onCpu} \cup {<<"telnet", i>> : i \in onTelnet}
                         \cup (IF sending = r THEN {<<"sending", 0>>} ELSE {})
    <3>4. \A p, q \in places : p = q
      <4>1. CASE onCpu # {}
        BY <3>1, <3>3, <4>1
      <4>2. CASE onCpu = {}
        BY <3>1, <3>3, <4>2
      <4> QED
        BY <4>1, <4>2
    <3>5. session[r] = "answered" => r \in served /\ places = {}
      BY <3>3
    <3> QED
      BY <3>3, <3>4, <3>5 DEF onCpu, onTelnet
  <2> QED
    BY <2>1, <2>2, <2>3 DEF ControlInv
<1> QED
  BY <1>1, ControlInit, ControlStep, PTL DEF Spec

-----------------------------------------------------------------------------
(* Metrics.  HealthInv is inductive by itself: a metric that is registered *)
(* is new while the one that has its name is known or is another new one,  *)
(* so the two differ, and no message holds a counter below zero.           *)

\* The smaller of two numbers is no larger than the first.
LEMMA LeastType ==
    ASSUME NEW a \in Nat, NEW b \in Nat
    PROVE  Least(a, b) \in 0..a
  BY DEF Least

\* The invariant holds initially.
LEMMA InitHealthInv == HealthInit => HealthInv
<1> SUFFICES ASSUME HealthInit PROVE HealthInv
  OBVIOUS
<1>1. shown \in [known -> 0..Cap]
  BY DEF HealthInit
<1>2. value \in [Metric -> 0..MaxCount] /\ faults \in 0..MaxFaults /\ restarts \in 0..MaxRestarts
  BY HealthAssumption DEF HealthInit
<1> QED
  BY <1>1, <1>2 DEF HealthInit, HealthInv, HealthTypeOK, CrashOnlyByName

\* The handler shows numbers up to the cap for the metrics it knows afterwards.
LEMMA HandlerTypes ==
    ASSUME HealthTypeOK, NEW m \in Module, MetricsHandler(m), ~Panics(m)
    PROVE  known' \subseteq Metric /\ shown' \in [known' -> 0..Cap]
<1>1. inflight[m] \in [Owned(m) -> 0..MaxCount]
  BY DEF HealthTypeOK, MetricsHandler
<1>2. known' = known \cup Owned(m) /\ Owned(m) \subseteq Metric
  BY DEF MetricsHandler, Kept, Fresh, Owned
<1>3. ASSUME NEW x \in Owned(m) PROVE Updated(m, x) \in 0..Cap
  <2>1. inflight[m][x] \in Nat
    BY <1>1, HealthAssumption
  <2>2. x \in known => shown[x] \in Nat
    BY HealthAssumption DEF HealthTypeOK
  <2>3. (IF x \in Counter \cap known THEN shown[x] ELSE 0) + inflight[m][x] \in Nat
    BY <2>1, <2>2
  <2> QED
    BY <2>3, LeastType, HealthAssumption DEF Updated
<1>4. shown' = [x \in known \cup Owned(m) |-> IF x \in Owned(m) THEN Updated(m, x) ELSE shown[x]]
  BY DEF MetricsHandler
<1>5. \A x \in known \cup Owned(m) : (IF x \in Owned(m) THEN Updated(m, x) ELSE shown[x]) \in 0..Cap
  BY <1>3 DEF HealthTypeOK
<1> QED
  BY <1>2, <1>4, <1>5 DEF HealthTypeOK

\* Every step preserves the invariant.
LEMMA NextHealthInv == HealthInv /\ [HealthNext]_healthVars => HealthInv'
<1> SUFFICES ASSUME HealthInv, [HealthNext]_healthVars PROVE HealthInv'
  OBVIOUS
<1> USE HealthAssumption DEF HealthInv, CrashOnlyByName
<1>1. ASSUME NEW x \in Metric, NEW n \in 1..MaxCount, IncrMetricBy(x, n) PROVE HealthInv'
  <2>1. value' \in [Metric -> 0..MaxCount]
    BY <1>1 DEF IncrMetricBy, HealthTypeOK
  <2> QED
    BY <1>1, <2>1 DEF IncrMetricBy, HealthTypeOK
<1>2. ASSUME NEW x \in Metric, NEW v \in 0..MaxCount, SetMetric(x, v) PROVE HealthInv'
  BY <1>2 DEF SetMetric, HealthTypeOK
<1>3. ASSUME NEW m \in Module, ModuleRestart(m) PROVE HealthInv'
  <2>1. value' \in [Metric -> 0..MaxCount]
    BY <1>3 DEF ModuleRestart, HealthTypeOK
  <2> QED
    BY <1>3, <2>1 DEF ModuleRestart, HealthTypeOK
<1>4. ASSUME NEW m \in Module, Push(m) PROVE HealthInv'
  <2>1. [x \in Owned(m) |-> value[x]] \in [Owned(m) -> 0..MaxCount]
    BY DEF Owned, HealthTypeOK
  <2>2. \A n \in Module : inflight'[n] = NoMessage \/ inflight'[n] \in [Owned(n) -> 0..MaxCount]
    BY <1>4, <2>1 DEF Push, HealthTypeOK
  <2> QED
    BY <1>4, <2>2 DEF Push, HealthTypeOK
<1>5. ASSUME NEW m \in Module, MetricsHandler(m) PROVE HealthInv'
  <2>1. \A n \in Module : inflight'[n] = NoMessage \/ inflight'[n] \in [Owned(n) -> 0..MaxCount]
    BY <1>5 DEF MetricsHandler, HealthTypeOK
  <2>2. CASE Panics(m)
    <3>1. \/ \E x, y \in Metric : x # y /\ naming[x] = naming[y]
          \/ \E x \in Metric : naming[x] \notin Legal
      <4>1. inflight[m] \in [Owned(m) -> 0..MaxCount]
        BY <1>5 DEF MetricsHandler, HealthTypeOK
      <4>2. \A x \in Owned(m) \cap Counter : ~(inflight[m][x] < 0)
        BY <4>1
      <4> QED
        BY <2>2, <4>2 DEF Panics, Fresh, Owned, HealthTypeOK
    <3>2. crashed' = TRUE /\ UNCHANGED <<known, shown>>
      BY <1>5, <2>2 DEF MetricsHandler
    <3> QED
      BY <1>5, <2>1, <3>1, <3>2 DEF MetricsHandler, HealthTypeOK
  <2>3. CASE ~Panics(m)
    <3>1. known' \subseteq Metric /\ shown' \in [known' -> 0..Cap]
      BY <1>5, <2>3, HandlerTypes
    <3>2. UNCHANGED crashed
      BY <1>5, <2>3 DEF MetricsHandler
    <3> QED
      BY <1>5, <2>1, <3>1, <3>2 DEF MetricsHandler, HealthTypeOK
  <2> QED
    BY <2>2, <2>3
<1>6. ASSUME NEW t \in Topic, MonitorFails(t) PROVE HealthInv'
  <2>1. \A n \in Module : inflight'[n] = NoMessage \/ inflight'[n] \in [Owned(n) -> 0..MaxCount]
    BY <1>6 DEF MonitorFails, HealthTypeOK
  <2>2. mon' \in [Topic -> {"running", "failing", "ended"}]
    BY <1>6 DEF MonitorFails, HealthTypeOK
  <2>3. DOMAIN inflight' = Module /\ faults' \in 0..MaxFaults
    BY <1>6 DEF MonitorFails, HealthTypeOK
  <2> QED
    BY <1>6, <2>1, <2>2, <2>3 DEF MonitorFails, HealthTypeOK
<1>7. ASSUME NEW t \in Topic, StartAgain(t) \/ MonitorReturns(t) PROVE HealthInv'
  BY <1>7 DEF StartAgain, MonitorReturns, HealthTypeOK
<1>8. CASE Terminate
  BY <1>8 DEF Terminate, HealthTypeOK
<1>9. CASE StopWatching
  BY <1>9 DEF StopWatching, HealthTypeOK
<1>10. CASE UNCHANGED healthVars
  BY <1>10 DEF healthVars, HealthTypeOK
<1> QED
  BY <1>1, <1>2, <1>3, <1>4, <1>5, <1>6, <1>7, <1>8, <1>9, <1>10 DEF HealthNext

\* The CPU panics over a metric only because of a name: nameRegex makes one of two, or one
\* that Prometheus does not accept (metrics.go:20).  Modules and monitors that start again
\* never register a metric twice nor lower a counter (metrics.go:41-61).
THEOREM HealthCorrect == HealthSpec => []HealthInv
  BY InitHealthInv, NextHealthInv, PTL DEF HealthSpec
=============================================================================

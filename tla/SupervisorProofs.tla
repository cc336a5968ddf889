-------------------------- MODULE SupervisorProofs --------------------------
(***************************************************************************)
(* Proofs about Supervisor for every set of modules, supervisors, channels *)
(* and handlers, every set of requests and every combination of faults.    *)
(*                                                                         *)
(* TypeOK is not inductive alone: Waiter.Done() keeps the counter natural  *)
(* only because the counter equals the number of live goroutines.  The     *)
(* invariant IInv joins the two with Watched and Assigned; PrivInv adds    *)
(* what the ownership of canceler channels needs.                          *)
(***************************************************************************)
EXTENDS Supervisor, FiniteSetTheorems, TLAPS

\* A live supervisor works for a module of the map.
Assigned == \A s \in Sup : pc[s] # "idle" => mod[s] \in Module

IInv == TypeOK /\ WaiterCounts /\ Watched /\ Assigned

\* Distinct modules hold distinct channels.
CancelersDistinct ==
    \A m, n \in Module : canceler[m] # Nil /\ canceler[m] = canceler[n] => m = n

\* Only a supervisor inside the select statement of execute.go:212 listens on a
\* channel.
SelectOnly == \A s \in Sup : sel[s] # Nil => pc[s] = "select"

PrivInv == CancelersDistinct /\ SelectOnly

-----------------------------------------------------------------------------
(* The wait group counter.                                                 *)

\* Only finitely many supervisor goroutines are live, so they can be counted.
LEMMA LiveFinite == IsFiniteSet(Live)
  BY ConstantsAssumption, FS_Subset DEF Live

\* A goroutine that starts adds one to the number of live ones.
LEMMA SpawnCounts ==
    ASSUME NEW m \in Module, TypeOK, WaiterCounts, Spawn(m)
    PROVE  WaiterCounts'
<1>1. PICK s \in Sup : /\ pc[s] = "idle"
                       /\ pc' = [pc EXCEPT ![s] = "starting"]
                       /\ waiter' = waiter + 1
  BY DEF Spawn
<1>2. Live' = Live \cup {s} /\ s \notin Live
  BY <1>1 DEF Live, TypeOK
<1>3. Cardinality(Live \cup {s}) = Cardinality(Live) + 1
  BY <1>2, LiveFinite, FS_AddElement
<1> QED
  BY <1>1, <1>2, <1>3 DEF WaiterCounts

\* A goroutine that returns was counted, so the counter stays a natural number.
LEMMA ReturnCounts ==
    ASSUME NEW s \in Sup, TypeOK, WaiterCounts, Return(s), pc[s] # "idle"
    PROVE  waiter' \in Nat /\ WaiterCounts'
<1>1. Live' = Live \ {s} /\ s \in Live
  BY DEF Live, TypeOK, Return
<1>2. /\ Cardinality(Live \ {s}) = Cardinality(Live) - 1
      /\ Cardinality(Live) \in Nat
  BY <1>1, LiveFinite, FS_RemoveElement, FS_CardinalityType
<1>3. Cardinality(Live) # 0
  BY <1>1, LiveFinite, FS_EmptySet
<1> QED
  BY <1>1, <1>2, <1>3 DEF WaiterCounts, Return

\* A step that moves no goroutine in or out of "idle" leaves the count alone.
LEMMA SameLive ==
    ASSUME TypeOK, WaiterCounts, waiter' = waiter,
           \A s \in Sup : (pc[s] # "idle") = (pc'[s] # "idle")
    PROVE  WaiterCounts'
<1>1. Live' = Live
  BY DEF Live
<1> QED
  BY <1>1 DEF WaiterCounts

\* When the counter is zero no child process is running unwatched.
LEMMA ZeroMeansStopped ==
    ASSUME IInv, waiter = 0
    PROVE  \A s \in Sup : proc[s] # "running"
<1>1. Live = {}
  BY LiveFinite, FS_EmptySet DEF IInv, WaiterCounts
<1> QED
  BY <1>1 DEF IInv, Watched, Live

-----------------------------------------------------------------------------
(* Requests keep their type.                                               *)

\* The operations of a request message form a sequence of operations.
LEMMA OpsType ==
    ASSUME NEW r \in Control
    PROVE  Ops(r) \in Seq(Op)
<1>1. /\ r.enable \in Seq(Module \cup {NoModule})
      /\ r.disable \in Seq(Module \cup {NoModule})
  BY ConstantsAssumption
<1>2. [i \in 1..Len(r.enable) |-> [op |-> "enable", name |-> r.enable[i]]] \in Seq(Op)
  BY <1>1 DEF Op
<1>3. [i \in 1..Len(r.disable) |-> [op |-> "disable", name |-> r.disable[i]]] \in Seq(Op)
  BY <1>1 DEF Op
<1> QED
  BY <1>2, <1>3 DEF Ops

\* Putting an operation in front of a sequence of them gives a sequence of them.
LEMMA Prepend ==
    ASSUME NEW S, NEW e \in S, NEW q \in Seq(S)
    PROVE  <<e>> \o q \in Seq(S)
  OBVIOUS

\* What a handler does with its request leaves a well-typed rest of it.
LEMMA HandlerSteps ==
    ASSUME TypeOK, NEW h \in Handler, todo[h] # <<>>
    PROVE  /\ Head(todo[h]) \in Op
           /\ Tail(todo[h]) \in Seq(Op)
  BY DEF TypeOK

-----------------------------------------------------------------------------
\* The inductive invariant holds when the CPU process starts.
LEMMA InitIInv == Init => IInv
<1> SUFFICES ASSUME Init PROVE IInv
  OBVIOUS
<1>1. TypeOK
  <2>1. <<>> \in Seq(Op)
    OBVIOUS
  <2>2. todo \in [Handler -> Seq(Op)]
    BY <2>1, Zenon DEF Init
  <2>3. ctxDone \in BOOLEAN
    BY DEF Init
  <2> QED
    BY <2>2, <2>3 DEF Init, TypeOK, MainState, SupState, ProcState
<1>4. Watched /\ Assigned
  BY DEF Init, Watched, Assigned
<1>2. Live = {}
  BY DEF Init, Live
<1>3. WaiterCounts
  BY <1>2, FS_EmptySet DEF Init, WaiterCounts
<1> QED
  BY <1>1, <1>3, <1>4 DEF IInv

\* A new supervisor goroutine is counted, has its module and no process yet.
LEMMA SpawnIInv ==
    ASSUME IInv, NEW m \in Module, Spawn(m)
    PROVE  /\ pc' \in [Sup -> SupState] /\ mod' \in [Sup -> Module \cup {NoModule}]
           /\ waiter' \in Nat /\ WaiterCounts' /\ Watched' /\ Assigned'
           /\ UNCHANGED <<sel, proc>>
<1>1. WaiterCounts'
  BY SpawnCounts DEF IInv
<1>2. /\ pc' \in [Sup -> SupState] /\ mod' \in [Sup -> Module \cup {NoModule}]
      /\ waiter' \in Nat /\ Watched' /\ Assigned' /\ UNCHANGED <<sel, proc>>
  BY DEF Spawn, IInv, TypeOK, Watched, Assigned, SupState
<1> QED
  BY <1>1, <1>2

\* Every step of a supervisor goroutine preserves the inductive invariant.
LEMMA SuperviseIInv ==
    ASSUME IInv, NEW s \in Sup, Supervise(s)
    PROVE  IInv'
<1> USE DEF IInv, MainState, SupState, ProcState, mainVars, chanVars
<1>1. CASE StartProcess(s)
  <2>1. CASE pc' = [pc EXCEPT ![s] = "started"] /\ UNCHANGED <<main, waiter, mod>>
             /\ proc' = [proc EXCEPT ![s] = "running"]
    <3>1. TypeOK' /\ Watched' /\ Assigned'
      BY <1>1, <2>1 DEF StartProcess, TypeOK, Watched, Assigned
    <3>2. WaiterCounts'
      BY <1>1, <2>1, SameLive DEF StartProcess, TypeOK
    <3> QED
      BY <3>1, <3>2
  <2>2. CASE Return(s) /\ UNCHANGED proc
    <3>1. waiter' \in Nat /\ WaiterCounts'
      BY <1>1, <2>2, ReturnCounts DEF StartProcess
    <3>2. TypeOK' /\ Watched' /\ Assigned'
      BY <1>1, <2>2, <3>1 DEF StartProcess, Return, TypeOK, Watched, Assigned
    <3> QED
      BY <3>1, <3>2
  <2> QED
    BY <1>1, <2>1, <2>2 DEF StartProcess
<1>2. CASE MakeCanceler(s)
  <2>1. TypeOK' /\ Watched' /\ Assigned'
    BY <1>2 DEF MakeCanceler, TypeOK, Watched, Assigned, FreeChan
  <2>2. WaiterCounts'
    BY <1>2, SameLive DEF MakeCanceler, TypeOK
  <2> QED
    BY <2>1, <2>2
<1>3. CASE EnterSelect(s)
  <2>0. canceler[mod[s]] \in Chan \cup {Nil}
    BY <1>3 DEF EnterSelect, TypeOK, Assigned
  <2>1. TypeOK' /\ Watched' /\ Assigned'
    BY <1>3, <2>0 DEF EnterSelect, TypeOK, Watched, Assigned
  <2>2. WaiterCounts'
    BY <1>3, SameLive DEF EnterSelect, TypeOK
  <2> QED
    BY <2>1, <2>2
<1>4. CASE ProcessDied(s)
  <2>1. CASE proc[s] = "exited101"
    <3>1. waiter' \in Nat /\ WaiterCounts'
      BY <1>4, <2>1, ReturnCounts DEF ProcessDied
    <3>2. TypeOK' /\ Watched' /\ Assigned'
      BY <1>4, <2>1, <3>1 DEF ProcessDied, Return, TypeOK, Watched, Assigned
    <3> QED
      BY <3>1, <3>2
  <2>2. CASE proc[s] # "exited101"
    <3>1. TypeOK' /\ Watched' /\ Assigned'
      BY <1>4, <2>2 DEF ProcessDied, TypeOK, Watched, Assigned
    <3>2. WaiterCounts'
      BY <1>4, <2>2, SameLive DEF ProcessDied, TypeOK
    <3> QED
      BY <3>1, <3>2
  <2> QED
    BY <2>1, <2>2
<1>5. CASE Cancel(s)
  <2>1. TypeOK' /\ Watched' /\ Assigned'
    BY <1>5 DEF Cancel, TypeOK, Watched, Assigned
  <2>2. WaiterCounts'
    BY <1>5, SameLive DEF Cancel, TypeOK
  <2> QED
    BY <2>1, <2>2
<1>6. CASE Stop(s)
  <2>1. TypeOK' /\ Watched' /\ Assigned'
    BY <1>6 DEF Stop, TypeOK, Watched, Assigned
  <2>2. WaiterCounts'
    BY <1>6, SameLive DEF Stop, TypeOK
  <2> QED
    BY <2>1, <2>2
<1>7. CASE AwaitExit(s)
  <2>1. waiter' \in Nat /\ WaiterCounts'
    BY <1>7, ReturnCounts DEF AwaitExit
  <2>2. TypeOK' /\ Watched' /\ Assigned'
    BY <1>7, <2>1 DEF AwaitExit, Return, TypeOK, Watched, Assigned
  <2> QED
    BY <2>1, <2>2
<1> QED
  BY <1>1, <1>2, <1>3, <1>4, <1>5, <1>6, <1>7 DEF Supervise

\* The end of a child process preserves the inductive invariant.
LEMMA ProcessIInv ==
    ASSUME IInv, NEW s \in Sup, ProcessExits(s) \/ KillTakesEffect(s)
    PROVE  IInv'
<1>1. TypeOK' /\ Watched' /\ Assigned'
  BY DEF ProcessExits, KillTakesEffect, IInv, TypeOK, Watched, Assigned, MainState,
         ProcState, mainVars, chanVars
<1>2. WaiterCounts'
  BY SameLive DEF ProcessExits, KillTakesEffect, IInv
<1> QED
  BY <1>1, <1>2 DEF IInv

\* Every step of a request handler preserves the inductive invariant.
LEMMA HandlerIInv ==
    ASSUME IInv, NEW h \in Handler, Receive(h) \/ Handle(h) \/ MapRace(h)
    PROVE  IInv'
<1> USE DEF IInv, mainVars, chanVars, supVars
<1>1. CASE Receive(h)
  <2>1. PICK r \in Control : todo' = [todo EXCEPT ![h] = Ops(r)]
    BY <1>1 DEF Receive
  <2>2. todo' \in [Handler -> Seq(Op)]
    BY <2>1, OpsType DEF TypeOK
  <2>3. WaiterCounts'
    BY <1>1, SameLive DEF Receive
  <2> QED
    BY <1>1, <2>2, <2>3 DEF Receive, TypeOK, Watched, Assigned
<1>2. CASE Examine(h)
  <2> DEFINE o == Head(todo[h])
             t == Tail(todo[h])
             p == [o EXCEPT !.op = IF @ = "enable" THEN "start" ELSE "close"]
  <2>1. o \in Op /\ t \in Seq(Op)
    BY <1>2, HandlerSteps DEF Examine
  <2>2. o.name \in Module => p \in Op
    BY <2>1 DEF Op
  <2>3. todo' = [todo EXCEPT ![h] = t]
        \/ (p \in Op /\ todo' = [todo EXCEPT ![h] = <<p>> \o t])
    BY <1>2, <2>2 DEF Examine, TypeOK
  <2>4. todo' \in [Handler -> Seq(Op)]
    <3>1. p \in Op => <<p>> \o t \in Seq(Op)
      BY <2>1, Prepend
    <3> HIDE DEF p, t
    <3> QED
      BY <2>1, <2>3, <3>1 DEF TypeOK
  <2>5. WaiterCounts'
    BY <1>2, SameLive DEF Examine
  <2> QED
    BY <1>2, <2>4, <2>5 DEF Examine, TypeOK, Watched, Assigned
<1>3. CASE Enable(h)
  <2>1. Tail(todo[h]) \in Seq(Op) /\ todo' = [todo EXCEPT ![h] = Tail(@)]
    BY <1>3, HandlerSteps DEF Enable, Doing
  <2>2. todo' \in [Handler -> Seq(Op)]
    BY <2>1 DEF TypeOK
  <2>3. Head(todo[h]).name \in Module
    BY <1>3, HandlerSteps DEF Enable, Doing, Op
  <2>4. CASE Spawn(Head(todo[h]).name)
    BY <1>3, <2>2, <2>3, <2>4, SpawnIInv DEF Enable, TypeOK
  <2>5. CASE UNCHANGED <<waiter, supVars>>
    <3>1. WaiterCounts'
      BY <2>5, SameLive
    <3> QED
      BY <1>3, <2>2, <2>5, <3>1 DEF Enable, TypeOK, Watched, Assigned
  <2> QED
    BY <1>3, <2>4, <2>5 DEF Enable
<1>4. CASE Close(h)
  <2>1. Tail(todo[h]) \in Seq(Op) /\ todo' = [todo EXCEPT ![h] = Tail(@)]
    BY <1>4, HandlerSteps DEF Close, Doing
  <2>2. todo' \in [Handler -> Seq(Op)]
    BY <2>1 DEF TypeOK
  <2>3. Head(todo[h]).name \in Module
    BY <1>4, HandlerSteps DEF Close, Doing, Op
  <2>4. WaiterCounts'
    BY <1>4, SameLive DEF Close
  <2> QED
    BY <1>4, <2>2, <2>3, <2>4 DEF Close, TypeOK, Watched, Assigned
<1>5. CASE ClosePanics(h)
  <2>1. todo' \in [Handler -> Seq(Op)]
    BY <1>5 DEF ClosePanics, TypeOK
  <2>2. WaiterCounts'
    BY <1>5, SameLive DEF ClosePanics
  <2> QED
    BY <1>5, <2>1, <2>2 DEF ClosePanics, TypeOK, Watched, Assigned, MainState
<1>6. CASE MapRace(h)
  <2>1. WaiterCounts'
    BY <1>6, SameLive DEF MapRace
  <2> QED
    BY <1>6, <2>1 DEF MapRace, TypeOK, Watched, Assigned, MainState
<1> QED
  BY <1>1, <1>2, <1>3, <1>4, <1>5, <1>6 DEF Handle

\* Every step of the main goroutine preserves the inductive invariant.
LEMMA MainIInv ==
    ASSUME IInv, Main \/ Sigterm
    PROVE  IInv'
<1> USE DEF IInv, mainVars, chanVars, supVars
<1>1. ASSUME NEW m \in Module, Boot(m)
      PROVE  IInv'
  <2>1. CASE Spawn(m)
    BY <1>1, <2>1, SpawnIInv DEF Boot, TypeOK, MainState
  <2>2. CASE UNCHANGED <<waiter, supVars>>
    <3>1. WaiterCounts'
      BY <2>2, SameLive
    <3> QED
      BY <1>1, <2>2, <3>1 DEF Boot, TypeOK, Watched, Assigned, MainState
  <2> QED
    BY <1>1, <2>1, <2>2 DEF Boot
<1>2. ASSUME BootDone \/ Sigterm \/ SignalSeen \/ WaitReturns \/ Exit
      PROVE  IInv'
  <2>1. WaiterCounts'
    BY <1>2, SameLive DEF BootDone, Sigterm, SignalSeen, WaitReturns, Exit
  <2>2. TypeOK' /\ Watched' /\ Assigned'
    BY <1>2 DEF BootDone, Sigterm, SignalSeen, WaitReturns, Exit, TypeOK, Watched,
                Assigned, MainState
  <2> QED
    BY <2>1, <2>2
<1> QED
  BY <1>1, <1>2 DEF Main

\* Every step of the system preserves the inductive invariant.
LEMMA NextIInv == IInv /\ [Next]_vars => IInv'
<1> SUFFICES ASSUME IInv, [Next]_vars PROVE IInv'
  OBVIOUS
<1>1. CASE Next
  BY <1>1, SuperviseIInv, ProcessIInv, HandlerIInv, MainIInv DEF Next
<1>2. CASE UNCHANGED vars
  BY <1>2 DEF vars, mainVars, chanVars, supVars, IInv, TypeOK, WaiterCounts, Live,
              Watched, Assigned
<1> QED
  BY <1>1, <1>2

\* The inductive invariant holds in every reachable state.
THEOREM SupervisorInvariant == Spec => []IInv
  BY InitIInv, NextIInv, PTL DEF Spec

\* Every variable of the supervisor keeps its type; in particular the wait group of
\* otsim.Waiter never becomes negative, which would panic.
THEOREM TypeCorrect == Spec => []TypeOK
<1>1. IInv => TypeOK
  BY DEF IInv
<1> QED
  BY <1>1, SupervisorInvariant, PTL

\* However requests, restarts, failures and signals interleave, otsim.Waiter counts
\* the supervisor goroutines that are still running.
THEOREM WaiterCorrect == Spec => []WaiterCounts
<1>1. IInv => WaiterCounts
  BY DEF IInv
<1> QED
  BY <1>1, SupervisorInvariant, PTL

\* No supervisor of execute.go leaves a process running that it neither waits for
\* nor has killed.
THEOREM WatchedCorrect == Spec => []Watched
<1>1. IInv => Watched
  BY DEF IInv
<1> QED
  BY <1>1, SupervisorInvariant, PTL

\* When Waiter.Wait of main.go:43 returns, every child process has exited or has
\* been killed.
THEOREM WaitCorrect == Spec => WaitMeansStopped
<1>1. ASSUME IInv, IInv', [Next]_vars
      PROVE  [(main # "returned" /\ main' = "returned") =>
                 \A s \in Sup : proc[s] # "running"]_vars
  <2> SUFFICES ASSUME Next, main # "returned", main' = "returned"
               PROVE  \A s \in Sup : proc[s] # "running"
    BY <1>1
  <2>1. ASSUME NEW s \in Sup, Supervise(s) \/ ProcessExits(s) \/ KillTakesEffect(s)
        PROVE  FALSE
    BY <2>1 DEF Supervise, StartProcess, MakeCanceler, EnterSelect, ProcessDied, Cancel,
                Stop, AwaitExit, Return, ProcessExits, KillTakesEffect, mainVars
  <2>2. ASSUME NEW h \in Handler, Receive(h) \/ Handle(h) \/ MapRace(h)
        PROVE  FALSE
    BY <2>2 DEF Handle, Receive, Examine, Enable, Close, ClosePanics, MapRace, mainVars
  <2>3. SignalSeen \/ WaitReturns
    BY <2>1, <2>2 DEF Next, Main, Boot, BootDone, Exit, Sigterm
  <2>4. waiter = 0
    BY <2>3 DEF SignalSeen, WaitReturns
  <2> QED
    BY <1>1, <2>4, ZeroMeansStopped
<1> QED
  BY <1>1, SupervisorInvariant, PTL DEF Spec, WaitMeansStopped

-----------------------------------------------------------------------------
(* Ownership of canceler channels.                                         *)

\* A new channel is referred to by nobody, so it can belong to one module only.
LEMMA MakeCancelerPriv ==
    ASSUME IInv, PrivInv, NEW s \in Sup, MakeCanceler(s)
    PROVE  PrivInv'
<1>1. PICK c \in FreeChan : canceler' = [canceler EXCEPT ![mod[s]] = c]
  BY DEF MakeCanceler
<1>2. /\ UNCHANGED <<sel, mod>>
      /\ pc' = [pc EXCEPT ![s] = "armed"]
      /\ pc[s] = "started"
  BY DEF MakeCanceler
<1>3. /\ mod[s] \in Module
      /\ \A m \in Module : canceler[m] # c
      /\ \A t \in Sup : sel[t] # c
  BY <1>1, <1>2 DEF FreeChan, IInv, Assigned
<1>4. CancelersDistinct'
  BY <1>1, <1>3 DEF PrivInv, CancelersDistinct, IInv, TypeOK
<1>5. SelectOnly'
  BY <1>2 DEF PrivInv, SelectOnly, IInv, TypeOK
<1> QED
  BY <1>4, <1>5 DEF PrivInv

\* A supervisor that begins to listen is inside the select statement.
LEMMA EnterSelectPriv ==
    ASSUME IInv, PrivInv, NEW s \in Sup, EnterSelect(s)
    PROVE  PrivInv'
  BY DEF EnterSelect, PrivInv, CancelersDistinct, SelectOnly, IInv, TypeOK, chanVars

\* The other steps of a supervisor only drop references to channels.
LEMMA DropPriv ==
    ASSUME IInv, PrivInv, NEW s \in Sup,
           \/ StartProcess(s) \/ ProcessDied(s) \/ Cancel(s) \/ Stop(s) \/ AwaitExit(s)
    PROVE  PrivInv'
<1> USE DEF IInv, TypeOK, PrivInv, Return, chanVars, mainVars
<1>1. CASE StartProcess(s)
  <2>1. sel[s] = Nil
    BY <1>1 DEF StartProcess, SelectOnly
  <2> QED
    BY <1>1, <2>1 DEF StartProcess, CancelersDistinct, SelectOnly
<1>2. CASE ProcessDied(s)
  BY <1>2 DEF ProcessDied, CancelersDistinct, SelectOnly
<1>3. CASE Cancel(s)
  BY <1>3 DEF Cancel, CancelersDistinct, SelectOnly
<1>4. CASE Stop(s)
  BY <1>4 DEF Stop, CancelersDistinct, SelectOnly
<1>5. CASE AwaitExit(s)
  <2>1. sel[s] = Nil
    BY <1>5 DEF AwaitExit, SelectOnly
  <2> QED
    BY <1>5, <2>1 DEF AwaitExit, CancelersDistinct, SelectOnly
<1> QED
  BY <1>1, <1>2, <1>3, <1>4, <1>5

\* A new supervisor listens on no channel yet.
LEMMA SpawnPriv ==
    ASSUME IInv, PrivInv, NEW m \in Module, Spawn(m), UNCHANGED canceler
    PROVE  PrivInv'
<1>1. PICK s \in Sup : /\ pc[s] = "idle"
                       /\ pc' = [pc EXCEPT ![s] = "starting"]
                       /\ mod' = [mod EXCEPT ![s] = m]
                       /\ UNCHANGED sel
  BY DEF Spawn
<1>2. sel[s] = Nil
  BY <1>1 DEF PrivInv, SelectOnly
<1> QED
  BY <1>1, <1>2 DEF PrivInv, CancelersDistinct, SelectOnly, IInv, TypeOK

\* Steps that touch no canceler and no supervisor preserve PrivInv.
LEMMA SamePriv ==
    ASSUME PrivInv, UNCHANGED <<canceler, sel, pc, mod>>
    PROVE  PrivInv'
  BY DEF PrivInv, CancelersDistinct, SelectOnly

\* Every step of the system preserves PrivInv.
LEMMA NextPriv == IInv /\ PrivInv /\ [Next]_vars => PrivInv'
<1> SUFFICES ASSUME IInv, PrivInv, [Next]_vars PROVE PrivInv'
  OBVIOUS
<1> USE DEF chanVars, supVars
<1>1. ASSUME NEW s \in Sup, Supervise(s) \/ ProcessExits(s) \/ KillTakesEffect(s)
      PROVE  PrivInv'
  <2>1. ProcessExits(s) \/ KillTakesEffect(s) => PrivInv'
    BY SamePriv DEF ProcessExits, KillTakesEffect
  <2> QED
    BY <1>1, <2>1, MakeCancelerPriv, EnterSelectPriv, DropPriv DEF Supervise
<1>2. ASSUME NEW h \in Handler, Receive(h) \/ Handle(h) \/ MapRace(h)
      PROVE  PrivInv'
  <2>1. CASE Enable(h)
    <3>1. Head(todo[h]).name \in Module
      BY <2>1, HandlerSteps DEF Enable, Doing, Op, IInv
    <3> QED
      BY <2>1, <3>1, SpawnPriv, SamePriv DEF Enable
  <2>2. CASE Receive(h) \/ Examine(h) \/ Close(h) \/ ClosePanics(h) \/ MapRace(h)
    BY <2>2, SamePriv DEF Receive, Examine, Close, ClosePanics, MapRace
  <2> QED
    BY <1>2, <2>1, <2>2 DEF Handle
<1>3. ASSUME NEW m \in Module, Boot(m)
      PROVE  PrivInv'
  BY <1>3, SpawnPriv, SamePriv DEF Boot
<1>4. CASE BootDone \/ Sigterm \/ SignalSeen \/ WaitReturns \/ Exit
  BY <1>4, SamePriv DEF BootDone, Sigterm, SignalSeen, WaitReturns, Exit
<1>5. CASE UNCHANGED vars
  BY <1>5, SamePriv DEF vars
<1> QED
  BY <1>1, <1>2, <1>3, <1>4, <1>5 DEF Next, Main

-----------------------------------------------------------------------------
(* Orderly requests.  SingleSupervisor, NoCrash and ListIsTrue do not hold  *)
(* of every history: two requests that meet, or a process that must not be *)
(* restarted, break them.  They are proved for operators who wait.         *)

\* Operators wait until a request has taken effect and name a module once in it;
\* executables may be missing and processes may die, but can be started again.
Patient ==
    /\ Settled
    /\ Faults \subseteq {"missing", "dies"}
    /\ \A r \in Control : \A i, j \in 1..Len(Ops(r)) :
          Ops(r)[i].name = Ops(r)[j].name /\ Ops(r)[i].name \in Module => i = j

\* No live supervisor works for the module.
Off(m) == \A s \in Sup : pc[s] # "idle" => mod[s] # m

\* Run starts every module once, before any request is taken.
Booting ==
    main = "boot" => /\ \A h \in Handler : todo[h] = <<>>
                     /\ \A m \in boot : Off(m)

\* The main goroutine goes on after the signal only.
AfterSignal == main \in {"waiting", "released", "returned", "exited", "crashed"} => ctxDone

\* One request is handled at a time.
OneRequest == \A h, k \in Handler : todo[h] # <<>> /\ todo[k] # <<>> => h = k

\* What the canceler says about a supervisor at each point of its loop.
Loop ==
    \A s \in Sup :
        /\ pc[s] \in {"armed", "select"} => canceler[mod[s]] # Nil
        /\ pc[s] = "select" => sel[s] = canceler[mod[s]]
        /\ pc[s] = "disabling" => canceler[mod[s]] = Nil
        /\ pc[s] = "stopping" => ctxDone
        /\ proc[s] # "exited101"

\* Until the signal arrives a canceler belongs to a live supervisor.
Kept == ~ctxDone => \A m \in Module : canceler[m] = Nil \/ ~Off(m)

\* The module of an operation that is still to be done is as the request found it: its
\* canceler tells whether it is on and has not been closed.
Pending(o) ==
    o.name \in Module =>
        /\ canceler[o.name] = Nil => Off(o.name)
        /\ canceler[o.name] \notin closed
        /\ o.op = "start" => canceler[o.name] = Nil
        /\ o.op = "close" => canceler[o.name] # Nil

\* No two operations name the same module.
Distinct(q) == \A i, j \in 1..Len(q) : q[i].name = q[j].name /\ q[i].name \in Module => i = j

Requests ==
    \A h \in Handler : Distinct(todo[h]) /\ \A i \in 1..Len(todo[h]) : Pending(todo[h][i])

OInv == /\ SingleSupervisor /\ Booting /\ AfterSignal
        /\ OneRequest /\ Loop /\ Kept /\ Requests

\* The invariant holds when the CPU process starts.
LEMMA InitOrder == Init => OInv
  BY DEF Init, OInv, SingleSupervisor, Live, Booting, AfterSignal, OneRequest, Loop, Kept,
         Requests, Distinct, Off

\* The operations a handler has not begun are those after the first one, and none of them
\* is about the module of the first.
LEMMA Rest ==
    ASSUME NEW q \in Seq(Op), q # <<>>, Distinct(q)
    PROVE  /\ Distinct(Tail(q))
           /\ \A i \in 1..Len(Tail(q)) :
                /\ i + 1 \in 1..Len(q) /\ Tail(q)[i] = q[i + 1]
                /\ Tail(q)[i].name \in Module => Tail(q)[i].name # Head(q).name
<1>1. /\ Len(q) \in Nat /\ Len(q) > 0 /\ Len(Tail(q)) = Len(q) - 1
      /\ \A i \in 1..Len(Tail(q)) : Tail(q)[i] = q[i + 1]
      /\ Head(q) = q[1]
  OBVIOUS
<1>2. \A i \in 1..Len(Tail(q)) : i + 1 \in 1..Len(q) /\ i + 1 # 1
  BY <1>1
<1>3. Distinct(Tail(q))
  BY <1>1, <1>2 DEF Distinct
<1>4. 1 \in 1..Len(q)
  BY <1>1
<1> QED
  BY <1>1, <1>2, <1>3, <1>4 DEF Distinct

\* After the test of mod.canceler the first operation has another kind, not another module.
LEMMA Again ==
    ASSUME NEW q \in Seq(Op), q # <<>>, Distinct(q), NEW p \in Op, p.name = Head(q).name
    PROVE  /\ Distinct(<<p>> \o Tail(q))
           /\ \A i \in 1..Len(<<p>> \o Tail(q)) :
                \/ (<<p>> \o Tail(q))[i] = p
                \/ i \in 1..Len(q) /\ (<<p>> \o Tail(q))[i] = q[i]
<1> DEFINE r == <<p>> \o Tail(q)
<1>1. /\ Len(q) \in Nat /\ Len(q) > 0 /\ Head(q) = q[1]
      /\ Len(r) = Len(q)
      /\ r[1] = p
      /\ \A i \in 2..Len(q) : r[i] = q[i]
  OBVIOUS
<1> HIDE DEF r
<1>2. \A i \in 1..Len(r) : i \in 1..Len(q) /\ r[i].name = q[i].name
  BY <1>1
<1>3. \A i \in 1..Len(r) : r[i] = p \/ (i \in 1..Len(q) /\ r[i] = q[i])
  BY <1>1
<1>4. Distinct(r)
  BY <1>2 DEF Distinct
<1> QED
  BY <1>3, <1>4 DEF r

\* A supervisor that starts its process leaves the cancelers alone.
LEMMA StartOrder ==
    ASSUME Patient, IInv, PrivInv, OInv, NEW s \in Sup, StartProcess(s)
    PROVE  OInv'
<1>1. /\ pc[s] = "starting" /\ pc' = [pc EXCEPT ![s] = "started"]
      /\ proc' = [proc EXCEPT ![s] = "running"]
      /\ UNCHANGED <<mainVars, waiter, mod, sel, chanVars, todo>>
  BY DEF StartProcess, Patient, mainVars
<1> USE <1>1 DEF IInv, TypeOK, OInv, mainVars, chanVars
<1>2. \A m \in Module : Off(m)' = Off(m)
  BY DEF Off
<1>3. SingleSupervisor' /\ Loop' /\ AfterSignal' /\ OneRequest'
  BY DEF SingleSupervisor, Live, Loop, AfterSignal, OneRequest
<1>4. Booting' /\ Kept'
  BY <1>2 DEF Booting, Kept
<1>5. Requests'
  BY <1>2 DEF Requests, Pending
<1> QED
  BY <1>3, <1>4, <1>5

\* A new canceler belongs to the one supervisor of its module and is not closed.
LEMMA MakeCancelerOrder ==
    ASSUME Patient, IInv, PrivInv, OInv, NEW s \in Sup, MakeCanceler(s)
    PROVE  OInv'
<1>1. PICK c \in FreeChan : canceler' = [canceler EXCEPT ![mod[s]] = c]
  BY DEF MakeCanceler
<1>2. /\ pc[s] = "started" /\ pc' = [pc EXCEPT ![s] = "armed"]
      /\ closed' = closed \ FreeChan
      /\ UNCHANGED <<mainVars, waiter, mod, sel, proc, todo>>
  BY DEF MakeCanceler
<1> USE <1>1, <1>2 DEF IInv, TypeOK, OInv, mainVars
<1>3. /\ mod[s] \in Module /\ c \in Chan /\ c # Nil /\ c \notin closed'
      /\ ~Off(mod[s])
  BY ConstantsAssumption DEF Assigned, FreeChan, Off
<1>4. \A m \in Module : Off(m)' = Off(m)
  BY DEF Off
<1>5. SingleSupervisor' /\ AfterSignal' /\ OneRequest'
  BY DEF SingleSupervisor, Live, AfterSignal, OneRequest
<1>6. \A t \in Sup : pc[t] # "idle" /\ mod[t] = mod[s] => t = s
  BY DEF SingleSupervisor, Live
<1>7. Loop'
  BY <1>3, <1>6 DEF Loop, Assigned
<1>8. Booting' /\ Kept'
  BY <1>3, <1>4 DEF Booting, Kept
<1>9. ASSUME NEW o, Pending(o)
      PROVE  Pending(o)'
  BY <1>3, <1>4, <1>9 DEF Pending
<1>10. Requests'
  BY <1>9 DEF Requests
<1> QED
  BY <1>5, <1>7, <1>8, <1>10

\* The select statement of a supervisor waits on the canceler of its module.
LEMMA EnterSelectOrder ==
    ASSUME Patient, IInv, PrivInv, OInv, NEW s \in Sup, EnterSelect(s)
    PROVE  OInv'
<1>1. /\ pc[s] = "armed" /\ pc' = [pc EXCEPT ![s] = "select"]
      /\ sel' = [sel EXCEPT ![s] = canceler[mod[s]]]
      /\ UNCHANGED <<mainVars, waiter, chanVars, mod, proc, todo>>
  BY DEF EnterSelect
<1> USE <1>1 DEF IInv, TypeOK, OInv, mainVars, chanVars
<1>2. \A m \in Module : Off(m)' = Off(m)
  BY DEF Off
<1>3. SingleSupervisor' /\ Loop' /\ AfterSignal' /\ OneRequest'
  BY DEF SingleSupervisor, Live, Loop, AfterSignal, OneRequest
<1>4. Booting' /\ Kept'
  BY <1>2 DEF Booting, Kept
<1>5. Requests'
  BY <1>2 DEF Requests, Pending
<1> QED
  BY <1>3, <1>4, <1>5

\* A process that died is started again: its supervisor stays.
LEMMA ProcessDiedOrder ==
    ASSUME Patient, IInv, PrivInv, OInv, NEW s \in Sup, ProcessDied(s)
    PROVE  OInv'
<1>1. /\ pc[s] = "select" /\ pc' = [pc EXCEPT ![s] = "starting"]
      /\ sel' = [sel EXCEPT ![s] = Nil]
      /\ proc' = [proc EXCEPT ![s] = "none"]
      /\ UNCHANGED <<mainVars, waiter, chanVars, mod, todo>>
  BY DEF ProcessDied, OInv, Loop, mainVars
<1> USE <1>1 DEF IInv, TypeOK, OInv, mainVars, chanVars
<1>2. \A m \in Module : Off(m)' = Off(m)
  BY DEF Off
<1>3. SingleSupervisor' /\ Loop' /\ AfterSignal' /\ OneRequest'
  BY DEF SingleSupervisor, Live, Loop, AfterSignal, OneRequest
<1>4. Booting' /\ Kept'
  BY <1>2 DEF Booting, Kept
<1>5. Requests'
  BY <1>2 DEF Requests, Pending
<1> QED
  BY <1>3, <1>4, <1>5

\* A supervisor is cancelled only by an operation that is done, so the module that goes
\* off is not the module of any operation left.
LEMMA CancelOrder ==
    ASSUME Patient, IInv, PrivInv, OInv, NEW s \in Sup, Cancel(s)
    PROVE  OInv'
<1>1. /\ pc[s] = "select" /\ pc' = [pc EXCEPT ![s] = "disabling"]
      /\ sel[s] \in closed /\ sel' = [sel EXCEPT ![s] = Nil]
      /\ canceler' = [canceler EXCEPT ![mod[s]] = Nil]
      /\ UNCHANGED <<mainVars, waiter, closed, mod, proc, todo>>
  BY DEF Cancel
<1> USE <1>1 DEF IInv, TypeOK, OInv, mainVars
<1>2. mod[s] \in Module /\ canceler[mod[s]] \in closed
  BY DEF Assigned, Loop
<1>3. \A m \in Module : Off(m)' = Off(m)
  BY DEF Off
<1>4. SingleSupervisor' /\ AfterSignal' /\ OneRequest'
  BY DEF SingleSupervisor, Live, AfterSignal, OneRequest
<1>5. \A t \in Sup : pc[t] # "idle" /\ mod[t] = mod[s] => t = s
  BY DEF SingleSupervisor, Live
<1>6. Loop'
  BY <1>2, <1>5 DEF Loop, Assigned
<1>7. Booting' /\ Kept'
  BY <1>2, <1>3 DEF Booting, Kept
<1>8. ASSUME NEW o, Pending(o)
      PROVE  Pending(o)'
  <2>1. o.name # mod[s]
    BY <1>2, <1>8 DEF Pending
  <2> QED
    BY <1>2, <1>3, <1>8, <2>1 DEF Pending
<1>9. Requests'
  BY <1>8 DEF Requests
<1> QED
  BY <1>4, <1>6, <1>7, <1>9

\* Supervisors stop by themselves after the signal only.
LEMMA StopOrder ==
    ASSUME Patient, IInv, PrivInv, OInv, NEW s \in Sup, Stop(s)
    PROVE  OInv'
<1>1. /\ pc[s] = "select" /\ pc' = [pc EXCEPT ![s] = "stopping"]
      /\ sel' = [sel EXCEPT ![s] = Nil]
      /\ ctxDone
      /\ UNCHANGED <<mainVars, waiter, chanVars, mod, proc, todo>>
  BY DEF Stop
<1> USE <1>1 DEF IInv, TypeOK, OInv, mainVars, chanVars
<1>2. \A m \in Module : Off(m)' = Off(m)
  BY DEF Off
<1>3. SingleSupervisor' /\ Loop' /\ AfterSignal' /\ OneRequest'
  BY DEF SingleSupervisor, Live, Loop, AfterSignal, OneRequest
<1>4. Booting' /\ Kept'
  BY <1>2 DEF Booting, Kept
<1>5. Requests'
  BY <1>2 DEF Requests, Pending
<1> QED
  BY <1>3, <1>4, <1>5

\* The goroutine of a disabled module returns after the canceler has been set to nil.
LEMMA AwaitExitOrder ==
    ASSUME Patient, IInv, PrivInv, OInv, NEW s \in Sup, AwaitExit(s)
    PROVE  OInv'
<1>1. /\ pc[s] \in {"disabling", "stopping"} /\ pc' = [pc EXCEPT ![s] = "idle"]
      /\ mod' = [mod EXCEPT ![s] = NoModule]
      /\ \E p \in {"none", "killed"} : proc' = [proc EXCEPT ![s] = p]
      /\ main' = main \/ (main = "waiting" /\ main' = "released")
      /\ UNCHANGED <<boot, ctxDone, listening, chanVars, sel, todo>>
  BY DEF AwaitExit, Return
<1> USE <1>1 DEF IInv, TypeOK, OInv, chanVars
<1>2. \A m \in Module : Off(m) => Off(m)'
  BY DEF Off
<1>3. SingleSupervisor'
  BY DEF SingleSupervisor, Live
<1>4. AfterSignal' /\ OneRequest' /\ Booting'
  BY <1>2 DEF AfterSignal, OneRequest, Booting
<1>5. Loop'
  BY DEF Loop
<1>6. Kept'
  <2>1. SUFFICES ASSUME ~ctxDone, NEW m \in Module, canceler[m] # Nil
                 PROVE  ~Off(m)'
    BY DEF Kept
  <2>2. canceler[mod[s]] = Nil
    BY <2>1 DEF Loop
  <2>3. PICK t \in Sup : pc[t] # "idle" /\ mod[t] = m
    BY <2>1 DEF Kept, Off
  <2>4. t # s
    BY <2>1, <2>2, <2>3
  <2> QED
    BY <2>3, <2>4 DEF Off
<1>7. Requests'
  BY <1>2 DEF Requests, Pending
<1> QED
  BY <1>3, <1>4, <1>5, <1>6, <1>7

\* The end of a process tells the canceler nothing.
LEMMA ProcessOrder ==
    ASSUME Patient, IInv, PrivInv, OInv, NEW s \in Sup, ProcessExits(s) \/ KillTakesEffect(s)
    PROVE  OInv'
<1>1. /\ \E p \in {"none", "exited"} : proc' = [proc EXCEPT ![s] = p]
      /\ UNCHANGED <<mainVars, waiter, chanVars, pc, mod, sel, todo>>
  BY DEF ProcessExits, KillTakesEffect, Patient
<1> USE <1>1 DEF IInv, TypeOK, OInv, mainVars, chanVars
<1>2. \A m \in Module : Off(m)' = Off(m)
  BY DEF Off
<1>3. SingleSupervisor' /\ Loop' /\ AfterSignal' /\ OneRequest'
  BY DEF SingleSupervisor, Live, Loop, AfterSignal, OneRequest
<1>4. Booting' /\ Kept'
  BY <1>2 DEF Booting, Kept
<1>5. Requests'
  BY <1>2 DEF Requests, Pending
<1> QED
  BY <1>3, <1>4, <1>5

\* A request is taken when all is quiet: the cancelers tell which modules are on.
LEMMA ReceiveOrder ==
    ASSUME Patient, IInv, PrivInv, OInv, NEW h \in Handler, Receive(h)
    PROVE  OInv'
<1>1. PICK r \in Control : todo' = [todo EXCEPT ![h] = Ops(r)]
  BY DEF Receive
<1>2. /\ Quiet
      /\ UNCHANGED <<main, boot, ctxDone, waiter, chanVars, supVars>>
  BY DEF Receive, Patient
<1> USE <1>1, <1>2 DEF IInv, TypeOK, OInv, chanVars, supVars
<1>3. main = "up" /\ ~ctxDone /\ \A k \in Handler : todo[k] = <<>>
  BY DEF Quiet
<1>4. SingleSupervisor' /\ AfterSignal' /\ Loop' /\ Kept'
  BY DEF SingleSupervisor, Live, AfterSignal, Loop, Kept, Off
<1>5. Booting' /\ OneRequest'
  BY <1>3 DEF Booting, OneRequest
<1>6. ASSUME NEW m \in Module
      PROVE  (canceler[m] = Nil => Off(m)) /\ canceler[m] \notin closed
  <2>1. \A s \in Sup : pc[s] # "idle" =>
            pc[s] = "select" /\ sel[s] = canceler[mod[s]] /\ sel[s] # Nil /\ sel[s] \notin closed
    BY DEF Quiet, Loop
  <2>2. canceler[m] = Nil => Off(m)
    BY <2>1 DEF Off
  <2>3. canceler[m] # Nil => canceler[m] \notin closed
    BY <1>3, <2>1 DEF Kept, Off
  <2> QED
    BY <2>2, <2>3, ConstantsAssumption
<1>7. Distinct(Ops(r))
  BY DEF Patient, Distinct
<1>8. \A i \in 1..Len(Ops(r)) : Ops(r)[i].op \in {"enable", "disable"}
  <2>1. /\ r.enable \in Seq(Module \cup {NoModule})
        /\ r.disable \in Seq(Module \cup {NoModule})
    BY ConstantsAssumption
  <2> DEFINE e == [i \in 1..Len(r.enable) |-> [op |-> "enable", name |-> r.enable[i]]]
             d == [i \in 1..Len(r.disable) |-> [op |-> "disable", name |-> r.disable[i]]]
  <2>2. e \in Seq(Op) /\ d \in Seq(Op) /\ Ops(r) = e \o d
    BY <2>1 DEF Op, Ops
  <2>3. /\ \A i \in 1..Len(e) : e[i].op \in {"enable", "disable"}
        /\ \A i \in 1..Len(d) : d[i].op \in {"enable", "disable"}
    BY <2>1
  <2> HIDE DEF e, d
  <2> QED
    BY <2>2, <2>3
<1>9. \A i \in 1..Len(Ops(r)) : Pending(Ops(r)[i])'
  <2>1. \A m \in Module : Off(m)' = Off(m)
    BY DEF Off
  <2> QED
    BY <1>6, <1>8, <2>1 DEF Pending
<1>10. Requests'
  BY <1>3, <1>7, <1>9 DEF Requests, Distinct
<1> QED
  BY <1>4, <1>5, <1>10

\* The rest of a request is in order when an operation on another module has been done.
LEMMA RestPending ==
    ASSUME IInv, OInv, NEW h \in Handler, todo[h] # <<>>,
           todo' = [todo EXCEPT ![h] = Tail(@)],
           \A o \in Op : Pending(o) /\ (o.name \in Module => o.name # Head(todo[h]).name)
                            => Pending(o)'
    PROVE  Requests' /\ OneRequest'
<1> USE DEF IInv, TypeOK, OInv
<1>1. todo[h] \in Seq(Op) /\ Distinct(todo[h])
  BY DEF Requests
<1>2. \A k \in Handler : k # h => todo[k] = <<>> /\ todo'[k] = <<>>
  BY DEF OneRequest
<1>3. OneRequest'
  BY <1>2 DEF OneRequest
<1>4. /\ Distinct(Tail(todo[h]))
      /\ \A i \in 1..Len(Tail(todo[h])) :
            /\ i + 1 \in 1..Len(todo[h]) /\ Tail(todo[h])[i] = todo[h][i + 1]
            /\ Tail(todo[h])[i].name \in Module => Tail(todo[h])[i].name # Head(todo[h]).name
  BY <1>1, Rest
<1>0. PICK q : q = Tail(todo[h])
  OBVIOUS
<1>5. \A i \in 1..Len(q) :
          q[i] \in Op /\ Pending(q[i]) /\ (q[i].name \in Module => q[i].name # Head(todo[h]).name)
  <2>1. \A i \in 1..Len(todo[h]) : todo[h][i] \in Op /\ Pending(todo[h][i])
    BY <1>1 DEF Requests
  <2> QED
    BY <1>0, <1>4, <2>1
<1>6. \A i \in 1..Len(q) : Pending(q[i])'
  BY <1>5
<1>7. todo'[h] = q /\ Distinct(q)
  BY <1>0, <1>4
<1>8. ASSUME NEW k \in Handler
      PROVE  (Distinct(todo[k]) /\ \A i \in 1..Len(todo[k]) : Pending(todo[k][i]))'
  <2>1. CASE k = h
    BY <1>6, <1>7, <2>1 DEF Distinct
  <2>2. CASE k # h
    BY <1>2, <2>2 DEF Distinct
  <2> QED
    BY <2>1, <2>2
<1>9. Requests'
  BY <1>8 DEF Requests
<1> QED
  BY <1>3, <1>9

\* The test of mod.canceler settles what the operation will do.
LEMMA ExamineOrder ==
    ASSUME Patient, IInv, PrivInv, OInv, NEW h \in Handler, Examine(h)
    PROVE  OInv'
<1> DEFINE o == Head(todo[h])
           p == [o EXCEPT !.op = IF @ = "enable" THEN "start" ELSE "close"]
<1>1. /\ todo[h] # <<>> /\ o.op \in {"enable", "disable"}
      /\ UNCHANGED <<mainVars, waiter, chanVars, supVars>>
  BY DEF Examine
<1>2. todo[h] \in Seq(Op) /\ o \in Op /\ Distinct(todo[h])
  BY <1>1, HandlerSteps DEF IInv, TypeOK, OInv, Requests
<1>3. \/ todo' = [todo EXCEPT ![h] = Tail(@)]
      \/ /\ todo' = [todo EXCEPT ![h] = <<p>> \o Tail(@)]
         /\ o.name \in Module
         /\ (o.op = "enable") = (canceler[o.name] = Nil)
  BY DEF Examine, IInv, TypeOK
<1>4. \A m \in Module : Off(m)' = Off(m)
  BY <1>1 DEF Off, supVars
<1>5. \A q : Pending(q) = Pending(q)'
  BY <1>1, <1>4 DEF Pending, chanVars
<1>6. SingleSupervisor' /\ AfterSignal' /\ Loop' /\ Kept'
  BY <1>1 DEF OInv, SingleSupervisor, Live, AfterSignal, Loop, Kept, Off, chanVars, supVars, mainVars
<1>7. Booting'
  BY <1>1 DEF OInv, Booting, mainVars
<1>8. Requests' /\ OneRequest'
  <2>1. CASE todo' = [todo EXCEPT ![h] = Tail(@)]
    BY <1>1, <1>5, <2>1, RestPending
  <2>2. CASE /\ todo' = [todo EXCEPT ![h] = <<p>> \o Tail(@)]
             /\ o.name \in Module
             /\ (o.op = "enable") = (canceler[o.name] = Nil)
    <3>1. p \in Op /\ p.name = o.name
          /\ p.op = IF o.op = "enable" THEN "start" ELSE "close"
      BY <1>2, <2>2 DEF Op
    <3>2. Pending(p)
      <4>1. Pending(o)
        BY <1>1, <1>2 DEF OInv, Requests
      <4> HIDE DEF o, p
      <4> QED
        BY <1>1, <2>2, <3>1, <4>1 DEF Pending
    <3>0. PICK q : q = <<p>> \o Tail(todo[h])
      OBVIOUS
    <3>3. /\ Distinct(q)
          /\ \A i \in 1..Len(q) : q[i] = p \/ (i \in 1..Len(todo[h]) /\ q[i] = todo[h][i])
      <4>1. p.name = Head(todo[h]).name
        BY <3>1
      <4> HIDE DEF p, o
      <4> QED
        BY <1>1, <1>2, <3>0, <3>1, <4>1, Again
    <3>4. todo' = [todo EXCEPT ![h] = q]
      BY <2>2, <3>0
    <3>9. PICK e : e = p
      OBVIOUS
    <3> HIDE DEF p, o
    <3>5. \A k \in Handler : k # h => todo[k] = <<>>
      BY <1>1 DEF OInv, OneRequest
    <3>6. \A i \in 1..Len(q) : Pending(q[i])'
      <4>1. Pending(e)'
        BY <1>5, <3>2, <3>9
      <4>2. \A i \in 1..Len(todo[h]) : Pending(todo[h][i])
        BY DEF OInv, Requests
      <4>3. ASSUME NEW i \in 1..Len(q) PROVE Pending(q[i])'
        <5>1. q[i] = e \/ Pending(q[i])
          BY <3>3, <3>9, <4>2
        <5> QED
          BY <1>5, <4>1, <5>1
      <4> QED
        BY <4>3
    <3>7. todo'[h] = q /\ \A k \in Handler : k # h => todo'[k] = <<>>
      BY <3>4, <3>5 DEF IInv, TypeOK
    <3>8. ASSUME NEW k \in Handler
          PROVE  (Distinct(todo[k]) /\ \A i \in 1..Len(todo[k]) : Pending(todo[k][i]))'
      <4>1. CASE k = h
        BY <3>3, <3>6, <3>7, <4>1 DEF Distinct
      <4>2. CASE k # h
        BY <3>7, <4>2 DEF Distinct
      <4> QED
        BY <4>1, <4>2
    <3> QED
      BY <3>7, <3>8 DEF Requests, OneRequest
  <2> QED
    BY <1>3, <2>1, <2>2
<1> QED
  BY <1>6, <1>7, <1>8 DEF OInv

\* StartModule is called for a module that no live supervisor works for.
LEMMA SpawnOrder ==
    ASSUME IInv, OInv, NEW m \in Module, Off(m), Spawn(m), UNCHANGED <<mainVars, chanVars>>
    PROVE  /\ SingleSupervisor' /\ AfterSignal' /\ Loop' /\ Kept'
           /\ \A n \in Module : n # m => Off(n)' = Off(n)
<1>1. PICK s \in Sup : /\ pc[s] = "idle" /\ proc[s] = "none"
                       /\ pc' = [pc EXCEPT ![s] = "starting"]
                       /\ mod' = [mod EXCEPT ![s] = m]
                       /\ UNCHANGED <<sel, proc>>
  BY DEF Spawn
<1> USE <1>1 DEF IInv, TypeOK, OInv, mainVars, chanVars
<1>2. SingleSupervisor'
  BY DEF SingleSupervisor, Live, Off
<1>3. AfterSignal' /\ Loop'
  BY DEF AfterSignal, Loop
<1>4. \A n \in Module : n # m => Off(n)' = Off(n)
  BY DEF Off
<1>5. ~Off(m)'
  BY DEF Off
<1>6. Kept'
  BY <1>4, <1>5 DEF Kept
<1> QED
  BY <1>2, <1>3, <1>4, <1>6

\* Enabling a module, or failing to find its executable.
LEMMA EnableOrder ==
    ASSUME Patient, IInv, PrivInv, OInv, NEW h \in Handler, Enable(h)
    PROVE  OInv'
<1> DEFINE m == Head(todo[h]).name
<1>1. /\ todo[h] # <<>> /\ Head(todo[h]).op = "start"
      /\ todo' = [todo EXCEPT ![h] = Tail(@)]
      /\ UNCHANGED <<mainVars, chanVars>>
      /\ Spawn(m) \/ UNCHANGED <<waiter, supVars>>
  BY DEF Enable, Doing
<1>2. todo[h] \in Seq(Op) /\ Head(todo[h]) \in Op /\ Head(todo[h]) = todo[h][1] /\ 1 \in 1..Len(todo[h])
  BY <1>1 DEF IInv, TypeOK
<1>3. m \in Module /\ Off(m)
  BY <1>1, <1>2 DEF OInv, Requests, Pending, Op
<1>4. main # "boot"
  BY <1>1 DEF OInv, Booting
<1> HIDE DEF m
<1>5. /\ SingleSupervisor' /\ AfterSignal' /\ Loop' /\ Kept'
      /\ \A n \in Module : n # m => Off(n)' = Off(n)
  <2>1. CASE Spawn(m)
    BY <1>1, <1>3, <2>1, SpawnOrder
  <2>2. CASE UNCHANGED <<waiter, supVars>>
    BY <1>1, <2>2 DEF OInv, SingleSupervisor, Live, AfterSignal, Loop, Kept, Off, chanVars, supVars, mainVars
  <2> QED
    BY <1>1, <2>1, <2>2
<1>6. Booting'
  BY <1>1, <1>4 DEF Booting, mainVars
<1>7. \A o \in Op : Pending(o) /\ (o.name \in Module => o.name # m) => Pending(o)'
  BY <1>1, <1>5 DEF Pending, chanVars
<1>8. Requests' /\ OneRequest'
  BY <1>1, <1>7, RestPending DEF m
<1> QED
  BY <1>5, <1>6, <1>8 DEF OInv

\* Disabling a module closes its canceler, and no other module has the same one.
LEMMA CloseOrder ==
    ASSUME Patient, IInv, PrivInv, OInv, NEW h \in Handler, Close(h)
    PROVE  OInv'
<1> DEFINE m == Head(todo[h]).name
<1>1. /\ todo[h] # <<>> /\ Head(todo[h]).op = "close"
      /\ todo' = [todo EXCEPT ![h] = Tail(@)]
      /\ canceler[m] # Nil /\ closed' = closed \cup {canceler[m]}
      /\ UNCHANGED <<mainVars, waiter, canceler, supVars>>
  BY DEF Close, Doing
<1>2. m \in Module
  BY <1>1, HandlerSteps DEF IInv, Op
<1>3. main # "boot"
  BY <1>1 DEF OInv, Booting
<1>4. SingleSupervisor' /\ AfterSignal' /\ Loop' /\ Kept'
  BY <1>1 DEF OInv, SingleSupervisor, Live, AfterSignal, Loop, Kept, Off, supVars, mainVars
<1>5. Booting'
  BY <1>1, <1>3 DEF Booting, mainVars
<1>6. ASSUME NEW o \in Op, Pending(o), o.name \in Module => o.name # m
      PROVE  Pending(o)'
  <2> HIDE DEF m
  <2>1. o.name \in Module => canceler[o.name] # canceler[m]
    BY <1>1, <1>2, <1>6 DEF PrivInv, CancelersDistinct
  <2>2. o.name \in Module => Off(o.name)' = Off(o.name)
    BY <1>1 DEF Off, supVars
  <2> QED
    BY <1>1, <1>6, <2>1, <2>2 DEF Pending
<1>7. Requests' /\ OneRequest'
  BY <1>1, <1>6, RestPending
<1> QED
  BY <1>4, <1>5, <1>7 DEF OInv

\* Neither panic of the code behind a request can happen.
LEMMA NoPanic ==
    ASSUME IInv, OInv, NEW h \in Handler
    PROVE  ~ClosePanics(h) /\ ~MapRace(h)
<1>1. ~ClosePanics(h)
  <2> SUFFICES ASSUME ClosePanics(h) PROVE FALSE
    OBVIOUS
  <2> DEFINE o == Head(todo[h])
  <2>1. /\ todo[h] # <<>> /\ o.op = "close"
        /\ canceler[o.name] = Nil \/ canceler[o.name] \in closed
    BY DEF ClosePanics, Doing
  <2>2. todo[h] \in Seq(Op) /\ o \in Op /\ o = todo[h][1] /\ 1 \in 1..Len(todo[h])
    BY <2>1 DEF IInv, TypeOK
  <2>3. o.name \in Module
    BY <2>1, <2>2 DEF Op
  <2>4. Pending(o)
    BY <2>2 DEF OInv, Requests
  <2> QED
    BY <2>1, <2>3, <2>4 DEF Pending
<1>2. ~MapRace(h)
  BY DEF MapRace, Doing, OInv, OneRequest
<1> QED
  BY <1>1, <1>2

\* Run, the signal and the way out of the main goroutine.
LEMMA MainOrder ==
    ASSUME Patient, IInv, PrivInv, OInv, Main \/ Sigterm
    PROVE  OInv'
<1>1. ASSUME NEW m \in Module, Boot(m)
      PROVE  OInv'
  <2>0. /\ main = "boot" /\ m \in boot /\ Off(m) /\ \A h \in Handler : todo[h] = <<>>
        /\ UNCHANGED <<ctxDone, listening, chanVars, todo>>
    BY <1>1 DEF Boot, OInv, Booting
  <2>1. OneRequest'
    BY <2>0 DEF OInv, OneRequest
  <2>2. Requests'
    BY <2>0 DEF Requests, Distinct
  <2>3. CASE Spawn(m) /\ boot' = boot \ {m} /\ UNCHANGED main
    <3>1. PICK s \in Sup : /\ pc[s] = "idle" /\ proc[s] = "none"
                           /\ pc' = [pc EXCEPT ![s] = "starting"]
                           /\ mod' = [mod EXCEPT ![s] = m]
                           /\ UNCHANGED <<sel, proc>>
      BY <2>3 DEF Spawn
    <3> USE <2>0, <2>3, <3>1 DEF IInv, TypeOK, OInv, chanVars
    <3>2. SingleSupervisor'
      BY DEF SingleSupervisor, Live, Off
    <3>3. AfterSignal' /\ Loop'
      BY DEF AfterSignal, Loop
    <3>4. /\ \A n \in Module : n # m => Off(n)' = Off(n)
          /\ ~Off(m)'
      BY DEF Off
    <3>5. Kept' /\ Booting'
      BY <3>4 DEF Kept, Booting
    <3> QED
      BY <2>1, <2>2, <3>2, <3>3, <3>5
  <2>4. CASE main' = "failed" /\ UNCHANGED <<boot, waiter, supVars>>
    <3>1. SingleSupervisor' /\ AfterSignal' /\ Loop' /\ Kept' /\ Booting'
      BY <2>0, <2>4 DEF OInv, SingleSupervisor, Live, AfterSignal, Loop, Kept, Off, Booting,
                  chanVars, supVars
    <3> QED
      BY <2>1, <2>2, <3>1 DEF OInv
  <2> QED
    BY <1>1, <2>3, <2>4 DEF Boot
<1>2. ASSUME BootDone \/ Sigterm \/ SignalSeen \/ WaitReturns \/ Exit
      PROVE  OInv'
  <2>1. /\ UNCHANGED <<boot, waiter, chanVars, supVars, todo>>
        /\ main' # "boot" \/ main' = main
        /\ ctxDone => ctxDone'
        /\ main' \in {"waiting", "released", "returned", "exited", "crashed"} => ctxDone'
    BY <1>2 DEF BootDone, Sigterm, SignalSeen, WaitReturns, Exit, OInv, AfterSignal
  <2> USE <2>1 DEF OInv, chanVars, supVars
  <2>2. SingleSupervisor' /\ AfterSignal' /\ Loop' /\ Kept' /\ Booting'
    BY DEF SingleSupervisor, Live, AfterSignal, Loop, Kept, Off, Booting
  <2>3. Requests' /\ OneRequest'
    BY DEF Requests, OneRequest, Pending, Off, Distinct
  <2> QED
    BY <2>2, <2>3
<1> QED
  BY <1>1, <1>2 DEF Main

\* Every step of the system preserves the invariant.
LEMMA NextOrder == Patient /\ IInv /\ PrivInv /\ OInv /\ [Next]_vars => OInv'
<1> SUFFICES ASSUME Patient, IInv, PrivInv, OInv, [Next]_vars PROVE OInv'
  OBVIOUS
<1>1. ASSUME NEW s \in Sup, Supervise(s) \/ ProcessExits(s) \/ KillTakesEffect(s)
      PROVE  OInv'
  BY <1>1, StartOrder, MakeCancelerOrder, EnterSelectOrder, ProcessDiedOrder, CancelOrder,
     StopOrder, AwaitExitOrder, ProcessOrder DEF Supervise
<1>2. ASSUME NEW h \in Handler, Receive(h) \/ Handle(h) \/ MapRace(h)
      PROVE  OInv'
  BY <1>2, ReceiveOrder, ExamineOrder, EnableOrder, CloseOrder, NoPanic DEF Handle
<1>3. CASE UNCHANGED vars
  BY <1>3 DEF vars, mainVars, chanVars, supVars, OInv, SingleSupervisor, Live, AfterSignal,
              Loop, Kept, Off, Booting, Requests, OneRequest, Pending, Distinct
<1> QED
  BY <1>1, <1>2, <1>3, MainOrder DEF Next

\* The invariants of the settled supervisor hold in every reachable state.
LEMMA OrderInvariant == Patient /\ Spec => [](IInv /\ PrivInv /\ OInv)
<1>1. Init => PrivInv
  BY DEF Init, PrivInv, CancelersDistinct, SelectOnly
<1>2. SUFFICES ASSUME Patient PROVE Spec => [](IInv /\ PrivInv /\ OInv)
  BY DEF Patient, Ops
<1> QED
  BY <1>1, <1>2, InitOrder, NextPriv, NextOrder, SupervisorInvariant, PTL DEF Spec

\* When operators wait for their requests to take effect, the canceler of execute.go, which
\* no lock protects, never lets two supervisors keep the same module, no request makes the
\* CPU panic, and the list of modules tells which of them are on.
THEOREM OrderlyCorrect == Patient => (Spec => []Orderly)
<1>1. IInv /\ PrivInv /\ OInv => Orderly
  <2> SUFFICES ASSUME IInv, PrivInv, OInv PROVE Orderly
    OBVIOUS
  <2>1. SingleSupervisor /\ NoCrash
    BY DEF OInv, NoCrash, AfterSignal
  <2>2. ASSUME Quiet, NEW m \in Module
        PROVE  (canceler[m] = Nil) = (\A s \in Live : mod[s] # m)
    <3>1. ~ctxDone /\ \A s \in Sup : pc[s] # "idle" => canceler[mod[s]] # Nil
      BY <2>2 DEF Quiet, OInv, Loop
    <3> QED
      BY <2>2, <3>1 DEF OInv, Kept, Off, Live
  <2> QED
    BY <2>1, <2>2 DEF Orderly, ListIsTrue
<1> QED
  BY <1>1, OrderInvariant, PTL

-----------------------------------------------------------------------------
(* The refinement of ModuleSwitch.                                         *)

\* A supervisor keeps a process for the module and has not been told to end it.
IsOn(m) == \E s \in Sup : mod[s] = m /\ pc[s] \notin {"idle", "disabling", "stopping"}

\* The module has a process that has neither exited nor been killed.
Runs(m) == \E s \in Sup : mod[s] = m /\ proc[s] = "running"

Over == main \in {"returned", "exited"}

On == {mod[s] : s \in {s \in Live : pc[s] \notin {"disabling", "stopping"}}}
Procs == [m \in Module |-> Cardinality({s \in Sup : mod[s] = m /\ proc[s] = "running"})]

\* With one supervisor per module the number of running processes is zero or one.
LEMMA Mapping ==
    IInv /\ SingleSupervisor =>
        /\ On = {m \in Module : IsOn(m)}
        /\ Procs = [m \in Module |-> IF Runs(m) THEN 1 ELSE 0]
<1> SUFFICES ASSUME IInv, SingleSupervisor
             PROVE  /\ On = {m \in Module : IsOn(m)}
                    /\ Procs = [m \in Module |-> IF Runs(m) THEN 1 ELSE 0]
  OBVIOUS
<1>1. On = {m \in Module : IsOn(m)}
  BY DEF On, IsOn, Live, IInv, Assigned, TypeOK
<1>2. ASSUME NEW m \in Module
      PROVE  Cardinality({s \in Sup : mod[s] = m /\ proc[s] = "running"})
                = IF Runs(m) THEN 1 ELSE 0
  <2> DEFINE R == {s \in Sup : mod[s] = m /\ proc[s] = "running"}
  <2>1. CASE Runs(m)
    <3>1. PICK s \in Sup : mod[s] = m /\ proc[s] = "running"
      BY <2>1 DEF Runs
    <3>2. \A t \in R : t = s
      BY <3>1 DEF IInv, Watched, SingleSupervisor, Live
    <3>3. R = {s}
      BY <3>1, <3>2
    <3> QED
      BY <2>1, <3>3, FS_Singleton
  <2>2. CASE ~Runs(m)
    <3>1. R = {}
      BY <2>2 DEF Runs
    <3> QED
      BY <2>2, <3>1, FS_EmptySet
  <2> QED
    BY <2>1, <2>2
<1> QED
  BY <1>1, <1>2 DEF Procs

\* Nothing happens to any switch, the CPU has seen to the end of all of them, or one module
\* is switched on, started, ended or switched off.
SwitchStep ==
    \/ /\ \A n \in Module : IsOn(n)' = IsOn(n) /\ Runs(n)' = Runs(n)
       /\ Over' = Over
    \/ /\ \A n \in Module : ~IsOn(n) /\ ~Runs(n) /\ ~IsOn(n)' /\ ~Runs(n)'
       /\ Over'
    \/ \E m \in Module :
          /\ Over' = Over
          /\ \A n \in Module : n # m => IsOn(n)' = IsOn(n) /\ Runs(n)' = Runs(n)
          /\ \/ ~IsOn(m) /\ ~Runs(m) /\ IsOn(m)' /\ ~Runs(m)'
             \/ IsOn(m) /\ ~Runs(m) /\ IsOn(m)' /\ Runs(m)'
             \/ Runs(m) /\ ~Runs(m)' /\ IsOn(m)' = IsOn(m)
             \/ IsOn(m) /\ ~IsOn(m)' /\ Runs(m)' = Runs(m)

\* The steps of the switch, told with IsOn and Runs.
LEMMA SwitchSteps ==
    ASSUME On = {m \in Module : IsOn(m)}, On' = {m \in Module : IsOn(m)'},
           Procs = [m \in Module |-> IF Runs(m) THEN 1 ELSE 0],
           Procs' = [m \in Module |-> IF Runs(m)' THEN 1 ELSE 0],
           SwitchStep
    PROVE  [Switch!Next]_(Switch!vars)
<1>1. CASE /\ \A n \in Module : IsOn(n)' = IsOn(n) /\ Runs(n)' = Runs(n)
           /\ Over' = Over
  <2>1. On' = On /\ Procs' = Procs
    BY <1>1
  <2> QED
    BY <1>1, <2>1 DEF Switch!vars, On, Procs, Over
<1>2. CASE /\ \A n \in Module : ~IsOn(n) /\ ~Runs(n) /\ ~IsOn(n)' /\ ~Runs(n)'
           /\ Over'
  <2>1. On = {} /\ On' = On /\ Procs' = Procs /\ \A m \in Module : Procs[m] = 0
    BY <1>2
  <2>2. Switch!Finish
    BY <1>2, <2>1 DEF Switch!Finish, On, Procs, Over
  <2> QED
    BY <2>2 DEF Switch!Next
<1>3. ASSUME NEW m \in Module, Over' = Over,
             \A n \in Module : n # m => IsOn(n)' = IsOn(n) /\ Runs(n)' = Runs(n)
      PROVE  /\ ~IsOn(m) /\ ~Runs(m) /\ IsOn(m)' /\ ~Runs(m)' => Switch!SwitchOn(m)
             /\ IsOn(m) /\ ~Runs(m) /\ IsOn(m)' /\ Runs(m)' => Switch!StartProcess(m)
             /\ Runs(m) /\ ~Runs(m)' /\ IsOn(m)' = IsOn(m) => Switch!ProcessEnds(m)
             /\ IsOn(m) /\ ~IsOn(m)' /\ Runs(m)' = Runs(m) => Switch!SwitchOff(m)
  <2>1. ASSUME ~IsOn(m), ~Runs(m), IsOn(m)', ~Runs(m)'
        PROVE  Switch!SwitchOn(m)
    <3>1. m \notin On /\ Procs[m] = 0 /\ On' = On \cup {m} /\ Procs' = Procs
      BY <1>3, <2>1
    <3> QED
      BY <1>3, <3>1 DEF Switch!SwitchOn, On, Procs, Over
  <2>2. ASSUME IsOn(m), ~Runs(m), IsOn(m)', Runs(m)'
        PROVE  Switch!StartProcess(m)
    <3>1. m \in On /\ Procs[m] = 0 /\ On' = On /\ Procs' = [Procs EXCEPT ![m] = 1]
      BY <1>3, <2>2
    <3> QED
      BY <1>3, <3>1 DEF Switch!StartProcess, On, Procs, Over
  <2>3. ASSUME Runs(m), ~Runs(m)', IsOn(m)' = IsOn(m)
        PROVE  Switch!ProcessEnds(m)
    <3>1. Procs[m] = 1 /\ On' = On /\ Procs' = [Procs EXCEPT ![m] = 0]
      BY <1>3, <2>3
    <3> QED
      BY <1>3, <3>1 DEF Switch!ProcessEnds, On, Procs, Over
  <2>4. ASSUME IsOn(m), ~IsOn(m)', Runs(m)' = Runs(m)
        PROVE  Switch!SwitchOff(m)
    <3>1. m \in On /\ On' = On \ {m} /\ Procs' = Procs
      BY <1>3, <2>4
    <3> QED
      BY <1>3, <3>1 DEF Switch!SwitchOff, On, Procs, Over
  <2> QED
    BY <2>1, <2>2, <2>3, <2>4
<1> QED
  BY <1>1, <1>2, <1>3 DEF Switch!Next, SwitchStep

\* The supervisor of a module starts its process when there is none.
LEMMA StartSwitch ==
    ASSUME Patient, IInv, OInv, NEW s \in Sup, StartProcess(s)
    PROVE  SwitchStep
<1>1. /\ pc[s] = "starting" /\ pc' = [pc EXCEPT ![s] = "started"]
      /\ proc' = [proc EXCEPT ![s] = "running"]
      /\ UNCHANGED <<main, mod>>
  BY DEF StartProcess, Patient
<1> USE <1>1 DEF IInv, TypeOK
<1>2. mod[s] \in Module
  BY DEF Assigned
<1>3. \A n \in Module : IsOn(n)' = IsOn(n)
  BY DEF IsOn
<1>4. \A n \in Module : n # mod[s] => Runs(n)' = Runs(n)
  BY DEF Runs
<1>5. IsOn(mod[s]) /\ Runs(mod[s])'
  BY DEF IsOn, Runs
<1>6. ~Runs(mod[s])
  BY DEF Runs, Watched, OInv, SingleSupervisor, Live
<1>7. Over' = Over
  BY DEF Over
<1> QED
  BY <1>2, <1>3, <1>4, <1>5, <1>6, <1>7 DEF SwitchStep

\* A supervisor that makes a canceler, waits or starts again changes no switch.
LEMMA QuietSwitch ==
    ASSUME Patient, IInv, OInv, NEW s \in Sup,
           MakeCanceler(s) \/ EnterSelect(s) \/ ProcessDied(s) \/ KillTakesEffect(s)
    PROVE  SwitchStep
<1>1. /\ \A t \in Sup : (pc'[t] \notin {"idle", "disabling", "stopping"})
                            = (pc[t] \notin {"idle", "disabling", "stopping"})
      /\ \A t \in Sup : (proc'[t] = "running") = (proc[t] = "running")
      /\ UNCHANGED <<main, mod>>
  BY DEF MakeCanceler, EnterSelect, ProcessDied, KillTakesEffect, mainVars, OInv, Loop, IInv, TypeOK
<1>2. \A n \in Module : IsOn(n)' = IsOn(n) /\ Runs(n)' = Runs(n)
  BY <1>1 DEF IsOn, Runs
<1> QED
  BY <1>1, <1>2 DEF SwitchStep, Over

\* Cancelling or stopping a supervisor switches its module off.
LEMMA OffSwitch ==
    ASSUME IInv, OInv, NEW s \in Sup, Cancel(s) \/ Stop(s)
    PROVE  SwitchStep
<1>1. /\ pc[s] = "select"
      /\ \E p \in {"disabling", "stopping"} : pc' = [pc EXCEPT ![s] = p]
      /\ UNCHANGED <<main, mod, proc>>
  BY DEF Cancel, Stop, mainVars
<1> USE <1>1 DEF IInv, TypeOK
<1>2. mod[s] \in Module
  BY DEF Assigned
<1>3. \A n \in Module : Runs(n)' = Runs(n)
  BY DEF Runs
<1>4. \A n \in Module : n # mod[s] => IsOn(n)' = IsOn(n)
  BY DEF IsOn
<1>5. IsOn(mod[s])
  BY DEF IsOn
<1>6. ~IsOn(mod[s])'
  BY DEF IsOn, OInv, SingleSupervisor, Live
<1>7. Over' = Over
  BY DEF Over
<1> QED
  BY <1>2, <1>3, <1>4, <1>5, <1>6, <1>7 DEF SwitchStep

\* The process of a module ends.
LEMMA EndSwitch ==
    ASSUME IInv, OInv, NEW s \in Sup, ProcessExits(s)
    PROVE  SwitchStep
<1>1. /\ proc[s] = "running"
      /\ \E p \in {"exited", "exited101"} : proc' = [proc EXCEPT ![s] = p]
      /\ UNCHANGED <<main, mod, pc>>
  BY DEF ProcessExits, mainVars
<1> USE <1>1 DEF IInv, TypeOK
<1>2. mod[s] \in Module
  BY DEF Assigned, Watched
<1>3. \A n \in Module : IsOn(n)' = IsOn(n)
  BY DEF IsOn
<1>4. \A n \in Module : n # mod[s] => Runs(n)' = Runs(n)
  BY DEF Runs
<1>5. Runs(mod[s])
  BY DEF Runs
<1>6. ~Runs(mod[s])'
  BY DEF Runs, OInv, SingleSupervisor, Live, Watched
<1>7. Over' = Over
  BY DEF Over
<1> QED
  BY <1>2, <1>3, <1>4, <1>5, <1>6, <1>7 DEF SwitchStep

\* A supervisor returns when the process of its module, switched off before, is gone.
LEMMA AwaitSwitch ==
    ASSUME IInv, OInv, NEW s \in Sup, AwaitExit(s)
    PROVE  SwitchStep
<1>1. /\ pc[s] \in {"disabling", "stopping"} /\ pc' = [pc EXCEPT ![s] = "idle"]
      /\ mod' = [mod EXCEPT ![s] = NoModule]
      /\ \E p \in {"none", "killed"} : proc' = [proc EXCEPT ![s] = p]
      /\ main' = main \/ (main = "waiting" /\ main' = "released")
  BY DEF AwaitExit, Return
<1> USE <1>1 DEF IInv, TypeOK
<1>2. PICK m \in Module : m = mod[s]
  BY DEF Assigned
<1>3. \A n \in Module : IsOn(n)' = IsOn(n)
  BY ConstantsAssumption DEF IsOn
<1>4. \A n \in Module : n # m => Runs(n)' = Runs(n)
  BY <1>2, ConstantsAssumption DEF Runs
<1>5. ~Runs(m)'
  BY <1>2, ConstantsAssumption DEF Runs, OInv, SingleSupervisor, Live, Watched
<1>6. ~Runs(m) => Runs(m)' = Runs(m)
  BY <1>5 DEF Runs
<1>7. Over' = Over
  BY DEF Over
<1>8. CASE Runs(m)
  BY <1>3, <1>4, <1>5, <1>7, <1>8 DEF SwitchStep
<1>9. CASE ~Runs(m)
  BY <1>3, <1>4, <1>6, <1>7, <1>9 DEF SwitchStep
<1> QED
  BY <1>8, <1>9

\* A new supervisor switches on a module that has no process.
LEMMA SpawnSwitch ==
    ASSUME IInv, OInv, NEW m \in Module, Off(m), Spawn(m), UNCHANGED main
    PROVE  SwitchStep
<1>1. PICK s \in Sup : /\ pc[s] = "idle" /\ proc[s] = "none"
                       /\ pc' = [pc EXCEPT ![s] = "starting"]
                       /\ mod' = [mod EXCEPT ![s] = m]
                       /\ UNCHANGED proc
  BY DEF Spawn
<1> USE <1>1 DEF IInv, TypeOK
<1>2. \A n \in Module : n # m => IsOn(n)' = IsOn(n)
  BY DEF IsOn
<1>3. \A n \in Module : Runs(n)' = Runs(n) \/ n = m
  BY DEF Runs
<1>4. ~IsOn(m) /\ ~Runs(m) /\ IsOn(m)' /\ ~Runs(m)'
  BY DEF IsOn, Runs, Off, Watched
<1>5. Over' = Over
  BY DEF Over
<1> QED
  BY <1>2, <1>3, <1>4, <1>5 DEF SwitchStep

\* A step that touches no supervisor changes no switch.
LEMMA SameSwitch ==
    ASSUME UNCHANGED supVars, Over' = Over
    PROVE  SwitchStep
<1>1. \A n \in Module : IsOn(n)' = IsOn(n) /\ Runs(n)' = Runs(n)
  BY DEF IsOn, Runs, supVars
<1> QED
  BY <1>1 DEF SwitchStep

\* The steps of the request handlers.
LEMMA HandlerSwitch ==
    ASSUME Patient, IInv, OInv, NEW h \in Handler, Receive(h) \/ Handle(h) \/ MapRace(h)
    PROVE  SwitchStep
<1>1. CASE Receive(h) \/ Examine(h) \/ Close(h)
  BY <1>1, SameSwitch DEF Receive, Examine, Close, Over, mainVars
<1>2. CASE Enable(h)
  <2>1. /\ todo[h] # <<>> /\ Head(todo[h]).op = "start"
        /\ UNCHANGED main
        /\ Spawn(Head(todo[h]).name) \/ UNCHANGED supVars
    BY <1>2 DEF Enable, Doing, mainVars
  <2>2. todo[h] \in Seq(Op) /\ Head(todo[h]) \in Op /\ Head(todo[h]) = todo[h][1] /\ 1 \in 1..Len(todo[h])
    BY <2>1 DEF IInv, TypeOK
  <2>3. Head(todo[h]).name \in Module /\ Off(Head(todo[h]).name)
    BY <2>1, <2>2 DEF OInv, Requests, Pending, Op
  <2>4. Over' = Over
    BY <2>1 DEF Over
  <2> QED
    BY <2>1, <2>3, <2>4, SpawnSwitch, SameSwitch
<1> QED
  BY <1>1, <1>2, NoPanic DEF Handle

\* The steps of the main goroutine: it goes on only when every module is off.
LEMMA MainSwitch ==
    ASSUME IInv, OInv, Main \/ Sigterm
    PROVE  SwitchStep
<1>1. ASSUME NEW m \in Module, Boot(m)
      PROVE  SwitchStep
  <2>1. Off(m)
    BY <1>1 DEF Boot, OInv, Booting
  <2>2. (Spawn(m) /\ UNCHANGED main) \/ (UNCHANGED supVars /\ Over' = Over)
    BY <1>1 DEF Boot, Over
  <2> QED
    BY <2>1, <2>2, SpawnSwitch, SameSwitch
<1>2. CASE BootDone \/ Sigterm \/ Exit
  BY <1>2, SameSwitch DEF BootDone, Sigterm, Exit, Over
<1>3. CASE SignalSeen \/ WaitReturns
  <2>1. CASE waiter # 0
    BY <1>3, <2>1, SameSwitch DEF SignalSeen, WaitReturns, Over
  <2>2. CASE waiter = 0
    <3>1. Live = {}
      BY <2>2, LiveFinite, FS_EmptySet DEF IInv, WaiterCounts
    <3>2. \A n \in Module : ~IsOn(n) /\ ~Runs(n)
      BY <3>1 DEF IInv, Watched, Live, IsOn, Runs
    <3>3. UNCHANGED supVars /\ Over'
      BY <1>3, <2>2 DEF SignalSeen, WaitReturns, Over
    <3>4. \A n \in Module : IsOn(n)' = IsOn(n) /\ Runs(n)' = Runs(n)
      BY <3>3 DEF IsOn, Runs, supVars
    <3> QED
      BY <3>2, <3>3, <3>4 DEF SwitchStep
  <2> QED
    BY <2>1, <2>2
<1> QED
  BY <1>1, <1>2, <1>3 DEF Main

\* When operators wait, the goroutines of execute.go, the shared canceler and the wait
\* group are a switch per module: through deaths, restarts, cancellations and kills a
\* process is started only for a module that is on and has none, and main returns only
\* when all modules are off and their processes gone.
THEOREM SwitchImplemented == Patient => (Spec => ImplementsSwitch)
<1> SUFFICES ASSUME Patient PROVE Spec => ImplementsSwitch
  OBVIOUS
<1>1. Init => Switch!Init
  <2> SUFFICES ASSUME Init PROVE Switch!Init
    OBVIOUS
  <2>1. IInv /\ SingleSupervisor
    BY InitIInv, InitOrder DEF OInv
  <2>2. \A n \in Module : ~IsOn(n) /\ ~Runs(n)
    BY ConstantsAssumption DEF Init, IsOn, Runs
  <2>3. On = {} /\ Procs = [m \in Module |-> 0]
    BY <2>1, <2>2, Mapping
  <2>4. ~Over
    BY DEF Init, Over
  <2> QED
    BY <2>3, <2>4 DEF Switch!Init, On, Procs, Over
<1>2. ASSUME IInv, OInv, IInv', OInv', [Next]_vars
      PROVE  [Switch!Next]_(Switch!vars)
  <2>1. SwitchStep
    <3>1. ASSUME NEW s \in Sup, Supervise(s) \/ ProcessExits(s) \/ KillTakesEffect(s)
          PROVE  SwitchStep
      BY <1>2, <3>1, StartSwitch, QuietSwitch, OffSwitch, EndSwitch, AwaitSwitch DEF Supervise
    <3>2. CASE UNCHANGED vars
      BY <3>2, SameSwitch DEF vars, mainVars, Over
    <3> QED
      BY <1>2, <3>1, <3>2, HandlerSwitch, MainSwitch DEF Next
  <2>2. /\ On = {m \in Module : IsOn(m)}
        /\ Procs = [m \in Module |-> IF Runs(m) THEN 1 ELSE 0]
    BY <1>2, Mapping DEF OInv
  <2>3. (IInv /\ SingleSupervisor =>
            /\ On = {m \in Module : IsOn(m)}
            /\ Procs = [m \in Module |-> IF Runs(m) THEN 1 ELSE 0])'
    BY Mapping, PTL
  <2>4. /\ On' = {m \in Module : IsOn(m)'}
        /\ Procs' = [m \in Module |-> IF Runs(m)' THEN 1 ELSE 0]
    BY <1>2, <2>3 DEF OInv
  <2> QED
    BY <2>1, <2>2, <2>4, SwitchSteps
<1> QED
  BY <1>1, <1>2, OrderInvariant, PTL DEF Spec, ImplementsSwitch, Switch!Spec

=============================================================================

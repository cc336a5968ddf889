----------------------------- MODULE Supervisor -----------------------------
(***************************************************************************)
(* The CPU module's process supervisor: StartModule (go/cpu/execute.go),   *)
(* the two ways an operator reaches it - module control messages on the    *)
(* INTERNAL topic (go/cpu/internal.go) and the HTTP API (go/cpu/api.go) -  *)
(* and the life of the CPU process itself (cpu.go Run, the main function). *)
(*                                                                         *)
(* Every call of StartModule spawns one supervisor goroutine that owns one *)
(* child process at a time.  The goroutines and the request handlers share *)
(* the field `canceler' of the module without any lock: nil is read as     *)
(* "disabled", and closing the channel is the request to disable.          *)
(***************************************************************************)
EXTENDS Naturals, FiniteSets, Sequences

CONSTANTS
    Module,     \* names in the `modules' map
    NoModule,   \* a name that is not in the map
    Sup,        \* identities of supervisor goroutines (bound: live at once)
    Chan,       \* identities of canceler channels
    Nil,        \* the nil channel
    Handler,    \* goroutines that handle requests (bound: requests in flight)
    Bus,        \* the one that runs internalHandler; the others serve HTTP
    Control,    \* ModuleControl messages the bus may deliver
    Faults,     \* what may go wrong around the child processes
    Settled     \* TRUE: operators wait until a request has taken effect

Fault == {"missing",      \* exec.LookPath does not find the executable
          "unstartable",  \* cmd.Start fails
          "dies",         \* a process exits without having been told to
          "norestart"}    \* a process exits with util.ExitNoRestart

Api == Handler \ {Bus}
\* A step of a request: the name as it came, or a module of the map after the
\* lookup and the test of its canceler.
Op == [op: {"enable", "disable"}, name: Module \cup {NoModule}]
      \cup [op: {"start", "close"}, name: Module]

ASSUME ConstantsAssumption ==
    /\ IsFiniteSet(Sup)
    /\ Nil \notin Chan
    /\ NoModule \notin Module
    /\ Faults \subseteq Fault
    /\ Settled \in BOOLEAN
    /\ Control \subseteq [enable: Seq(Module \cup {NoModule}),
                          disable: Seq(Module \cup {NoModule})]

VARIABLES
    main,       \* where the main goroutine of the CPU is
    boot,       \* modules Run has not started yet
    ctxDone,    \* SIGTERM received: the context is cancelled
    listening,  \* the goroutine that monitors INTERNAL has not returned
    waiter,     \* otsim.Waiter, a sync.WaitGroup
    canceler,   \* mod.canceler of every module
    closed,     \* channels that have been closed
    pc,         \* where every supervisor goroutine is
    mod,        \* the module a live supervisor works for
    sel,        \* the channel its select statement waits on
    proc,       \* its present child process
    todo        \* what every handler still has to do for its request

supVars == <<pc, mod, sel, proc>>
chanVars == <<canceler, closed>>
mainVars == <<main, boot, ctxDone, listening>>
vars == <<mainVars, waiter, chanVars, supVars, todo>>

MainState == {"boot", "up", "waiting", "released", "returned", "exited",
              "failed", "crashed"}
SupState == {"idle", "starting", "started", "armed", "select", "disabling", "stopping"}
ProcState == {"none", "running", "exited", "exited101", "killed"}

TypeOK ==
    /\ main \in MainState
    /\ boot \subseteq Module
    /\ ctxDone \in BOOLEAN
    /\ listening \in BOOLEAN
    /\ waiter \in Nat
    /\ canceler \in [Module -> Chan \cup {Nil}]
    /\ closed \subseteq Chan
    /\ pc \in [Sup -> SupState]
    /\ mod \in [Sup -> Module \cup {NoModule}]
    /\ sel \in [Sup -> Chan \cup {Nil}]
    /\ proc \in [Sup -> ProcState]
    /\ todo \in [Handler -> Seq(Op)]

\* Goroutines run as long as the CPU process does.
Up == main \in {"boot", "up", "waiting", "released", "returned"}

\* The goroutines that Waiter counts.
Live == {s \in Sup : pc[s] # "idle"}

\* No variable and no select statement refers to the channel.
FreeChan == {c \in Chan : /\ \A m \in Module : canceler[m] # c
                          /\ \A s \in Sup : sel[s] # c}

Init ==
    /\ main = "boot"
    /\ boot = Module
    /\ ctxDone = FALSE
    /\ listening = TRUE
    /\ waiter = 0
    /\ canceler = [m \in Module |-> Nil]
    /\ closed = {}
    /\ pc = [s \in Sup |-> "idle"]
    /\ mod = [s \in Sup |-> NoModule]
    /\ sel = [s \in Sup |-> Nil]
    /\ proc = [s \in Sup |-> "none"]
    /\ todo = [h \in Handler |-> <<>>]

-----------------------------------------------------------------------------
(* StartModule: the part that runs in the caller, then the goroutine.      *)

\* Waiter.Add(1) and the go statement.
Spawn(m) ==
    \E s \in Sup :
        /\ pc[s] = "idle"
        /\ proc[s] = "none"
        /\ pc' = [pc EXCEPT ![s] = "starting"]
        /\ mod' = [mod EXCEPT ![s] = m]
        /\ waiter' = waiter + 1
        /\ UNCHANGED <<sel, proc>>

\* Mutant: Done is called on the way out and by the deferred call again.
ReturnDoneTwice(s) ==
    /\ pc' = [pc EXCEPT ![s] = "idle"]
    /\ mod' = [mod EXCEPT ![s] = NoModule]
    /\ waiter' = waiter - 2
    /\ main' = IF main = "waiting" /\ waiter = 2 THEN "released" ELSE main

\* Mutant: the deferred Done is missing.
ReturnNoDone(s) ==
    /\ pc' = [pc EXCEPT ![s] = "idle"]
    /\ mod' = [mod EXCEPT ![s] = NoModule]
    /\ UNCHANGED <<main, waiter>>

\* `return' in the goroutine: the deferred Waiter.Done() runs, and the last one
\* releases a main goroutine that is blocked in Wait.
Return(s) ==
    /\ pc' = [pc EXCEPT ![s] = "idle"]
    /\ mod' = [mod EXCEPT ![s] = NoModule]
    /\ waiter' = waiter - 1
    /\ main' = IF main = "waiting" /\ waiter = 1 THEN "released" ELSE main

\* Top of the loop: cmd.Start succeeds, or fails and ends the goroutine.
StartProcess(s) ==
    /\ Up
    /\ pc[s] = "starting"
    /\ \/ /\ proc' = [proc EXCEPT ![s] = "running"]
          /\ pc' = [pc EXCEPT ![s] = "started"]
          /\ UNCHANGED <<main, waiter, mod>>
       \/ /\ "unstartable" \in Faults
          /\ Return(s)
          /\ UNCHANGED proc
    /\ UNCHANGED <<boot, ctxDone, listening, chanVars, sel, todo>>

\* mod.canceler = make(chan struct{})
MakeCanceler(s) ==
    /\ Up
    /\ pc[s] = "started"
    /\ \E c \in FreeChan : canceler' = [canceler EXCEPT ![mod[s]] = c]
    /\ closed' = closed \ FreeChan
    /\ pc' = [pc EXCEPT ![s] = "armed"]
    /\ UNCHANGED <<mainVars, waiter, mod, sel, proc, todo>>

\* The select statement evaluates its channel operands once, on entry.
EnterSelect(s) ==
    /\ Up
    /\ pc[s] = "armed"
    /\ sel' = [sel EXCEPT ![s] = canceler[mod[s]]]
    /\ pc' = [pc EXCEPT ![s] = "select"]
    /\ UNCHANGED <<mainVars, waiter, chanVars, mod, proc, todo>>

\* Mutant: every exit is treated as util.ExitNoRestart.
ProcessDiedReturns(s) ==
    /\ Up
    /\ pc[s] = "select"
    /\ proc[s] \in {"exited", "exited101"}
    /\ Return(s)
    /\ proc' = [proc EXCEPT ![s] = "none"]
    /\ sel' = [sel EXCEPT ![s] = Nil]
    /\ UNCHANGED <<boot, ctxDone, listening, chanVars, todo>>

\* case <-wait: the process has died; restart it unless it asked not to be.
ProcessDied(s) ==
    /\ Up
    /\ pc[s] = "select"
    /\ proc[s] \in {"exited", "exited101"}
    /\ IF proc[s] = "exited101"
       THEN Return(s)
       ELSE pc' = [pc EXCEPT ![s] = "starting"] /\ UNCHANGED <<main, waiter, mod>>
    /\ proc' = [proc EXCEPT ![s] = "none"]
    /\ sel' = [sel EXCEPT ![s] = Nil]
    /\ UNCHANGED <<boot, ctxDone, listening, chanVars, todo>>

\* Mutant: mod.canceler is not set to nil.
CancelKeepsField(s) ==
    /\ Up
    /\ pc[s] = "select"
    /\ sel[s] \in closed
    /\ pc' = [pc EXCEPT ![s] = "disabling"]
    /\ sel' = [sel EXCEPT ![s] = Nil]
    /\ UNCHANGED <<mainVars, waiter, chanVars, mod, proc, todo>>

\* Mutant: the process is not signalled, the goroutine goes back to the select.
CancelNoSignal(s) ==
    /\ Up
    /\ pc[s] = "select"
    /\ sel[s] \in closed
    /\ canceler' = [canceler EXCEPT ![mod[s]] = Nil]
    /\ pc' = [pc EXCEPT ![s] = "armed"]
    /\ sel' = [sel EXCEPT ![s] = Nil]
    /\ UNCHANGED <<mainVars, waiter, closed, mod, proc, todo>>

\* case <-mod.canceler: SIGTERM, and the module counts as disabled at once.
Cancel(s) ==
    /\ Up
    /\ pc[s] = "select"
    /\ sel[s] \in closed
    /\ canceler' = [canceler EXCEPT ![mod[s]] = Nil]
    /\ pc' = [pc EXCEPT ![s] = "disabling"]
    /\ sel' = [sel EXCEPT ![s] = Nil]
    /\ UNCHANGED <<mainVars, waiter, closed, mod, proc, todo>>

\* case <-ctx.Done(): SIGTERM.
Stop(s) ==
    /\ Up
    /\ pc[s] = "select"
    /\ ctxDone
    /\ pc' = [pc EXCEPT ![s] = "stopping"]
    /\ sel' = [sel EXCEPT ![s] = Nil]
    /\ UNCHANGED <<mainVars, waiter, chanVars, mod, proc, todo>>

\* Mutant: after ten seconds the goroutine returns without a kill.
AwaitExitNoKill(s) ==
    /\ Up
    /\ pc[s] \in {"disabling", "stopping"}
    /\ proc' = [proc EXCEPT ![s] = IF @ = "running" THEN @ ELSE "none"]
    /\ Return(s)
    /\ UNCHANGED <<boot, ctxDone, listening, chanVars, sel, todo>>

\* Mutant: no time limit.
AwaitExitForever(s) ==
    /\ Up
    /\ pc[s] \in {"disabling", "stopping"}
    /\ proc[s] \in {"exited", "exited101"}
    /\ proc' = [proc EXCEPT ![s] = "none"]
    /\ Return(s)
    /\ UNCHANGED <<boot, ctxDone, listening, chanVars, sel, todo>>

\* The signalled process exits, or ten seconds pass and it is killed.
AwaitExit(s) ==
    /\ Up
    /\ pc[s] \in {"disabling", "stopping"}
    /\ \/ /\ proc[s] \in {"exited", "exited101"}
          /\ proc' = [proc EXCEPT ![s] = "none"]
       \/ proc' = [proc EXCEPT ![s] = IF @ = "running" THEN "killed" ELSE "none"]
    /\ Return(s)
    /\ UNCHANGED <<boot, ctxDone, listening, chanVars, sel, todo>>

-----------------------------------------------------------------------------
(* Child processes, followed while the CPU runs.                           *)

ProcessExits(s) ==
    /\ Up
    /\ proc[s] = "running"
    /\ pc[s] \in {"disabling", "stopping"} \/ "dies" \in Faults
    /\ \E e \in {"exited"} \cup IF "norestart" \in Faults THEN {"exited101"} ELSE {} :
          proc' = [proc EXCEPT ![s] = e]
    /\ UNCHANGED <<mainVars, waiter, chanVars, pc, mod, sel, todo>>

\* SIGKILL cannot be caught.
KillTakesEffect(s) ==
    /\ Up
    /\ proc[s] = "killed"
    /\ proc' = [proc EXCEPT ![s] = "none"]
    /\ UNCHANGED <<mainVars, waiter, chanVars, pc, mod, sel, todo>>

-----------------------------------------------------------------------------
(* Requests: internalHandler, handleEnableModule, handleDisableModule.     *)

Ops(r) == [i \in 1..Len(r.enable) |-> [op |-> "enable", name |-> r.enable[i]]]
          \o [i \in 1..Len(r.disable) |-> [op |-> "disable", name |-> r.disable[i]]]

\* What a patient operator waits for before sending a request.
Quiet == /\ main = "up" /\ ~ctxDone
         /\ \A h \in Handler : todo[h] = <<>>
         /\ \A s \in Sup : pc[s] \in {"idle", "select"} /\ sel[s] \notin closed

\* A request reaches its handler; an API request names a single module.  The loop of
\* MonitorMsgBusChannel looks at the context between two messages only, so it takes
\* one more message after the context is cancelled.
Receive(h) ==
    /\ Up /\ main # "boot"
    /\ h = Bus => listening
    /\ listening' = (listening /\ ~(h = Bus /\ ctxDone))
    /\ todo[h] = <<>>
    /\ Settled => Quiet
    /\ \E r \in Control :
          /\ h \in Api => Len(r.enable) + Len(r.disable) = 1
          /\ todo' = [todo EXCEPT ![h] = Ops(r)]
    /\ UNCHANGED <<main, boot, ctxDone, waiter, chanVars, supVars>>

\* The test of mod.canceler: the operation ends with an error, or goes on.
Examine(h) ==
    /\ Up
    /\ todo[h] # <<>>
    /\ LET o == Head(todo[h])
           goesOn == /\ o.name \in Module
                     /\ (o.op = "enable") = (canceler[o.name] = Nil)
       IN /\ o.op \in {"enable", "disable"}
          /\ todo' = [todo EXCEPT ![h] =
                 IF goesOn
                 THEN <<[o EXCEPT !.op = IF @ = "enable" THEN "start" ELSE "close"]>>
                      \o Tail(@)
                 ELSE Tail(@)]
    /\ UNCHANGED <<mainVars, waiter, chanVars, supVars>>

Doing(h, op) == todo[h] # <<>> /\ Head(todo[h]).op = op

\* StartModule(mod.ctx, mod)
Enable(h) ==
    /\ Up
    /\ Doing(h, "start")
    /\ \/ Spawn(Head(todo[h]).name)
       \/ "missing" \in Faults /\ UNCHANGED <<waiter, supVars>>
    /\ todo' = [todo EXCEPT ![h] = Tail(@)]
    /\ UNCHANGED <<mainVars, chanVars>>

\* close(mod.canceler), which reads the field again.
Close(h) ==
    /\ Up
    /\ Doing(h, "close")
    /\ LET c == canceler[Head(todo[h]).name]
       IN /\ c # Nil /\ c \notin closed
          /\ closed' = closed \cup {c}
    /\ todo' = [todo EXCEPT ![h] = Tail(@)]
    /\ UNCHANGED <<mainVars, waiter, canceler, supVars>>

\* close of a nil or closed channel panics.  net/http recovers the panic of a
\* handler; on the bus goroutine it ends the CPU process.
ClosePanics(h) ==
    /\ Up
    /\ Doing(h, "close")
    /\ LET c == canceler[Head(todo[h]).name] IN c = Nil \/ c \in closed
    /\ main' = IF h = Bus THEN "crashed" ELSE main
    /\ todo' = [todo EXCEPT ![h] = <<>>]
    /\ UNCHANGED <<boot, ctxDone, listening, waiter, chanVars, supVars>>

\* `modules' is a plain map: the runtime may abort the process when one
\* handler writes it in StartModule while another one uses it.
MapRace(h) ==
    /\ Up
    /\ Doing(h, "start")
    /\ \E k \in Handler \ {h} : todo[k] # <<>> /\ Head(todo[k]).op # "close"
    /\ main' = "crashed"
    /\ UNCHANGED <<boot, ctxDone, listening, waiter, chanVars, supVars, todo>>

-----------------------------------------------------------------------------
(* The CPU process: Run starts the modules, main waits for the signal and  *)
(* for the supervisors.                                                    *)

Boot(m) ==
    /\ main = "boot"
    /\ m \in boot
    /\ \/ /\ Spawn(m)
          /\ boot' = boot \ {m}
          /\ UNCHANGED main
       \/ /\ "missing" \in Faults
          /\ main' = "failed"
          /\ UNCHANGED <<boot, waiter, supVars>>
    /\ UNCHANGED <<ctxDone, listening, chanVars, todo>>

BootDone ==
    /\ main = "boot"
    /\ boot = {}
    /\ main' = "up"
    /\ UNCHANGED <<boot, ctxDone, listening, waiter, chanVars, supVars, todo>>

Sigterm ==
    /\ Up
    /\ ~ctxDone
    /\ ctxDone' = TRUE
    /\ UNCHANGED <<main, boot, listening, waiter, chanVars, supVars, todo>>

\* Mutant: main does not wait.
SignalSeenNoWait ==
    /\ main = "up"
    /\ ctxDone
    /\ main' = "returned"
    /\ UNCHANGED <<boot, ctxDone, listening, waiter, chanVars, supVars, todo>>

\* <-ctx.Done(), then otsim.Waiter.Wait(), which blocks unless the count is 0.
SignalSeen ==
    /\ main = "up"
    /\ ctxDone
    /\ main' = IF waiter = 0 THEN "returned" ELSE "waiting"
    /\ UNCHANGED <<boot, ctxDone, listening, waiter, chanVars, supVars, todo>>

\* Wait wakes up; it panics if the WaitGroup has been used again meanwhile.
WaitReturns ==
    /\ main = "released"
    /\ main' = IF waiter = 0 THEN "returned" ELSE "crashed"
    /\ UNCHANGED <<boot, ctxDone, listening, waiter, chanVars, supVars, todo>>

Exit ==
    /\ main = "returned"
    /\ main' = "exited"
    /\ UNCHANGED <<boot, ctxDone, listening, waiter, chanVars, supVars, todo>>

-----------------------------------------------------------------------------
Supervise(s) == StartProcess(s) \/ MakeCanceler(s) \/ EnterSelect(s)
                \/ ProcessDied(s) \/ Cancel(s) \/ Stop(s) \/ AwaitExit(s)
Handle(h) == Examine(h) \/ Enable(h) \/ Close(h) \/ ClosePanics(h)
Main == BootDone \/ SignalSeen \/ WaitReturns \/ Exit \/ \E m \in Module : Boot(m)

Next == \/ \E s \in Sup : Supervise(s) \/ ProcessExits(s) \/ KillTakesEffect(s)
        \/ \E h \in Handler : Receive(h) \/ Handle(h) \/ MapRace(h)
        \/ Main
        \/ Sigterm

\* Goroutines that can run do run, timers fire and SIGKILL works.  The Go
\* select statement chooses among ready cases at random, so a case that is
\* ready again and again is taken in the end: strong fairness of the cases.
\* Nothing is assumed of operators, signals, or processes that should exit.
Fairness ==
    /\ \A s \in Sup : /\ WF_vars(Supervise(s))
                      /\ SF_vars(Stop(s))
                      /\ SF_vars(Cancel(s))
                      /\ WF_vars(KillTakesEffect(s))
    /\ \A h \in Handler : WF_vars(Handle(h))
    /\ WF_vars(Main)

Spec == Init /\ [][Next]_vars
FairSpec == Spec /\ Fairness

-----------------------------------------------------------------------------
(* Properties.                                                             *)

\* Every child process that has not been killed is watched: its supervisor is at
\* a point of the loop from which it reaches a select statement that receives the
\* exit of the process (execute.go:203-252).
Watched ==
    \A s \in Sup : proc[s] = "running" =>
        pc[s] \in {"started", "armed", "select", "disabling", "stopping"}

\* otsim.Waiter counts exactly the supervisor goroutines that have not returned,
\* across restarts, failed starts, cancellations and forced kills.
WaiterCounts == waiter = Cardinality(Live)

\* main.go:43: when Waiter.Wait returns, no child process is left that has
\* neither exited nor been killed.
WaitMeansStopped ==
    [][(main # "returned" /\ main' = "returned") =>
          \A s \in Sup : proc[s] # "running"]_vars

\* After SIGTERM the CPU comes to an end, whatever processes ignore the signal
\* and whatever is requested meanwhile, unless requests never cease.
ShutdownCompletes ==
    <>[][\A h \in Handler : ~Receive(h)]_vars => (ctxDone ~> ~Up)

\* execute.go:66: a process that dies is started again, unless its module is
\* being disabled or the CPU is stopping.
RestartedIfItDies ==
    \A s \in Sup : (pc[s] = "select" /\ proc[s] = "exited") ~>
        (proc[s] = "running" \/ pc[s] \in {"disabling", "stopping"} \/ ~Up)

\* At most one supervisor goroutine, hence one process, per module.
SingleSupervisor == \A s, t \in Live : mod[s] = mod[t] => s = t

\* Until SIGTERM arrives no request makes the CPU panic (internal.go:68: close of
\* a nil or closed channel; execute.go:76: concurrent use of a map).
NoCrash == main = "crashed" => ctxDone

\* Between requests, a module is listed as disabled (internal.go:39, api.go:241)
\* exactly if no supervisor keeps a process for it.
ListIsTrue ==
    Quiet => \A m \in Module : (canceler[m] = Nil) = (\A s \in Live : mod[s] # m)

\* With settled requests the canceler field, which nothing protects, does what a lock
\* around "is it enabled" would: one supervisor per module, no panic, a true list.
Orderly == SingleSupervisor /\ NoCrash /\ ListIsTrue

\* execute.go:223: once the channel that a supervisor waits on has been closed, its
\* process comes to an end, by itself or by force, whoever else makes requests.  (A
\* Disable that finds the channel of an earlier process has no such effect.)
DisableStops ==
    \A s \in Sup : (sel[s] # Nil /\ sel[s] \in closed) ~> (proc[s] # "running" \/ ~Up)
-----------------------------------------------------------------------------
(* The promise of ModuleSwitch: a module is on while a supervisor keeps a  *)
(* process for it and has not been told to end it.                         *)

Switch == INSTANCE ModuleSwitch WITH
    on <- {mod[s] : s \in {s \in Live : pc[s] \notin {"disabling", "stopping"}}},
    procs <- [m \in Module |-> Cardinality({s \in Sup : mod[s] = m /\ proc[s] = "running"})],
    over <- main \in {"returned", "exited"}

\* With settled requests the goroutines, the shared canceler and the wait group are a
\* switch per module (execute.go:69-258): a process is started only for a module that is
\* on and has none, through all deaths, restarts and kills, and main goes on only when all
\* are off.
ImplementsSwitch == Switch!Spec
=============================================================================

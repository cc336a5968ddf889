------------------------------- MODULE Logic -------------------------------
(***************************************************************************)
(* The logic module (go/logic/logic.go): a ticker goroutine evaluates the  *)
(* program once per period and publishes the results; the subscriber       *)
(* goroutine writes values from the bus into the same environment.  Both   *)
(* take the mutex envMu.                                                   *)
(*                                                                         *)
(* A value is a float or a boolean.  The bus carries JSON, in which a NaN  *)
(* cannot be encoded: msgbus.NewEnvelope fails on it.                      *)
(***************************************************************************)
EXTENDS Naturals, Sequences, FiniteSets

CONSTANTS
    Var,             \* variables of the program
    Tagged,          \* those listed under <variables>, hence with a tag
    Program,         \* lines: [var |-> v, fn |-> environment -> result]
    Num,             \* the floats
    NaN,             \* the float that is not equal to itself
    Failed,          \* expr.Run returns an error
    Start,           \* the environment Configure builds
    ProcessUpdates,  \* the <process-updates> option
    MaxInbox         \* bound: messages waiting for the subscriber

Value == [type: {"float"}, val: Num \cup {NaN}] \cup [type: {"bool"}, val: {0, 1}]
Env == [Var -> Value]

ASSUME LogicAssumption ==
    /\ Tagged \subseteq Var
    /\ Program \in Seq([var: Var, fn: [Env -> Value \cup {Failed}]])
    /\ Start \in Env
    /\ ProcessUpdates \in BOOLEAN
    /\ {0, 1} \subseteq Num /\ NaN \notin Num
    /\ Failed \notin Value

\* A message of another module, or one of this module coming back.
Message == [sender: {"self", "other"}, kind: {"status", "update"}, tag: Tagged, val: Num]

VARIABLES
    env,      \* this.env
    mutex,    \* who holds envMu
    tick,     \* where the ticker goroutine is
    updated,  \* result of execute
    inbox,    \* messages the subscriber has not read
    handling, \* the message its handler works on
    before,   \* history: env when the ticker took the lock
    status,   \* the Status published in the last tick
    update,   \* its Update
    failed    \* history: which of the two could not be pushed

vars == <<env, mutex, tick, updated, inbox, handling, before, status, update, failed>>

TickState == {"idle", "exec", "status", "update", "unlock"}
NoMessage == [sender |-> "none"]
NoPoints == [v \in {} |-> 0]

TypeOK ==
    /\ env \in Env
    /\ mutex \in {"free", "ticker", "handler"}
    /\ tick \in TickState
    /\ updated \subseteq Var
    /\ inbox \in Seq(Message)
    /\ handling \in Message \cup {NoMessage}
    /\ before \in Env
    /\ \E S \in SUBSET Tagged : status \in [S -> Num]
    /\ \E S \in SUBSET Tagged : update \in [S -> Num]
    /\ failed \subseteq {"status", "update"}

Init ==
    /\ env = Start
    /\ mutex = "free"
    /\ tick = "idle"
    /\ updated = {}
    /\ inbox = <<>>
    /\ handling = NoMessage
    /\ before = Start
    /\ status = NoPoints
    /\ update = NoPoints
    /\ failed = {}

-----------------------------------------------------------------------------
\* Mutant: a change to zero or false is taken for no change.
DiffersNonzero(a, b) == a # b /\ a.val # 0

\* Go's != on values: of different types, of different value, or a NaN.
Differs(a, b) == a # b \/ a.val = NaN

\* One line: assign the result and remember a tagged variable that changed.
ExecuteLine(line, st) ==
    LET result == line.fn[st.env] IN
    IF result = Failed THEN st
    ELSE [env |-> [st.env EXCEPT ![line.var] = result],
          updated |-> IF line.var \in Tagged /\ Differs(result, st.env[line.var])
                      THEN st.updated \cup {line.var} ELSE st.updated]

\* The program from the first line to the last.
Execute(e) ==
    LET run[i \in 0..Len(Program)] ==
            IF i = 0 THEN [env |-> e, updated |-> {}]
            ELSE ExecuteLine(Program[i], run[i-1])
    IN run[Len(Program)]

\* Tagged variables that some line assigns: the Status of every tick.
Assigned == {Program[i].var : i \in 1..Len(Program)} \cap Tagged

\* point.Value of the variables: booleans become 1 and 0.
PointsOf(S) == [v \in S |-> env[v].val]
Encodable(points) == \A v \in DOMAIN points : points[v] # NaN

\* A Push: the bus hands the message to this module's subscriber too.
Echo(kind, points) ==
    \/ UNCHANGED inbox
    \/ /\ Len(inbox) < MaxInbox
       /\ \E v \in DOMAIN points :
             inbox' = Append(inbox, [sender |-> "self", kind |-> kind, tag |-> v,
                                     val |-> points[v]])

-----------------------------------------------------------------------------
(* The ticker goroutine.                                                   *)

Lock ==
    /\ tick = "idle"
    /\ mutex = "free"
    /\ mutex' = "ticker"
    /\ tick' = "exec"
    /\ before' = env
    /\ status' = NoPoints
    /\ update' = NoPoints
    /\ failed' = {}
    /\ UNCHANGED <<env, updated, inbox, handling>>

RunProgram ==
    /\ tick = "exec"
    /\ env' = Execute(env).env
    /\ updated' = Execute(env).updated
    /\ tick' = "status"
    /\ UNCHANGED <<mutex, inbox, handling, before, status, update, failed>>

\* Both publications: an encoding error is followed by `continue', which skips the rest of
\* the tick, Unlock included; an error of Push is only logged and the tick goes on.
PublishStatus ==
    /\ tick = "status"
    /\ LET points == PointsOf(Assigned) IN
       \/ Assigned = {} /\ tick' = "update" /\ UNCHANGED <<inbox, status, failed>>
       \/ /\ Assigned # {} /\ Encodable(points)
          /\ status' = points
          /\ Echo("status", points)
          /\ tick' = "update"
          /\ UNCHANGED failed
       \/ /\ Assigned # {} /\ Encodable(points)
          /\ failed' = failed \cup {"status"}
          /\ tick' = "update"
          /\ UNCHANGED <<inbox, status>>
       \/ ~Encodable(points) /\ tick' = "idle" /\ UNCHANGED <<inbox, status, failed>>
    /\ UNCHANGED <<env, mutex, updated, handling, before, update>>

PublishUpdate ==
    /\ tick = "update"
    /\ LET points == PointsOf(updated) IN
       \/ updated = {} /\ tick' = "unlock" /\ UNCHANGED <<inbox, update, failed>>
       \/ /\ updated # {} /\ Encodable(points)
          /\ update' = points
          /\ Echo("update", points)
          /\ tick' = "unlock"
          /\ UNCHANGED failed
       \/ /\ updated # {} /\ Encodable(points)
          /\ failed' = failed \cup {"update"}
          /\ tick' = "unlock"
          /\ UNCHANGED <<inbox, update>>
       \/ ~Encodable(points) /\ tick' = "idle" /\ UNCHANGED <<inbox, update, failed>>
    /\ UNCHANGED <<env, mutex, updated, handling, before, status>>

Unlock ==
    /\ tick = "unlock"
    /\ mutex' = "free"
    /\ tick' = "idle"
    /\ updated' = {}
    /\ UNCHANGED <<env, inbox, handling, before, status, update, failed>>

-----------------------------------------------------------------------------
(* The subscriber goroutine: handleMsgBusStatus and handleMsgBusUpdate.    *)

Arrive ==
    /\ Len(inbox) < MaxInbox
    /\ \E m \in Message : m.sender = "other" /\ inbox' = Append(inbox, m)
    /\ UNCHANGED <<env, mutex, tick, updated, handling, before, status, update, failed>>

\* No handler, or a message of this module's own: nothing to do.
Ignored(m) == m.sender = "self" \/ (m.kind = "update" /\ ~ProcessUpdates)

Receive ==
    /\ handling = NoMessage
    /\ inbox # <<>>
    /\ handling' = IF Ignored(Head(inbox)) THEN NoMessage ELSE Head(inbox)
    /\ inbox' = Tail(inbox)
    /\ UNCHANGED <<env, mutex, tick, updated, before, status, update, failed>>

HandlerLock ==
    /\ handling # NoMessage
    /\ mutex = "free"
    /\ mutex' = "handler"
    /\ UNCHANGED <<env, tick, updated, inbox, handling, before, status, update, failed>>

\* Mutant: the handler does not use the lock.
ApplyUnlocked ==
    /\ handling # NoMessage
    /\ env' = [env EXCEPT ![handling.tag] = [type |-> "float", val |-> handling.val]]
    /\ mutex' = IF mutex = "handler" THEN "free" ELSE mutex
    /\ handling' = NoMessage
    /\ UNCHANGED <<tick, updated, inbox, before, status, update, failed>>

\* Mutant: the handler does not release the lock.
ApplyNoUnlock ==
    /\ handling # NoMessage
    /\ mutex = "handler"
    /\ env' = [env EXCEPT ![handling.tag] = [type |-> "float", val |-> handling.val]]
    /\ handling' = NoMessage
    /\ UNCHANGED <<mutex, tick, updated, inbox, before, status, update, failed>>

\* Points of the bus are floats, whatever the type of the variable was.
Apply ==
    /\ handling # NoMessage
    /\ mutex = "handler"
    /\ env' = [env EXCEPT ![handling.tag] = [type |-> "float", val |-> handling.val]]
    /\ mutex' = "free"
    /\ handling' = NoMessage
    /\ UNCHANGED <<tick, updated, inbox, before, status, update, failed>>

-----------------------------------------------------------------------------
Ticker == Lock \/ RunProgram \/ PublishStatus \/ PublishUpdate \/ Unlock
Handler == Receive \/ HandlerLock \/ Apply

Next == Ticker \/ Handler \/ Arrive

\* Both goroutines run; sync.Mutex hands the lock to a waiter that has starved
\* for a millisecond, so neither waits for ever while it is free again and again.
Fairness == /\ WF_vars(Ticker) /\ SF_vars(Lock)
            /\ WF_vars(Handler) /\ SF_vars(HandlerLock)

Spec == Init /\ [][Next]_vars
FairSpec == Spec /\ Fairness

-----------------------------------------------------------------------------
(* Properties.                                                             *)

\* What a tick works on: while the ticker goroutine is inside a tick the environment
\* changes by the program only, so all that it publishes belongs to one evaluation
\* (envMu, logic.go:199-297).
Snapshot ==
    /\ tick # "idle" => mutex = "ticker"
    /\ tick = "exec" => env = before
    /\ tick \in {"status", "update", "unlock"} =>
         env = Execute(before).env /\ updated = Execute(before).updated

\* The types, and that a tick works on one snapshot of the environment whatever messages
\* arrive (logic.go:199-297).
LogicInv == TypeOK /\ Snapshot

\* When a tick ends, every tagged variable whose published value the evaluation changed has
\* been announced by an Update with its final value, unless the Push of that Update failed;
\* even then the Status of the tick shows the value, unless its Push failed too, and no
\* Update says anything else (logic.go:233-295).
NoLostChange ==
    tick = "unlock" => \A v \in Assigned :
        /\ env[v].val # before[v].val /\ "update" \notin failed => v \in DOMAIN update
        /\ "status" \notin failed => v \in DOMAIN status /\ status[v] = env[v].val
        /\ v \in DOMAIN update => update[v] = env[v].val

\* README.md:54: custom logic is evaluated: the ticker keeps evaluating it.
KeepsEvaluating == []<>(tick = "exec")
=============================================================================

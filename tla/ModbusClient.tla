---------------------------- MODULE ModbusClient ----------------------------
(***************************************************************************)
(* The Modbus module as a master (go/modbus/client), with the outstation   *)
(* it polls: the gateway of testing/e2e/README.md.                         *)
(*                                                                         *)
(* One goroutine reads all registers every period, one request each, and   *)
(* pushes what it could read as one Status.  The subscriber goroutine      *)
(* turns the points of an Update into writes.  It is started before the    *)
(* client of the library is made: a write in between panics, and the CPU   *)
(* starts the module again.  The library lets one request through at a     *)
(* time, so that each request is a step; those of the two goroutines       *)
(* interleave.                                                             *)
(*                                                                         *)
(* A request of the client is about one register, which the outstation     *)
(* serves under one lock (module ModbusServer): it is a step on the values *)
(* `field' of its tags.                                                    *)
(***************************************************************************)
EXTENDS Register

CONSTANTS
    Elements,   \* the <register> elements: a sequence of [tag, type, dt, factor]
    Present,    \* tags whose address exists on the outstation
    Point,      \* <<tag, value>>, also of tags the client has no register for
    Command,    \* Updates other modules may push: sequences of points
    Level,      \* values a point may take in the field
    None,
    MaxCommands, MaxFaults, MaxChanges  \* bounds on the environment

ASSUME ClientAssumption ==
    /\ Len(Elements) \in Nat
    /\ \A i \in 1..Len(Elements) :
          /\ Elements[i].type \in {"coil", "discrete", "input", "holding"}
          /\ Elements[i].factor \in Nat \ {0}
          /\ Exact(Elements[i].dt)
    /\ None \notin Int
    /\ Command \subseteq Seq(Point)
    /\ \A p \in Point : p[2] \in Int
    /\ Level \subseteq Int
    /\ {MaxCommands, MaxFaults, MaxChanges} \subseteq Nat

\* Configure: registers are kept by tag, so of two elements with a tag the last one counts.
Configure(elements) ==
    LET named(t) == {i \in 1..Len(elements) : elements[i].tag = t}
    IN [t \in {elements[i].tag : i \in 1..Len(elements)} |->
            elements[CHOOSE i \in named(t) : \A j \in named(t) : j <= i]]

Reg == Configure(Elements)
Tag == DOMAIN Reg

ASSUME PresentAssumption == Present \subseteq Tag

VARIABLES
    run,       \* "starting": the subscriber runs, this.client is nil; "up"; "crashed"
    field,     \* values of the tags on the outstation
    link,      \* the outstation can be reached
    scanning,  \* a scan is under way
    todo,      \* registers it has not read yet
    points,    \* measurements collected by the scan
    mirror,    \* what the other modules last heard of each tag
    connected, \* and of the connection
    inbox,     \* Updates on their way to the client
    writing,   \* points of the Update being handled
    held,      \* history: values of each tag since the scan began
    could,     \* history: link states since the scan began
    told,      \* history: link states during the scan behind the last Status delivered
    last,      \* history: the last value commanded for each tag, None if it was
               \* overtaken by the field, lost, or a write to the tag failed since
    commands, faults, changes   \* counters for the bounds

envVars == <<commands, faults, changes>>
history == <<held, could, told, last>>
vars == <<run, field, link, scanning, todo, points, mirror, connected, inbox, writing, history, envVars>>

IsBit(t) == Reg[t].type \in {"coil", "discrete"}
Writable(t) == Reg[t].type \in {"coil", "holding"}

\* What the outstation sends for a tag with value v.
Sent(t, v) == IF IsBit(t) THEN {<<IF v = 0 THEN 0 ELSE 1>>} ELSE Bytes(Reg[t], v)

\* What reg.Value may make of the data of a reply.
Read(t, ws) == IF IsBit(t) THEN {ws[1] * Unit} ELSE Value(Reg[t], ws)

\* What a scan may report of a tag with value v.
Shown(t, v) == UNION {Read(t, ws) : ws \in Sent(t, v)}

\* What a command of value v may make of the tag: a coil takes 0xFF00 for anything but
\* zero, a holding register the bytes of the number.
Commanded(t, v) ==
    IF IsBit(t) THEN {IF v # 0 THEN Unit ELSE 0}
    ELSE UNION {Value(Reg[t], ws) : ws \in Bytes(Reg[t], v)}

TypeOK ==
    /\ run \in {"starting", "up", "crashed"}
    /\ field \in [Tag -> Int]
    /\ link \in {"up", "down"}
    /\ scanning \in BOOLEAN
    /\ todo \subseteq Tag
    /\ \E S \in SUBSET Present : points \in [S -> Int]
    /\ mirror \in [Tag -> Int \cup {None}]
    /\ connected \in BOOLEAN
    /\ inbox \in Seq(Command)
    /\ writing \in Seq(Point)
    /\ held \in [Tag -> SUBSET Int]
    /\ could \subseteq {"up", "down"} /\ told \subseteq {"up", "down"}
    /\ last \in [Tag -> Int \cup {None}]
    /\ commands \in 0..MaxCommands /\ faults \in 0..MaxFaults /\ changes \in 0..MaxChanges

NoPoints == [t \in {} |-> 0]

\* Run has started the subscriber.
Init ==
    /\ run = "starting"
    /\ field = [t \in Tag |-> 0]
    /\ link = "up"
    /\ scanning = FALSE
    /\ todo = {}
    /\ points = NoPoints
    /\ mirror = [t \in Tag |-> None]
    /\ connected = FALSE
    /\ inbox = <<>>
    /\ writing = <<>>
    /\ held = [t \in Tag |-> {}]
    /\ could = {}
    /\ told = {}
    /\ last = [t \in Tag |-> None]
    /\ commands = 0 /\ faults = 0 /\ changes = 0

-----------------------------------------------------------------------------
(* The scan.                                                               *)

\* this.client is set and the goroutine of the scans started.
NewClient ==
    /\ run = "starting"
    /\ run' = "up"
    /\ UNCHANGED <<field, link, scanning, todo, points, mirror, connected, inbox, writing, history, envVars>>

\* Mutant: the measurements start out with those the modules know.
BeginScanKeeps ==
    /\ run = "up"
    /\ ~scanning
    /\ scanning' = TRUE
    /\ todo' = Tag
    /\ points' = [t \in {u \in Tag : mirror[u] # None} |-> mirror[t]]
    /\ held' = [t \in Tag |-> {field[t]}]
    /\ could' = {link}
    /\ UNCHANGED <<run, field, link, mirror, connected, inbox, writing, told, last, envVars>>

\* <-time.After(period).
BeginScan ==
    /\ run = "up"
    /\ ~scanning
    /\ scanning' = TRUE
    /\ todo' = Tag
    /\ points' = NoPoints
    /\ held' = [t \in Tag |-> {field[t]}]
    /\ could' = {link}
    /\ UNCHANGED <<run, field, link, mirror, connected, inbox, writing, told, last, envVars>>

\* One turn of the loop over the map of registers, in no particular order.  A register
\* that cannot be read is left out.
ReadRegister(t) ==
    /\ scanning
    /\ t \in todo
    /\ todo' = todo \ {t}
    /\ IF link = "up" /\ t \in Present
       THEN \E v \in Shown(t, field[t]) :
                points' = [u \in DOMAIN points \cup {t} |-> IF u = t THEN v ELSE points[u]]
       ELSE UNCHANGED points
    /\ UNCHANGED <<run, field, link, scanning, mirror, connected, inbox, writing, history, envVars>>

\* Mutant: the point `connected' is counted among the measurements.
PushStatusFlagged ==
    /\ scanning
    /\ todo = {}
    /\ scanning' = FALSE
    /\ \/ /\ mirror' = [t \in Tag |-> IF t \in DOMAIN points THEN points[t] ELSE mirror[t]]
          /\ connected' = TRUE
          /\ told' = could
          /\ UNCHANGED faults
       \/ /\ faults < MaxFaults
          /\ faults' = faults + 1
          /\ UNCHANGED <<mirror, connected, told>>
    /\ points' = NoPoints
    /\ held' = [t \in Tag |-> {}]
    /\ could' = {}
    /\ UNCHANGED <<run, field, link, todo, inbox, writing, last, commands, changes>>

\* Mutant: an incomplete scan is not pushed.
PushStatusComplete ==
    /\ scanning
    /\ todo = {}
    /\ scanning' = FALSE
    /\ IF DOMAIN points = Tag
       THEN mirror' = points /\ connected' = TRUE
       ELSE UNCHANGED <<mirror, connected>>
    /\ points' = NoPoints
    /\ held' = [t \in Tag |-> {}]
    /\ could' = {}
    /\ UNCHANGED <<run, field, link, todo, inbox, writing, told, last, envVars>>

\* The Status with the point `connected' is pushed; a push that fails is only logged.  The
\* list of points goes out of scope.
PushStatus ==
    /\ scanning
    /\ todo = {}
    /\ scanning' = FALSE
    /\ \/ /\ mirror' = [t \in Tag |-> IF t \in DOMAIN points THEN points[t] ELSE mirror[t]]
          /\ connected' = (DOMAIN points # {})
          /\ told' = could
          /\ UNCHANGED faults
       \/ /\ faults < MaxFaults
          /\ faults' = faults + 1
          /\ UNCHANGED <<mirror, connected, told>>
    /\ points' = NoPoints
    /\ held' = [t \in Tag |-> {}]
    /\ could' = {}
    /\ UNCHANGED <<run, field, link, todo, inbox, writing, last, commands, changes>>

-----------------------------------------------------------------------------
(* handleMsgBusUpdate.                                                     *)

\* Mutant: the newest Update is handled first.
HandleUpdateNewest ==
    /\ writing = <<>>
    /\ inbox # <<>>
    /\ writing' = inbox[Len(inbox)]
    /\ inbox' = SubSeq(inbox, 1, Len(inbox) - 1)
    /\ UNCHANGED <<run, field, link, scanning, todo, points, mirror, connected, history, envVars>>

\* Updates are handled in the order they arrive.  The client pushes no Update itself, so
\* none is its own.
HandleUpdate ==
    /\ writing = <<>>
    /\ inbox # <<>>
    /\ writing' = Head(inbox)
    /\ inbox' = Tail(inbox)
    /\ UNCHANGED <<run, field, link, scanning, todo, points, mirror, connected, history, envVars>>

\* The point t of the field takes the value v.
SetField(t, v) ==
    /\ field' = [field EXCEPT ![t] = v]
    /\ held' = IF scanning THEN [held EXCEPT ![t] = @ \cup {v}] ELSE held

Reachable(t) == link = "up" /\ t \in Present

\* this.client, which is nil before NewClient, is called for a point.
Written(t) == t \in Tag /\ Writable(t)

\* A point whose register is a coil or a holding register is written; an error is only
\* logged and the loop goes on with the next point.
WritePoint ==
    /\ writing # <<>>
    /\ LET t == Head(writing)[1]
           v == Head(writing)[2]
       IN /\ run = "starting" => ~Written(t)
          /\ IF Written(t) /\ Reachable(t)
             THEN (\E w \in Commanded(t, v) : SetField(t, w)) /\ UNCHANGED last
             ELSE /\ UNCHANGED <<field, held>>
                  /\ last' = [last EXCEPT ![t] = None]
    /\ writing' = Tail(writing)
    /\ UNCHANGED <<run, link, scanning, todo, points, mirror, connected, inbox, could, told, envVars>>

Tags(c) == {c[i][1] : i \in 1..Len(c)}

\* Tags of commands that have not been carried out.
Waiting == Tags(writing) \cup UNION {Tags(inbox[k]) : k \in 1..Len(inbox)}

\* A write by a nil client ends the process; what it had received is lost.
Panic ==
    /\ run = "starting"
    /\ writing # <<>>
    /\ Written(Head(writing)[1])
    /\ run' = "crashed"
    /\ inbox' = <<>>
    /\ writing' = <<>>
    /\ last' = [t \in Tag |-> IF t \in Waiting THEN None ELSE last[t]]
    /\ UNCHANGED <<field, link, scanning, todo, points, mirror, connected, held, could, told, envVars>>

\* The CPU starts the module again.
Restart ==
    /\ run = "crashed"
    /\ run' = "starting"
    /\ UNCHANGED <<field, link, scanning, todo, points, mirror, connected, inbox, writing, history, envVars>>

-----------------------------------------------------------------------------
(* The other modules, the outstation's own inputs, and the network.        *)

\* The value the last point for tag t of a command has.
LastOf(c, t) == c[CHOOSE i \in 1..Len(c) : c[i][1] = t /\ \A j \in (i + 1)..Len(c) : c[j][1] # t][2]

\* An Update published while the process is down is lost.
Issue ==
    /\ commands < MaxCommands
    /\ commands' = commands + 1
    /\ \E c \in Command :
          IF run = "crashed"
          THEN /\ UNCHANGED inbox
               /\ last' = [t \in Tag |-> IF t \in Tags(c) THEN None ELSE last[t]]
          ELSE /\ inbox' = Append(inbox, c)
               /\ last' = [t \in Tag |-> IF t \in Tags(c) THEN LastOf(c, t) ELSE last[t]]
    /\ UNCHANGED <<run, field, link, scanning, todo, points, mirror, connected, writing, held, could, told,
                   faults, changes>>

FieldChanges ==
    /\ changes < MaxChanges
    /\ changes' = changes + 1
    /\ \E t \in Present, v \in Level : SetField(t, v) /\ last' = [last EXCEPT ![t] = None]
    /\ UNCHANGED <<run, link, scanning, todo, points, mirror, connected, inbox, writing, could, told, commands, faults>>

LinkChanges ==
    /\ \/ link = "up" /\ faults < MaxFaults /\ link' = "down" /\ faults' = faults + 1
       \/ link = "down" /\ link' = "up" /\ UNCHANGED faults
    /\ could' = IF scanning THEN could \cup {link'} ELSE could
    /\ UNCHANGED <<run, field, scanning, todo, points, mirror, connected, inbox, writing, held, told, last, commands, changes>>

Scan == BeginScan \/ (\E t \in Tag : ReadRegister(t)) \/ PushStatus
Handle == HandleUpdate \/ WritePoint \/ Panic
Process == NewClient \/ Restart
Environment == Issue \/ FieldChanges \/ LinkChanges

Next == Process \/ Scan \/ Handle \/ Environment

Spec == Init /\ [][Next]_vars
FairSpec == Spec /\ WF_vars(Process) /\ WF_vars(Scan) /\ WF_vars(Handle)

-----------------------------------------------------------------------------
(* Properties.                                                             *)

\* A Status will hold only what the outstation had while that very scan ran: nothing of an
\* earlier scan survives a read that failed, whatever writes came in between
\* (client.go:225-270).
StatusFresh ==
    \A t \in DOMAIN points : \E v \in held[t] : points[t] \in Shown(t, v)

\* A scan the network did not disturb reports every register the outstation has, also
\* when other registers fail; without a network it reports none (client.go:236-270).
ScanComplete ==
    scanning /\ todo = {} =>
        /\ could = {"up"} => DOMAIN points = Present
        /\ could = {"down"} => DOMAIN points = {}

\* The point `connected' that the other modules last heard fits the network of that scan:
\* it is set if the network was there all the time and there was a register to read, and
\* cleared if it never was (client.go:272-277).
ConnectedHonest ==
    /\ told = {"up"} /\ Present # {} => connected
    /\ told = {"down"} => ~connected

\* The types, that a scan is complete, and that the connected flag of a Status fits what
\* could be read (client.go:236-277).
ClientInv == TypeOK /\ ScanComplete /\ ConnectedHonest

\* testing/e2e/README.md:51-53: when no Update is left, the outstation holds what the
\* newest command for a tag makes of it, unless it was lost with a process that panicked, a
\* write to the tag failed, or the field changed the tag since.
LastCommandWins ==
    inbox = <<>> /\ writing = <<>> =>
        \A t \in Tag : last[t] # None => field[t] \in Commanded(t, last[t])

\* testing/e2e/README.md:45-46: once the network stays up and the field settles, the
\* other modules come to see the outstation's values and keep seeing them.  A Status
\* read before a write and pushed after it is corrected by the next scan.
MirrorConverges ==
    <>[](link = "up") => <>[](\A t \in Present : mirror[t] \in Shown(t, field[t]))
=============================================================================

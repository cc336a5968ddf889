--------------------------- MODULE SunSpecClient ---------------------------
(***************************************************************************)
(* The SunSpec module as a client (go/sunspec/client) of a SunSpec server. *)
(*                                                                         *)
(* Run reads the identifier, walks through the list of models and starts a *)
(* goroutine that reads every model once per period and pushes a Status    *)
(* for each.  The subscriber goroutine turns points of an Update into      *)
(* writes.  Both send through one Modbus client, one request at a time,    *)
(* and a request without an answer fails after a time limit.               *)
(***************************************************************************)
EXTENDS SunSpecServer

CONSTANTS
    Update,      \* points <<name, value>> other modules may command
    MaxUpdates, MaxTimeouts, MaxUnsent  \* bounds

ASSUME ClientAssumption ==
    /\ Update \subseteq STRING \X Int
    /\ MaxUpdates \in Nat /\ MaxTimeouts \in Nat /\ MaxUnsent \in Nat

VARIABLES
    pc,        \* where Run and then the scan goroutine are
    at,        \* address of the next model, or index into order while scanning
    order,     \* this.models.Order
    settings,  \* this.models.Settings
    known,     \* this.points
    reported,  \* what the other modules last heard of each point
    connected, \* and of the connection
    inbox,     \* points of Updates not handled yet
    waiting,   \* goroutines whose request has not been answered
    updates, timeouts, unsent  \* counters for the bounds; unsent: pushes that failed

clientVars == <<pc, at, order, settings, known, reported, connected, inbox, waiting, updates, timeouts, unsent>>
vars == <<serverVars, clientVars>>

Names == UNION {{Schema[id][i].name : i \in 3..Len(Schema[id])} : id \in DOMAIN Schema}

Discovering == pc \in {"identify", "next", "model"}
Scanning == pc \in {"sleep", "scan"}

TypeOK ==
    /\ ServerTypeOK
    /\ pc \in {"identify", "next", "model", "sleep", "scan", "failed", "crashed"}
    /\ at \in Nat
    /\ order \in Seq(DOMAIN Schema)
    /\ DOMAIN settings = {order[i] : i \in 1..Len(order)}
    /\ DOMAIN known \subseteq Names
    /\ reported \in [Names -> Int \cup {None}]
    /\ connected \in BOOLEAN
    /\ inbox \in Seq(Update)
    /\ waiting \subseteq {"scan", "write"}
    /\ updates \in 0..MaxUpdates /\ timeouts \in 0..MaxTimeouts /\ unsent \in 0..MaxUnsent

Init ==
    /\ ServerInit
    /\ pc = "identify"
    /\ at = First
    /\ order = <<>>
    /\ settings = [id \in {} |-> 0]
    /\ known = [n \in {} |-> 0]
    /\ reported = [n \in Names |-> None]
    /\ connected = FALSE
    /\ inbox = <<>>
    /\ waiting = {}
    /\ updates = 0 /\ timeouts = 0 /\ unsent = 0

-----------------------------------------------------------------------------
(* Requests.  The Modbus client holds a lock until its request is answered *)
(* or has timed out; the server may still be busy then.                    *)

\* A server that is busy leaves the request in its queue.
Send(fn, start, count, data, by) ==
    /\ waiting = {}
    /\ waiting' = {by}
    /\ IF alive /\ req = None
       THEN /\ Accept(fn, start, count, data, by)
            /\ UNCHANGED <<conf, dev, tags, internal, alive, news>>
       ELSE UNCHANGED serverVars

Answer(by, ok) == by \in waiting /\ reply # None /\ reply.by = by /\ reply.ok = ok

\* The answer is used up.
Took == /\ waiting' = {}
        /\ reply' = None
        /\ held' = [t \in Tag |-> {}]
        /\ UNCHANGED <<conf, dev, tags, internal, alive, req, addr, buf, news>>

\* An error: an exception, no server, a server that is busy for good, or an answer that
\* is late or lost.
Error(by) ==
    /\ by \in waiting
    /\ waiting' = {}
    /\ \/ Answer(by, FALSE) /\ Took /\ UNCHANGED timeouts
       \/ /\ ~alive \/ Hung
          /\ UNCHANGED <<serverVars, timeouts>>
       \/ /\ req # None /\ req.fn = 3
          /\ timeouts < MaxTimeouts
          /\ timeouts' = timeouts + 1
          /\ req' = None
          /\ UNCHANGED <<conf, dev, tags, internal, alive, addr, buf, reply, held, news>>

-----------------------------------------------------------------------------
(* modelData and process.                                                  *)

\* The register modelData makes of a point.  The address of a writable point is counted in
\* bytes from the start of the model.
PointReg(id, start, k) ==
    LET p == Points(id)[k]
    IN [dt |-> p.dt, scaling |-> 0, sf |-> p.sf, addr |-> IF p.rw THEN start + 2 * Offset(id, k) ELSE 0]

\* A number as a scale factor is a float64 to the JSON decoder, which modelData does not
\* expect; nor does Init know every type.
Malformed(id) == \E k \in 1..Len(Points(id)) :
                     Points(id)[k].sf = "number" \/ ~Supported(Points(id)[k].dt)

\* Mutant: positions are counted in registers, not in words.
PartIndex(id, k, data) == [i \in 1..Points(id)[k].size |-> data[k - 1 + i]]

\* Raw bytes of the k-th point.
Part(id, k, data) == [i \in 1..Points(id)[k].size |-> data[Offset(id, k) + i]]

\* Position of the point of a name.
Index(id, n) == CHOOSE k \in 1..Len(Points(id)) : Points(id)[k].name = n

\* process: the points of the model in no particular order.  A scale factor that was not
\* put into the map before is an error.  InternalValue of a scale factor that was read is
\* never set, so that the values are not scaled.  Unless it is `sent', nobody hears of it.
Process(id, start, data, sent) ==
    LET names == {p.name : p \in Range(Points(id))}
        shown == {p \in Range(Points(id)) : p.dt \notin Text \cup {"pad", "sunssf"}}
        sure == {p.name : p \in {q \in shown : q.sf \in {""} \cup DOMAIN known}}
        maybe == {p.name : p \in {q \in shown : q.sf \in names \ DOMAIN known}}
    IN \E rep \in {sure \cup S : S \in SUBSET maybe} :
        /\ known' = [n \in names \cup DOMAIN known |->
                        IF n \in names THEN PointReg(id, start, Index(id, n)) ELSE known[n]]
        /\ reported' = [n \in Names |->
                           IF sent /\ n \in rep
                           THEN ValueOf(PointReg(id, start, Index(id, n)), Part(id, Index(id, n), data), 0)
                           ELSE reported[n]]
        /\ connected' = IF sent THEN rep # {} ELSE connected

\* process(nil), after an error of modelData.
ProcessNothing(sent) ==
    /\ connected' = (connected /\ ~sent)
    /\ UNCHANGED <<known, reported>>

\* Push succeeds, or returns an error.
Push(sent) ==
    \/ sent /\ UNCHANGED unsent
    \/ ~sent /\ unsent < MaxUnsent /\ unsent' = unsent + 1

-----------------------------------------------------------------------------
(* Run: discovery.                                                         *)

Ask ==
    /\ CASE pc = "identify" -> Send(3, Identifier, Count("uint32"), <<>>, "scan")
         [] pc = "next" -> Send(3, at, 2, <<>>, "scan")
         [] pc = "model" -> Send(3, at, settings[order[Len(order)]].length, <<>>, "scan")
         [] pc = "scan" -> Send(3, settings[order[at]].start, settings[order[at]].length, <<>>, "scan")
         [] OTHER -> FALSE
    /\ UNCHANGED <<pc, at, order, settings, known, reported, connected, inbox, updates, timeouts, unsent>>

Identified ==
    /\ pc = "identify"
    /\ Answer("scan", TRUE)
    /\ pc' = IF Integer([dt |-> "uint32"], reply.data) = SunS THEN "next" ELSE "failed"
    /\ Took
    /\ UNCHANGED <<at, order, settings, known, reported, connected, inbox, updates, timeouts, unsent>>

\* nextModel and what Run does with it: the first model has to be model 1.
GotModel ==
    /\ pc = "next"
    /\ Answer("scan", TRUE)
    /\ LET id == reply.data[1]
           length == reply.data[2]
       IN IF order = <<>> /\ id # 1 THEN pc' = "failed" /\ UNCHANGED <<at, order, settings>>
          ELSE IF id = EndMark THEN pc' = "sleep" /\ at' = 1 /\ UNCHANGED <<order, settings>>
          ELSE /\ pc' = "model"
               /\ at' = at + 2
               /\ order' = Append(order, id)
               /\ settings' = Put(settings, id, [start |-> at + 2, length |-> length])
    /\ Took
    /\ UNCHANGED <<known, reported, connected, inbox, updates, timeouts, unsent>>

\* A model has been read; a Status that cannot be pushed ends Run as well.
GotData ==
    /\ pc = "model"
    /\ Answer("scan", TRUE)
    /\ LET id == order[Len(order)]
       IN IF Malformed(id)
          THEN pc' = "failed" /\ UNCHANGED <<at, known, reported, connected, unsent>>
          ELSE \E sent \in BOOLEAN :
                  /\ Process(id, at, reply.data, sent)
                  /\ Push(sent)
                  /\ pc' = IF sent THEN "next" ELSE "failed"
                  /\ at' = IF sent THEN at + settings[id].length ELSE at
    /\ Took
    /\ UNCHANGED <<order, settings, inbox, updates, timeouts>>

\* An error ends Run and with it the module.
DiscoveryFails ==
    /\ Discovering
    /\ Error("scan")
    /\ pc' = "failed"
    /\ UNCHANGED <<at, order, settings, known, reported, connected, inbox, updates, unsent>>

-----------------------------------------------------------------------------
(* The scan goroutine.                                                     *)

Wake ==
    /\ pc = "sleep"
    /\ pc' = "scan"
    /\ at' = 1
    /\ UNCHANGED <<serverVars, order, settings, known, reported, connected, inbox, waiting, updates, timeouts, unsent>>

\* Mutant: the last model is left out.
NextInOrderShort == IF at < Len(order) - 1 THEN at' = at + 1 /\ pc' = "scan" ELSE pc' = "sleep" /\ at' = 1

NextInOrder == IF at < Len(order) THEN at' = at + 1 /\ pc' = "scan" ELSE pc' = "sleep" /\ at' = 1

\* Mutant: nothing is pushed after an error.
ScannedSilent ==
    /\ pc = "scan"
    /\ \/ /\ Answer("scan", TRUE)
          /\ Process(order[at], settings[order[at]].start, reply.data, TRUE)
          /\ Took
          /\ UNCHANGED timeouts
       \/ Error("scan") /\ UNCHANGED <<known, reported, connected>>
    /\ NextInOrder
    /\ UNCHANGED <<order, settings, inbox, updates, unsent>>

\* A model has been read, or not, and its Status pushed, or not: the loop goes on.
Scanned ==
    /\ pc = "scan"
    /\ \E sent \in BOOLEAN :
          /\ \/ /\ Answer("scan", TRUE)
                /\ Process(order[at], settings[order[at]].start, reply.data, sent)
                /\ Took
                /\ UNCHANGED timeouts
             \/ Error("scan") /\ ProcessNothing(sent)
          /\ Push(sent)
    /\ NextInOrder
    /\ UNCHANGED <<order, settings, inbox, updates>>

-----------------------------------------------------------------------------
(* handleMsgBusUpdate.                                                     *)

Command ==
    /\ pc \notin {"failed", "crashed"}
    /\ updates < MaxUpdates
    /\ updates' = updates + 1
    /\ \E u \in Update : inbox' = Append(inbox, u)
    /\ UNCHANGED <<serverVars, pc, at, order, settings, known, reported, connected, waiting, timeouts, unsent>>

NextUpdate == inbox # <<>> /\ inbox' = Tail(inbox)

Written(u) == known[u[1]]
Writable(u) == u[1] \in DOMAIN known /\ Written(u).addr # 0
               /\ Written(u).sf \in {""} \cup DOMAIN known

\* A point that is not known, not writable or without its scale factor is skipped.
Skip ==
    /\ pc \notin {"failed", "crashed"}
    /\ NextUpdate
    /\ ~Writable(Head(inbox))
    /\ UNCHANGED <<serverVars, pc, at, order, settings, known, reported, connected, waiting, updates, timeouts, unsent>>

\* A number for a text point is taken for a string, which aborts the module.
WritePoint ==
    /\ pc \notin {"failed", "crashed"}
    /\ NextUpdate
    /\ Writable(Head(inbox))
    /\ LET r == Written(Head(inbox))
       IN \/ /\ r.dt \notin Text
             /\ \E ws \in Bytes(r, Head(inbox)[2], 0) : Send(16, r.addr, Count(r.dt), ws, "write")
             /\ UNCHANGED pc
          \/ /\ r.dt \in Text
             /\ pc' = "crashed"
             /\ UNCHANGED <<serverVars, waiting>>
    /\ UNCHANGED <<at, order, settings, known, reported, connected, updates, timeouts, unsent>>

\* An error is a line in the log.  This server confirms no write.
WriteEnds ==
    /\ pc \notin {"failed", "crashed"}
    /\ Error("write")
    /\ UNCHANGED <<pc, at, order, settings, known, reported, connected, inbox, updates, unsent>>

\* this.points is not protected: a look-up during process may abort the module.
MapRace ==
    /\ inbox # <<>>
    /\ pc \in {"model", "scan"}
    /\ Answer("scan", TRUE)
    /\ pc' = "crashed"
    /\ UNCHANGED <<serverVars, at, order, settings, known, reported, connected, inbox, waiting, updates, timeouts, unsent>>

-----------------------------------------------------------------------------
Server == Serve /\ UNCHANGED clientVars
Bus == (\E t \in Tag : \E v \in Level[t] : Status(t, v)) /\ UNCHANGED clientVars
Reader == Ask \/ Identified \/ GotModel \/ GotData \/ DiscoveryFails \/ Wake \/ Scanned
Writer == Skip \/ WritePoint \/ WriteEnds

Next == Server \/ Bus \/ Reader \/ Writer \/ Command \/ MapRace

Spec == Init /\ [][Next]_vars
FairSpec == Spec /\ WF_vars(Server) /\ WF_vars(Reader) /\ WF_vars(Writer)

-----------------------------------------------------------------------------
(* Properties.  They are stated over the layout the SunSpec standard gives *)
(* a list of models, not over what Configure computed.                     *)

Ids == [i \in 1..Len(conf) |-> conf[i].id]
ModelAt(i) ==
    LET base[j \in 0..Len(conf)] == IF j = 0 THEN First ELSE base[j - 1] + 2 + ModelLength(Ids[j])
    IN base[i - 1]

\* Addresses of the points of a name.
Homes(n) == UNION {{ModelAt(i) + 2 + Offset(Ids[i], k) :
                       k \in {k \in 1..Len(Points(Ids[i])) : Points(Ids[i])[k].name = n}} : i \in 1..Len(Ids)}

Dead == pc \in {"failed", "crashed"}

\* Configurations a client has to refuse.  An element without a text makes the server show
\* 0 for its identifier.
Refused ==
    \/ ~dev.ok
    \/ "" \in dev.tags
    \/ Ids[1] # 1
    \/ \E i \in 1..Len(conf) : Malformed(Ids[i])
    \/ \E i \in 1..Len(conf) : \E p \in Range(Schema[Ids[i]]) : p.sf # "" /\ Homes(p.sf) = {}

Discovery ==
    /\ Scanning => /\ order = Ids
                   /\ ~Refused
                   /\ \A id \in DOMAIN settings :
                        LET i == CHOOSE j \in 1..Len(Ids) : Ids[j] = id /\ \A k \in (j + 1)..Len(Ids) : Ids[k] # id
                        IN settings[id] = [start |-> ModelAt(i) + 2, length |-> ModelLength(id)]
    /\ pc = "failed" => Refused \/ ~alive \/ Hung \/ timeouts > 0 \/ unsent > 0

\* Discovery (client.go:110, util.go:30) walks through the list the server laid out
\* (server.go:99): when it ends the client knows the models in their order, each at its
\* position and with its length, the last one of those with the same id; and Run returns
\* an error only for a configuration that must be refused, a server that is gone or hangs,
\* a lost answer, or a Status that could not be pushed.
Discovered == [][Discovering /\ ~Discovering' => Discovery']_vars

\* A number x shows a value v of a register: it is the number on the wire, for the client
\* does not scale, cut off towards zero and less than one step away; the product with a
\* scale factor may itself be rounded down by a step.
Shows(x, h, v) ==
    LET r == dev.made[h]
        s == IF Scaled(r.dt) THEN Scaling(r, Factor(r)) ELSE 0
    IN /\ Abs(x * Pow(s) - v * Pow(-s)) <= Unit * Pow(s) - (IF s = 0 THEN 1 ELSE 0)
       /\ Abs(x * Pow(s)) <= Abs(v * Pow(-s))

\* A value that is published for a point (client.go:252) was that of this very point while
\* the request was served, whatever Status came between two registers of the same answer
\* (server.go:231): positions of client and server agree and no answer is taken for
\* another one's.
ReportsTrue ==
    [][\A n \in Names : reported'[n] # reported[n] =>
          \E h \in Homes(n) : LET t == dev.made[h].tag
                              IN \E v \in IF t = "" THEN {internal[h]} ELSE held[t] : Shows(reported'[n], h, v)]_vars

\* A write that reached a register with a value leaves the server in a loop without end
\* (server.go:288); in the end the other modules hear that the device is not connected, and
\* never again that it is, although some of those Status may be lost (client.go:159).
HangIsReported == (<>[](Scanning /\ Hung)) => <>[](~connected)

\* Numbers that a scan of the model reports.
Numbers(id) == {p.name : p \in {q \in Range(Points(id)) : q.dt \notin Text \cup {"pad", "sunssf"}}}

\* Positions in the list that a scan reads a number n from: the client knows the last one
\* of the models with the same id.
Sources(n) == {i \in 1..Len(Ids) : n \in Numbers(Ids[i]) /\ \A j \in (i + 1)..Len(Ids) : Ids[j] # Ids[i]}

\* While the server answers, every number of every model reaches the other modules, the
\* last value in the end: a failed read, a Status that was lost, an Update that was refused
\* and a Status in between do not stop the scan (client.go:153).  Points are told apart by
\* name only (client.go:216): of a name that several models have, it is the value of one of
\* them, and `connected' can be relied on if every model has a number.
Converges ==
    (<>[](Scanning /\ alive /\ ~Hung)) =>
        <>[](/\ dev.ok
             /\ (\A i \in 1..Len(Ids) : Numbers(Ids[i]) # {}) => connected
             /\ \A n \in Names : Sources(n) # {} =>
                  /\ reported[n] # None
                  /\ \E i \in Sources(n) :
                        LET h == ModelAt(i) + 2 + Offset(Ids[i], Index(Ids[i], n))
                        IN Shows(reported[n], h, IF dev.made[h].tag = "" THEN internal[h]
                                                 ELSE tags[dev.made[h].tag]))

-----------------------------------------------------------------------------
(* What the theorems assume of the configurations and of the values on the *)
(* bus, and nothing in the code makes sure of.                             *)

\* No element of a configuration is about the header of a model, and each has a text.
PlainConfig(c) ==
    \A i \in 1..Len(c) : \A j \in 1..Len(c[i].children) :
        c[i].children[j].name \notin {"ID", "L"} /\ c[i].children[j].tag # ""
Plain == \A c \in Configs : PlainConfig(c)

\* A number that the type of a register can hold.
Fits(dt, n) ==
    LET values == Power(Modulus, Count(dt))
    IN IF Signed(dt) THEN -values <= 2 * n /\ 2 * n < values ELSE 0 <= n /\ n < values

\* The scale factor of a register as configured, and whether it is missing.
Standing(d, r) == IF r.sf \in DOMAIN d.points THEN d.made[d.points[r.sf]].start \div Unit ELSE 0
Lacks(d, r) == r.sf # "" /\ r.sf \notin DOMAIN d.points

\* The numbers of a configuration and of the tags fit into their registers.
Fitting ==
    \A c \in Configs :
        LET d == Configure(c)
        IN d.ok => \A a \in DOMAIN d.made :
             LET r == d.made[a]
             IN r.dt \notin Text /\ ~Lacks(d, r) =>
                  \A v \in IF r.tag = "" THEN {r.start} ELSE {0} \cup Level[r.tag] :
                      \A n \in Raw(r, v, Standing(d, r)) : Fits(r.dt, n)
=============================================================================

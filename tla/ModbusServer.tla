---------------------------- MODULE ModbusServer ----------------------------
(***************************************************************************)
(* The Modbus module as an outstation (go/modbus/server).  Requests come   *)
(* from the mbserver library one at a time; a request for several          *)
(* registers is a loop that takes the lock on the tags once per register.  *)
(* The subscriber goroutine applies Status messages between any two of     *)
(* those steps.  A write that is accepted is pushed as one Update.         *)
(*                                                                         *)
(* Requests end at the end of a register, as those of the Modbus client of *)
(* this repository do.  Addresses may be missing anywhere.                 *)
(***************************************************************************)
EXTENDS Register

CONSTANTS
    Tag,        \* tags of the registers
    Registers,  \* by type, then by address: [tag, dt, factor]
    Requests,   \* [fn, addr, count, data] a master may send
    Levels,     \* values a Status may carry
    None,
    Faults      \* {"push"}: Pusher.Push may fail

Type == {"coil", "discrete", "input", "holding"}

\* The function codes of Run and the type of register each works on.
TypeOf(fn) == CASE fn \in {1, 5, 15} -> "coil"
                [] fn = 2 -> "discrete"
                [] fn = 4 -> "input"
                [] fn \in {3, 6, 16} -> "holding"
Writes(fn) == fn \in {5, 6, 15, 16}

RegsOf(r) == Registers[TypeOf(r.fn)]

\* Addresses at which the registers of a request begin.
Begins(r) == {a \in DOMAIN RegsOf(r) : a >= r.addr /\ a < r.addr + r.count}

ASSUME RegistersAssumption ==
    \A type \in Type : \A a \in DOMAIN Registers[type] :
        LET reg == Registers[type][a] IN
        /\ a \in Nat
        /\ reg.tag \in Tag
        /\ Exact(reg.dt)
        /\ reg.factor \in Nat \ {0} /\ Unit % reg.factor = 0
        /\ reg.factor # 1 => Unit >= 2 * reg.factor
        /\ type \in {"coil", "discrete"} => Count(reg.dt) = 1 /\ ~Signed(reg.dt)

\* The shape the mbserver library gives a request, and where it ends.
ASSUME RequestsAssumption ==
    \A r \in Requests :
        /\ r.fn \in {1, 2, 3, 4, 5, 6, 15, 16}
        /\ r.addr \in Nat /\ r.count \in Nat /\ r.data \in Seq(Word)
        /\ Writes(r.fn) => Len(r.data) = r.count
        /\ r.fn \in {5, 15} => r.data \in Seq({0, 1})
        /\ r.fn = 6 => r.count = 1
        /\ r.fn # 6 => \A a \in Begins(r) : a + Count(RegsOf(r)[a].dt) <= r.addr + r.count

ASSUME LevelsAssumption == Levels \subseteq Int

VARIABLES
    tags,     \* this.tags
    req,      \* the request being served
    addr,     \* the loop variable
    points,   \* updates collected by a write
    buf,      \* data collected by a read
    reply,    \* the last reply
    pushed,   \* the last Update pushed
    unsaid,   \* history: tags that hold a written value nobody was told of
    written,  \* history: per tag the register and data of the last accepted write
    seen      \* history: values of every tag since the request began

history == <<unsaid, written, seen>>
vars == <<tags, req, addr, points, buf, reply, pushed, history>>

Regs == RegsOf(req)
Mapped == addr \in DOMAIN Regs
Reg == Regs[addr]
Last == req.addr + req.count
More == req # None /\ addr < Last

\* The part of the data of request r that belongs to the register at address a.
Part(r, a, n) == SubSeq(r.data, a - r.addr + 1, a - r.addr + n)

\* What reg.Value may make of it; coils and discrete inputs are bits.
ValueOf(type, reg, ws) == IF type \in {"coil", "discrete"} THEN {ws[1] * Unit} ELSE Value(reg, ws)

\* What a read appends for a register.
DataOf(type, reg, v) ==
    IF type \in {"coil", "discrete"} THEN {<<IF v = 0 THEN 0 ELSE 1>>} ELSE Bytes(reg, v)

TypeOK ==
    /\ tags \in [Tag -> Int]
    /\ req \in Requests \cup {None}
    /\ addr \in Nat
    /\ points \in Seq(Tag \X Int)
    /\ buf \in Seq(Word)
    /\ reply = None \/ /\ reply.req \in Requests
                       /\ reply.code \in {"Success", "IllegalDataAddress", "IllegalDataValue",
                                          "SlaveDeviceFailure"}
                       /\ reply.data \in Seq(Word)
    /\ pushed \in Seq(Tag \X Int)
    /\ unsaid \subseteq Tag
    /\ DOMAIN written = Tag
    /\ seen \in [Tag -> SUBSET Int]

\* Configure gives every tag the value zero.
Init ==
    /\ tags = [t \in Tag |-> 0]
    /\ req = None
    /\ addr = 0
    /\ points = <<>>
    /\ buf = <<>>
    /\ reply = None
    /\ pushed = <<>>
    /\ unsaid = {}
    /\ written = [t \in Tag |-> None]
    /\ seen = [t \in Tag |-> {}]

-----------------------------------------------------------------------------
Receive ==
    /\ req = None
    /\ req' \in Requests
    /\ addr' = req'.addr
    /\ points' = <<>>
    /\ buf' = <<>>
    /\ reply' = None
    /\ pushed' = <<>>
    /\ seen' = [t \in Tag |-> {tags[t]}]
    /\ UNCHANGED <<tags, unsaid, written>>

Respond(code, data) ==
    /\ reply' = [req |-> req, code |-> code, data |-> data]
    /\ req' = None

\* An address without a register ends the request, whatever was done before.
NoRegister ==
    /\ More
    /\ ~Mapped
    /\ Respond("IllegalDataAddress", <<>>)
    /\ UNCHANGED <<tags, addr, points, buf, pushed, history>>

\* Function 6 carries two bytes only: reg.Value fails for a longer register.
TooShort ==
    /\ More
    /\ Mapped
    /\ req.fn = 6
    /\ Count(Reg.dt) > 1
    /\ Respond("IllegalDataValue", <<>>)
    /\ UNCHANGED <<tags, addr, points, buf, pushed, history>>

\* Mutant: the tag is left to the Status that will come back.
WriteNextNoTag ==
    /\ More
    /\ Writes(req.fn)
    /\ Mapped
    /\ req.fn = 6 => Count(Reg.dt) = 1
    /\ \E v \in ValueOf(TypeOf(req.fn), Reg, Part(req, addr, Count(Reg.dt))) :
       points' = Append(points, <<Reg.tag, v>>)
    /\ addr' = addr + Count(Reg.dt)
    /\ unsaid' = unsaid \cup {Reg.tag}
    /\ written' = [written EXCEPT ![Reg.tag] = None]
    /\ UNCHANGED <<tags, req, buf, reply, pushed, seen>>

\* One turn of the loop of a write, under the lock.
WriteNext ==
    /\ More
    /\ Writes(req.fn)
    /\ Mapped
    /\ req.fn = 6 => Count(Reg.dt) = 1
    /\ \E v \in ValueOf(TypeOf(req.fn), Reg, Part(req, addr, Count(Reg.dt))) :
       /\ tags' = [tags EXCEPT ![Reg.tag] = v]
       /\ points' = Append(points, <<Reg.tag, v>>)
       /\ seen' = [seen EXCEPT ![Reg.tag] = @ \cup {v}]
    /\ addr' = addr + Count(Reg.dt)
    /\ unsaid' = unsaid \cup {Reg.tag}
    /\ written' = [written EXCEPT ![Reg.tag] = None]
    /\ UNCHANGED <<req, buf, reply, pushed>>

Touched == {points[i][1] : i \in 1..Len(points)}

\* For every tag the last register of the request that has it.
LastWrite(t) ==
    LET as == {a \in DOMAIN Regs \cap (req.addr..(Last - 1)) : Regs[a].tag = t}
        a == CHOOSE x \in as : \A y \in as : y <= x
    IN [type |-> TypeOf(req.fn), addr |-> a, data |-> Part(req, a, Count(Regs[a].dt))]

\* Mutant: the Update is put together from the tags when it is pushed.
WriteDoneFromTags ==
    /\ req # None
    /\ Writes(req.fn)
    /\ addr >= Last
    /\ pushed' = [i \in 1..Len(points) |-> <<points[i][1], tags[points[i][1]]>>]
    /\ Respond("Success", <<>>)
    /\ unsaid' = unsaid \ Touched
    /\ written' = [t \in Tag |-> IF t \in Touched /\ t \in unsaid THEN LastWrite(t) ELSE written[t]]
    /\ UNCHANGED <<tags, addr, points, buf, seen>>

\* The Update is pushed and the write acknowledged, or the push fails.
WriteDone ==
    /\ req # None
    /\ Writes(req.fn)
    /\ addr >= Last
    /\ \/ /\ pushed' = points
          /\ Respond("Success", <<>>)
          /\ unsaid' = unsaid \ Touched
          /\ written' = [t \in Tag |-> IF t \in Touched /\ t \in unsaid
                                       THEN LastWrite(t) ELSE written[t]]
       \/ /\ "push" \in Faults
          /\ Respond("SlaveDeviceFailure", <<>>)
          /\ UNCHANGED <<pushed, unsaid, written>>
    /\ UNCHANGED <<tags, addr, points, buf, seen>>

\* Mutant: every turn reads the tag of the first register.
ReadNextFirst ==
    /\ More
    /\ ~Writes(req.fn)
    /\ Mapped
    /\ \E ws \in DataOf(TypeOf(req.fn), Reg, tags[Regs[req.addr].tag]) : buf' = buf \o ws
    /\ addr' = addr + Count(Reg.dt)
    /\ UNCHANGED <<tags, req, points, reply, pushed, history>>

\* One turn of the loop of a read, under the read lock.
ReadNext ==
    /\ More
    /\ ~Writes(req.fn)
    /\ Mapped
    /\ \E ws \in DataOf(TypeOf(req.fn), Reg, tags[Reg.tag]) : buf' = buf \o ws
    /\ addr' = addr + Count(Reg.dt)
    /\ UNCHANGED <<tags, req, points, reply, pushed, history>>

ReadDone ==
    /\ req # None
    /\ ~Writes(req.fn)
    /\ addr >= Last
    /\ Respond("Success", buf)
    /\ UNCHANGED <<tags, addr, points, buf, pushed, history>>

\* handleMsgBusStatus: all points of a Status under one lock.
Status ==
    \E S \in (SUBSET Tag) \ {{}} : \E m \in [S -> Levels] :
        /\ tags' = [t \in Tag |-> IF t \in S THEN m[t] ELSE tags[t]]
        /\ unsaid' = unsaid \ S
        /\ written' = [t \in Tag |-> IF t \in S THEN None ELSE written[t]]
        /\ seen' = [t \in Tag |-> IF t \in S /\ req # None THEN seen[t] \cup {m[t]} ELSE seen[t]]
        /\ UNCHANGED <<req, addr, points, buf, reply, pushed>>

Serve == NoRegister \/ TooShort \/ WriteNext \/ WriteDone \/ ReadNext \/ ReadDone

Next == Receive \/ Serve \/ Status

Spec == Init /\ [][Next]_vars

-----------------------------------------------------------------------------
(* Properties.                                                             *)

Accepted == reply # None /\ reply.code = "Success"

\* The points that an Update may hold for the register at address a of a write request r.
Expected(r, a) ==
    LET reg == RegsOf(r)[a]
    IN {reg.tag} \X ValueOf(TypeOf(r.fn), reg, Part(r, a, Count(reg.dt)))

\* testing/e2e/README.md:54: a write that is acknowledged has been pushed in full: the
\* Update holds the tag and the value of every register of the request and nothing else,
\* whatever Status messages came in between, and the registers cover the request without
\* a gap.
AckedIsPushed ==
    Accepted /\ Writes(reply.req.fn) =>
        LET r == reply.req
        IN /\ \A i \in 1..Len(pushed) : \E a \in Begins(r) : pushed[i] \in Expected(r, a)
           /\ \A a \in Begins(r) : \E i \in 1..Len(pushed) : pushed[i] \in Expected(r, a)
           /\ \A x \in r.addr..(r.addr + r.count - 1) :
                 \E a \in Begins(r) : x \in a..(a + Count(RegsOf(r)[a].dt) - 1)

\* A register of a read reply is never torn: its words are the encoding of one value that
\* its tag had while the request was served (holding.go:11-46, coil.go:13-47, input.go).
ReadNotTorn ==
    Accepted /\ ~Writes(reply.req.fn) =>
        LET r == reply.req IN
        \A a \in Begins(r) :
            LET reg == RegsOf(r)[a]
                ws == SubSeq(reply.data, a - r.addr + 1, a - r.addr + Count(reg.dt))
            IN \E v \in seen[reg.tag] : ws \in DataOf(TypeOf(r.fn), reg, v)

\* The types, and that no register of a reply is torn (holding.go:24-43).
ServerInv == TypeOK /\ ReadNotTorn

\* A master reads back what it wrote, as long as no Status has changed the tag: exactly
\* for a coil or a register without scaling, and at most one less in magnitude otherwise.
ReadBack ==
    Accepted /\ ~Writes(reply.req.fn) =>
        LET r == reply.req IN
        \A a \in Begins(r) :
            LET reg == RegsOf(r)[a]
                w == written[reg.tag]
                got == Integer(reg.dt, SubSeq(reply.data, a - r.addr + 1, a - r.addr + Count(reg.dt)))
            IN w # None /\ w.type = TypeOf(r.fn) /\ w.addr = a =>
                  LET n == Integer(reg.dt, w.data) IN
                  IF reg.factor = 1 THEN got = n
                  ELSE got - n \in {0, IF n > 0 THEN -1 ELSE IF n < 0 THEN 1 ELSE 0}
=============================================================================

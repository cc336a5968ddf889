--------------------------- MODULE SunSpecServer ---------------------------
(***************************************************************************)
(* The SunSpec module as a server (go/sunspec/server).  The mbserver       *)
(* library serves one request at a time.  The loop over the registers of a *)
(* request takes the lock for every access to a map; the subscriber        *)
(* goroutine sets one tag at a time.                                       *)
(***************************************************************************)
EXTENDS SunSpecModel

CONSTANTS
    Configs,   \* sequences of models [id, children], children [name, tag, val]; the text of
               \* a child is the tag or, if that is "number", the number val
    Tag,       \* tags that occur in them
    Level,     \* values a Status may carry, by tag
    None,
    MaxStatus  \* bound on Status messages

ASSUME ServerAssumption ==
    /\ Configs \subseteq Seq([id: Int, children: Seq([name: STRING, tag: Tag \cup {"", "number"}, val: Int])])
    /\ "" \notin Tag /\ "number" \notin Tag
    /\ Level \in [Tag -> SUBSET Int]
    /\ MaxStatus \in Nat

VARIABLES
    conf,      \* the configuration of the server
    dev,       \* this.registers, this.points and the keys of this.tags: what Configure made
               \* of it
    tags,      \* this.tags
    internal,  \* InternalValue of the registers, by the address they were made at
    alive,     \* the server runs: its configuration was accepted and it did not panic
    req,       \* the request being served: [fn, start, count, data, by]
    addr,      \* the loop variable
    buf,       \* data collected by a read
    reply,     \* the reply to the client: [by, ok, data]
    held,      \* history: values of every tag since the request began
    news       \* counter for the bound

serverVars == <<conf, dev, tags, internal, alive, req, addr, buf, reply, held, news>>

ServerTypeOK ==
    /\ conf \in Configs
    /\ tags \in [Tag -> Int]
    /\ internal \in [DOMAIN dev.made -> Int]
    /\ alive \in BOOLEAN
    /\ addr \in Nat
    /\ buf \in Seq(0..(Modulus - 1))
    /\ req # None => req.fn \in {3, 16} /\ req.start \in Nat /\ req.count \in Nat
    /\ reply # None => reply.ok \in BOOLEAN /\ reply.data \in Seq(0..(Modulus - 1))
    /\ held \in [Tag -> SUBSET Int]
    /\ news \in 0..MaxStatus

ServerInit ==
    /\ conf \in Configs
    /\ dev = Configure(conf)
    /\ tags = [t \in Tag |-> 0]
    /\ internal = [h \in DOMAIN dev.made |-> dev.made[h].start]
    /\ alive = dev.ok
    /\ req = None
    /\ addr = 0
    /\ buf = <<>>
    /\ reply = None
    /\ held = [t \in Tag |-> {}]
    /\ news = 0

-----------------------------------------------------------------------------
Mapped == addr \in DOMAIN dev.registers
Home == dev.registers[addr]
Reg == dev.made[Home]

\* The scale factor comes from the InternalValue of the point of that name, in whatever
\* model it was configured last, and not from a tag.
NoFactor(r) == r.sf # "" /\ r.sf \notin DOMAIN dev.points
Factor(r) == IF r.sf \in DOMAIN dev.points THEN internal[dev.points[r.sf]] \div Unit ELSE 0

\* What this.tags has for the register or, if nothing, its InternalValue.  If an element had
\* no text, this.tags has 0 for the registers without a tag (and a text register would make
\* the server panic, were it ever read).
Current == CASE Reg.tag # "" -> tags[Reg.tag]
             [] Reg.tag = "" /\ "" \in dev.tags -> 0
             [] OTHER -> internal[Home]

\* A request is taken from the library's queue; `by' is the goroutine that waits for it.
Accept(fn, start, count, data, by) ==
    /\ req' = [fn |-> fn, start |-> start, count |-> count, data |-> data, by |-> by]
    /\ addr' = start
    /\ buf' = <<>>
    /\ reply' = None
    /\ held' = [t \in Tag |-> {tags[t]}]

Respond(ok, data) ==
    /\ reply' = [by |-> req.by, ok |-> ok, data |-> data]
    /\ req' = None

Serving == alive /\ req # None
More == addr < req.start + req.count

\* An address without a register, or a scale factor that does not exist, ends the request.
Refuse ==
    /\ Serving
    /\ More
    /\ Mapped => NoFactor(Reg)
    /\ Respond(FALSE, <<>>)
    /\ UNCHANGED <<conf, dev, tags, internal, alive, addr, buf, held, news>>

\* Mutant: the loop goes on at the next address.
ReadNextAddress ==
    /\ Serving
    /\ req.fn = 3
    /\ More
    /\ Mapped /\ ~NoFactor(Reg)
    /\ \E ws \in Bytes(Reg, Current, Factor(Reg)) : buf' = buf \o ws
    /\ addr' = addr + 1
    /\ UNCHANGED <<conf, dev, tags, internal, alive, req, reply, held, news>>

\* readHoldingRegisters: one turn of the loop.
ReadNext ==
    /\ Serving
    /\ req.fn = 3
    /\ More
    /\ Mapped /\ ~NoFactor(Reg)
    /\ \E ws \in Bytes(Reg, Current, Factor(Reg)) : buf' = buf \o ws
    /\ addr' = addr + Count(Reg.dt)
    /\ UNCHANGED <<conf, dev, tags, internal, alive, req, reply, held, news>>

ReadDone ==
    /\ Serving
    /\ req.fn = 3
    /\ ~More
    /\ Respond(TRUE, buf)
    /\ UNCHANGED <<conf, dev, tags, internal, alive, addr, buf, held, news>>

\* writeHoldingRegisters: one turn of the loop.  A text register has no value and ends the
\* request.  Otherwise the value is kept or put on the list of updates, and the loop goes
\* on at the same address and at the same data: it never ends, and the list, which grows
\* for ever, is never pushed.  The data of a longer register than the client meant are
\* cut from beyond the request: that panics, or takes whatever the buffer holds there,
\* which nobody can read back any more.
Write ==
    /\ Serving
    /\ req.fn = 16
    /\ Mapped /\ ~NoFactor(Reg)
    /\ \/ /\ Count(Reg.dt) > Len(req.data)
          /\ alive' = FALSE
          /\ UNCHANGED <<internal, reply, req>>
       \/ /\ Reg.dt \in Text
          /\ Respond(FALSE, <<>>)
          /\ UNCHANGED <<internal, alive>>
       \/ /\ Reg.dt \notin Text
          /\ internal' = IF Reg.tag # "" \/ Count(Reg.dt) > Len(req.data) THEN internal
                         ELSE [internal EXCEPT ![Home] =
                                  ValueOf(Reg, SubSeq(req.data, 1, Count(Reg.dt)), Factor(Reg))]
          /\ UNCHANGED <<alive, reply, req>>
    /\ UNCHANGED <<conf, dev, tags, addr, buf, held, news>>

\* The loop of a write has met a register with a value: it will not end.
Hung == Serving /\ req.fn = 16 /\ Mapped /\ ~NoFactor(Reg) /\ Reg.dt \notin Text

\* handleMsgBusStatus: one point of a Status, under the lock of that point alone.  Tags of
\* other modules are ignored.
Status(t, v) ==
    /\ alive
    /\ t \in dev.tags
    /\ news < MaxStatus
    /\ news' = news + 1
    /\ tags' = [tags EXCEPT ![t] = v]
    /\ held' = IF req # None \/ reply # None THEN [held EXCEPT ![t] = @ \cup {v}] ELSE held
    /\ UNCHANGED <<conf, dev, internal, alive, req, addr, buf, reply>>

Serve == Refuse \/ ReadNext \/ ReadDone \/ Write
=============================================================================

---------------------------- MODULE SunSpecModel ----------------------------
(***************************************************************************)
(* What the SunSpec server and client share (go/sunspec/common): model     *)
(* schemas, the data types of registers and their conversion, and the map  *)
(* of registers the server lays out from its configuration                 *)
(* (go/sunspec/server/server.go, Configure).                               *)
(*                                                                         *)
(* A value is a float64: here an integer in units of 1/Unit.  The text of  *)
(* string points and the type float32 are left out.                        *)
(***************************************************************************)
EXTENDS Integers, Sequences, Functions, TLC

CONSTANTS
    Schema,   \* by model id: its points, [name, dt, size, rw, sf, num]; the scale factor
              \* is the point named sf or, if sf is "number", the number num
    Unit,     \* a power of ten
    Modulus,  \* number of values of a word, 2^16
    SunS      \* value of the well-known identifier

Base == 10
Identifier == 40000     \* address of the well-known identifier
First == 40002          \* address of the first model
EndMark == Modulus - 1  \* model id that ends the list

Single == {"acc16", "bitfield16", "enum16", "int16", "pad", "sunssf", "uint16"}
Double == {"acc32", "bitfield32", "enum32", "int32", "uint32"}
Text == {"string8", "string16"}

\* Register.Init knows these types only.
Supported(dt) == dt \in Single \cup Double \cup Text \cup {"acc64"}

Count(dt) == CASE dt \in Single -> 1
               [] dt \in Double -> 2
               [] dt = "acc64" -> 4
               [] dt = "string8" -> 8
               [] dt = "string16" -> 16

Scaled(dt) == dt \in {"acc16", "uint16", "acc32", "uint32", "acc64", "int16", "int32"}
Signed(dt) == dt \in {"int16", "int32", "pad", "sunssf"}

Abs(n) == IF n < 0 THEN -n ELSE n
Trunc(n, d) == IF n >= 0 THEN n \div d ELSE -((-n) \div d)

\* b to the power of n.
Power(b, n) ==
    LET power[i \in 0..n] == IF i = 0 THEN 1 ELSE b * power[i - 1]
    IN power[n]
Pow(n) == Power(Base, IF n > 0 THEN n ELSE 0)

\* A scaling of zero means that of the register itself.
Scaling(r, scaling) == IF scaling = 0 THEN r.scaling ELSE scaling

\* The integer that value * math.Pow(10, -scaling) is converted to.  The product is
\* rounded to a float64 and may fall just short of a whole number.
Raw(r, v, scaling) ==
    LET s == IF Scaled(r.dt) THEN Scaling(r, scaling) ELSE 0
        x == Trunc(v * Pow(-s), Unit * Pow(s))
        toZero == IF x > 0 THEN x - 1 ELSE IF x < 0 THEN x + 1 ELSE x
    IN IF s # 0 /\ x * Unit * Pow(s) = v * Pow(-s) THEN {x, toZero} ELSE {x}

\* Big-endian words of an integer.
Words(n, count) == [i \in 1..count |-> (n \div Power(Modulus, count - i)) % Modulus]

\* Register.Bytes.
Bytes(r, v, scaling) ==
    IF r.dt \in Text THEN {[i \in 1..Count(r.dt) |-> 0]}
    ELSE {Words(n, Count(r.dt)) : n \in Raw(r, v, scaling)}

\* The integer in the words of a register.
Integer(r, ws) ==
    LET n == CASE Count(r.dt) = 1 -> ws[1]
               [] Count(r.dt) = 2 -> ws[1] * Modulus + ws[2]
               [] Count(r.dt) = 4 -> ((ws[1] * Modulus + ws[2]) * Modulus + ws[3]) * Modulus + ws[4]
        values == Power(Modulus, Count(r.dt))
    IN IF Signed(r.dt) /\ n >= values \div 2 THEN n - values ELSE n

\* Register.Value.
ValueOf(r, ws, scaling) ==
    LET s == IF Scaled(r.dt) THEN Scaling(r, scaling) ELSE 0
    IN (Integer(r, ws) * Unit * Pow(s)) \div Pow(-s)

\* The points after ID and L, and the words before the k-th of them.
Points(id) == SubSeq(Schema[id], 3, Len(Schema[id]))

Offset(id, k) ==
    LET words[i \in 0..Len(Points(id))] == IF i = 0 THEN 0 ELSE words[i - 1] + Points(id)[i].size
    IN words[k - 1]

\* GetModelLength.
ModelLength(id) == Offset(id, Len(Points(id)) + 1)

\* What the schemas of the standard have in common: a model begins with the points ID and L,
\* has no two points of one name, and a point has the size of its type.
ASSUME SchemaAssumption ==
    /\ Unit \in Nat \ {0} /\ Modulus \in Nat \ {0} /\ Modulus % 2 = 0
    /\ SunS \in 0..(Modulus * Modulus - 1)
    /\ \A id \in DOMAIN Schema :
         /\ id \in 0..(EndMark - 1)
         /\ Schema[id] \in Seq([name: STRING, dt: STRING, size: Nat \ {0}, rw: BOOLEAN,
                               sf: STRING, num: Int])
         /\ Len(Schema[id]) >= 2
         /\ Schema[id][1].name = "ID" /\ Schema[id][2].name = "L"
         /\ \A i \in 1..2 : /\ Schema[id][i].dt = "uint16"
                             /\ Schema[id][i].size = 1 /\ Schema[id][i].sf = ""
         /\ \A i \in 1..Len(Schema[id]) :
              LET p == Schema[id][i]
              IN /\ Supported(p.dt) => p.size = Count(p.dt)
                 /\ p.name # "" /\ p.sf \notin {"ID", "L"}
                 /\ \A j \in 1..(i - 1) : Schema[id][j].name # p.name
         /\ ModelLength(id) < Modulus

-----------------------------------------------------------------------------
(* Configure of the server.  Registers are pointers that `registers' holds *)
(* by address and `points' by name; here a register is named by the        *)
(* address it was made at.                                                 *)

Put(f, x, y) == [z \in DOMAIN f \cup {x} |-> IF z = x THEN y ELSE f[z]]

\* A point of a model: a register at the next address.
AddPoint(st, id, p) ==
    IF ~st.ok \/ ~Supported(p.dt) THEN [st EXCEPT !.ok = FALSE]
    ELSE LET r == [dt |-> p.dt, model |-> id, tag |-> "",
                   scaling |-> IF p.sf = "number" THEN Abs(p.num) ELSE 0,
                   sf |-> IF p.sf = "number" THEN "" ELSE p.sf,
                   start |-> Unit * (CASE p.name = "ID" -> id
                                       [] p.name = "L" -> ModelLength(id)
                                       [] OTHER -> 0)]
         IN [st EXCEPT !.made = Put(@, st.addr, r), !.registers = Put(@, st.addr, st.addr),
                       !.points = Put(@, p.name, st.addr), !.addr = @ + p.size]

\* An element of a model: a number, or a tag, for the point of its name, perhaps one of an
\* earlier model.  An element without a text has the empty tag.  The register is also put
\* at the next free address.
AddChild(st, c) ==
    IF ~st.ok \/ c.name \notin DOMAIN st.points THEN [st EXCEPT !.ok = FALSE]
    ELSE LET h == st.points[c.name]
             r == st.made[h]
         IN [st EXCEPT !.made[h] = IF r.dt \in Text THEN r
                                   ELSE IF c.tag = "number" THEN [r EXCEPT !.start = c.val]
                                   ELSE [r EXCEPT !.tag = c.tag],
                       !.tags = IF r.dt \in Text \/ c.tag = "number" THEN @ ELSE @ \cup {c.tag},
                       !.registers = Put(@, st.addr, h)]

AddPoints(st, id) ==
    LET after[i \in 0..Len(Schema[id])] ==
            IF i = 0 THEN st ELSE AddPoint(after[i - 1], id, Schema[id][i])
    IN after[Len(Schema[id])]

AddChildren(st, children) ==
    LET after[i \in 0..Len(children)] ==
            IF i = 0 THEN st ELSE AddChild(after[i - 1], children[i])
    IN after[Len(children)]

AddModel(st, m) ==
    IF m.id \notin DOMAIN Schema THEN [st EXCEPT !.ok = FALSE]
    ELSE [AddChildren(AddPoints(st, m.id), m.children) EXCEPT !.model1 = @ \/ m.id = 1]

Static(dt, n) == [dt |-> dt, model |-> 0, tag |-> "", scaling |-> 0, sf |-> "", start |-> n * Unit]

\* The identifier, before any model.
Blank == [addr |-> First, ok |-> TRUE, model1 |-> FALSE, tags |-> {},
          made |-> [a \in {Identifier} |-> Static("uint32", SunS)],
          registers |-> [a \in {Identifier} |-> a], points |-> [n \in {} |-> 0]]

AddModels(models) ==
    LET after[i \in 0..Len(models)] == IF i = 0 THEN Blank ELSE AddModel(after[i - 1], models[i])
    IN after[Len(models)]

\* Two registers of one word at e and behind it.
PutEnd(st, e) ==
    [st EXCEPT !.made = Put(Put(@, e, Static("uint16", EndMark)), e + 1, Static("uint16", 0)),
               !.registers = Put(Put(@, e, e), e + 1, e + 1),
               !.ok = @ /\ st.model1]

\* Mutant: the end of the list is put after a gap of one register.
ConfigureGap(models) == LET st == AddModels(models) IN PutEnd(st, st.addr + 1)

\* Configure: the models follow each other, then comes the end of the list.  Model 1 has
\* to be among them.
Configure(models) == LET st == AddModels(models) IN PutEnd(st, st.addr)
=============================================================================

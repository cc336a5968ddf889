------------------------- MODULE ModbusClientProofs -------------------------
(***************************************************************************)
(* Proofs about ModbusClient for every configuration of registers, every   *)
(* word size and every history of commands, faults and field changes.      *)
(***************************************************************************)
EXTENDS ModbusClient, SequenceTheorems, WellFoundedInduction, TLAPS

-----------------------------------------------------------------------------
(* Registers.                                                              *)

\* A set of natural numbers that is not empty has a least member.
LEMMA Least ==
    ASSUME NEW T, T \subseteq Nat, T # {}
    PROVE  \E x \in T : \A y \in T : x <= y
<1>1. IsWellFoundedOn(OpToRel(<, Nat), Nat)
  BY NatLessThanWellFounded
<1>2. PICK x \in T : \A y \in T : <<y, x>> \notin OpToRel(<, Nat)
  BY <1>1, WFMin
<1>3. ASSUME NEW y \in T
      PROVE  x <= y
  <2>1. <<y, x>> \notin {p \in Nat \X Nat : p[1] < p[2]}
    BY <1>2 DEF OpToRel
  <2> QED
    BY <2>1
<1> QED
  BY <1>3

\* A set of indices that is not empty has a greatest member.
LEMMA Greatest ==
    ASSUME NEW n \in Nat, NEW T, T \subseteq 1..n, T # {}
    PROVE  \E x \in T : \A y \in T : y <= x
<1> DEFINE U == {n - x : x \in T}
<1>1. U \subseteq Nat /\ U # {}
  <2>1. \A x \in T : n - x \in Nat
    OBVIOUS
  <2>2. PICK x \in T : TRUE
    OBVIOUS
  <2>3. n - x \in U
    BY <2>2
  <2> QED
    BY <2>1, <2>3
<1>2. PICK u \in U : \A w \in U : u <= w
  BY <1>1, Least
<1>3. PICK x \in T : u = n - x
  BY <1>2
<1>4. \A y \in T : n - x <= n - y
  BY <1>2, <1>3
<1> QED
  BY <1>4

\* A tag stands for one of the elements it is configured with.
LEMMA RegType ==
    ASSUME NEW t \in Tag
    PROVE  Reg[t].factor \in Nat \ {0}
<1> DEFINE named == {i \in 1..Len(Elements) : Elements[i].tag = t}
<1>1. t \in {Elements[i].tag : i \in 1..Len(Elements)}
  BY DEF Tag, Reg, Configure
<1>2. named # {} /\ named \subseteq 1..Len(Elements) /\ Len(Elements) \in Nat
  BY <1>1, ClientAssumption
<1>3. \E i \in named : \A j \in named : j <= i
  BY <1>2, Greatest
<1>4. Reg[t] = Elements[CHOOSE i \in named : \A j \in named : j <= i]
  BY <1>1 DEF Reg, Configure
<1>5. (CHOOSE i \in named : \A j \in named : j <= i) \in named
  BY <1>3
<1> QED
  BY <1>2, <1>4, <1>5, ClientAssumption

\* A register has one, two or four words.
LEMMA CountType == \A dt : Count(dt) \in {1, 2, 4}
  BY DEF Count

\* The weights of the words of a register.
LEMMA WeightType ==
    /\ Weight(0) = 1 /\ Weight(1) = Radix
    /\ Weight(0) \in Nat \ {0} /\ Weight(1) \in Nat \ {0} /\ Weight(2) \in Nat \ {0}
    /\ Weight(3) \in Nat \ {0} /\ Weight(4) \in Nat \ {0}
<1>1. Radix \in Nat \ {0}
  BY RegisterAssumption
<1>2. \A a, b \in Nat \ {0} : a * b \in Nat \ {0}
  OBVIOUS
<1>3. Radix * Radix \in Nat \ {0}
  BY <1>1, <1>2
<1>4. Radix * Radix * Radix \in Nat \ {0}
  BY <1>1, <1>2, <1>3
<1>5. Radix * Radix * Radix * Radix \in Nat \ {0}
  BY <1>1, <1>2, <1>4
<1> QED
  BY <1>1, <1>3, <1>4, <1>5 DEF Weight

\* What a register's data stands for is an integer.
LEMMA ValueType ==
    ASSUME NEW reg, reg.factor \in Nat \ {0}, NEW ws \in [1..Count(reg.dt) -> Word]
    PROVE  Value(reg, ws) \subseteq Int
<1> DEFINE dt == reg.dt
<1>1. \A i \in 1..Count(dt) : ws[i] \in Int
  BY RegisterAssumption DEF Word
<1>2. Unsigned(dt, ws) \in Int
  <2>1. \A a, b \in Int : a * b \in Int
    OBVIOUS
  <2>2. CASE Count(dt) = 1
    BY <1>1, <2>2 DEF Unsigned
  <2>3. CASE Count(dt) = 2
    <3>1. ws[1] \in Int /\ ws[2] \in Int /\ Weight(1) \in Int
      BY <1>1, <2>3, WeightType
    <3> QED
      BY <2>1, <2>3, <3>1 DEF Unsigned
  <2>4. CASE Count(dt) = 4
    <3>1. ws[1] \in Int /\ ws[2] \in Int /\ ws[3] \in Int /\ ws[4] \in Int
      BY <1>1, <2>4
    <3>2. ws[1] * Weight(3) \in Int /\ ws[2] * Weight(2) \in Int /\ ws[3] * Weight(1) \in Int
      BY <2>1, <3>1, WeightType
    <3> QED
      BY <2>4, <3>1, <3>2 DEF Unsigned
  <2> QED
    BY <2>2, <2>3, <2>4, CountType
<1>3. Span(dt) \in Int
  BY CountType, WeightType DEF Span
<1>4. Integer(dt, ws) \in Int
  BY <1>2, <1>3 DEF Integer
<1>5. Integer(dt, ws) * Unit \in Int
  BY <1>4, RegisterAssumption
<1>6. PICK x \in Int : x = (Integer(dt, ws) * Unit) \div reg.factor
  BY <1>5
<1> QED
  BY <1>6 DEF Value, Rounded

\* The data of a register are words.
LEMMA BytesType ==
    ASSUME NEW reg, NEW v
    PROVE  Bytes(reg, v) \subseteq [1..Count(reg.dt) -> Word]
<1>1. ASSUME NEW dt, NEW n \in Int
      PROVE  Words(dt, n) \in [1..Count(dt) -> Word]
  <2>1. n % Span(dt) \in Int
    BY CountType, WeightType DEF Span
  <2>2. \A i \in 1..Count(dt) : Weight(Count(dt) - i) \in Nat \ {0}
    BY CountType, WeightType
  <2>3. \A i \in 1..Count(dt) : (n % Span(dt)) \div Weight(Count(dt) - i) \in Int
    BY <2>1, <2>2
  <2>4. \A i \in 1..Count(dt) : ((n % Span(dt)) \div Weight(Count(dt) - i)) % Radix \in 0..(Radix - 1)
    BY <2>3, RegisterAssumption
  <2> QED
    BY <2>4 DEF Words, Word
<1>2. ASSUME NEW n \in Raw(reg, v)
      PROVE  (IF n \in Lowest(reg.dt)..Highest(reg.dt) THEN {Words(reg.dt, n)}
              ELSE [1..Count(reg.dt) -> Word]) \subseteq [1..Count(reg.dt) -> Word]
  <2>1. CASE n \in Lowest(reg.dt)..Highest(reg.dt)
    <3>1. n \in Int
      BY <2>1
    <3> QED
      BY <1>1, <2>1, <3>1
  <2> QED
    BY <2>1
<1> QED
  BY <1>2 DEF Bytes

\* What a scan shows of a tag, and what a command makes of it, are integers.
LEMMA ShownType ==
    ASSUME NEW t \in Tag, NEW v
    PROVE  Shown(t, v) \subseteq Int /\ Commanded(t, v) \subseteq Int
<1>1. \A ws \in Bytes(Reg[t], v) : Value(Reg[t], ws) \subseteq Int
  BY RegType, BytesType, ValueType
<1>2. Unit \in Int /\ 0 * Unit \in Int /\ 1 * Unit \in Int
  BY RegisterAssumption
<1>3. Shown(t, v) \subseteq Int
  <2>1. CASE IsBit(t)
    BY <1>2, <2>1 DEF Shown, Sent, Read
  <2>2. CASE ~IsBit(t)
    BY <1>1, <2>2 DEF Shown, Sent, Read
  <2> QED
    BY <2>1, <2>2
<1>4. Commanded(t, v) \subseteq Int
  BY <1>1, <1>2 DEF Commanded
<1> QED
  BY <1>3, <1>4

-----------------------------------------------------------------------------
(* Commands.                                                               *)

\* No point of the command c is about tag t.
Silent(c, t) == \A i \in 1..Len(c) : c[i][1] # t

\* The last point of c about tag t has value v.
Final(c, t, v) ==
    \E i \in 1..Len(c) : /\ c[i][1] = t /\ c[i][2] = v
                         /\ \A j \in 1..Len(c) : j > i => c[j][1] # t

LEMMA SilentTags ==
    ASSUME NEW c, NEW t
    PROVE  Silent(c, t) <=> t \notin Tags(c)
  BY DEF Silent, Tags

LEMMA FinalType ==
    ASSUME NEW c \in Seq(Point), NEW t, NEW v, Final(c, t, v)
    PROVE  v \in Int
<1>1. PICK i \in 1..Len(c) : c[i][2] = v
  BY DEF Final
<1>2. c[i] \in Point
  BY <1>1, ElementOfSeq
<1> QED
  BY <1>1, <1>2, ClientAssumption

LEMMA LastOfFinal ==
    ASSUME NEW c \in Seq(Point), NEW t, t \in Tags(c)
    PROVE  Final(c, t, LastOf(c, t))
<1> DEFINE T == {i \in 1..Len(c) : c[i][1] = t}
           P(i) == c[i][1] = t /\ \A j \in (i + 1)..Len(c) : c[j][1] # t
<1>1. Len(c) \in Nat /\ T \subseteq 1..Len(c) /\ T # {}
  BY DEF Tags
<1>2. PICK x \in T : \A y \in T : y <= x
  BY <1>1, Greatest
<1>3. x \in 1..Len(c) /\ P(x)
  BY <1>1, <1>2
<1>4. PICK i : i = CHOOSE k \in 1..Len(c) : P(k)
  OBVIOUS
<1>5. i \in 1..Len(c) /\ P(i)
  BY <1>3, <1>4
<1>6. LastOf(c, t) = c[i][2]
  BY <1>4 DEF LastOf
<1>7. \A j \in 1..Len(c) : j > i => c[j][1] # t
  BY <1>1, <1>5
<1> QED
  BY <1>5, <1>6, <1>7 DEF Final

-----------------------------------------------------------------------------
(* Types.                                                                  *)

LEMMA TypeInit == Init => TypeOK
<1> SUFFICES ASSUME Init
             PROVE  TypeOK
  OBVIOUS
<1>1. points \in [{} -> Int] /\ {} \in SUBSET Present
  BY DEF Init, NoPoints
<1>2. inbox \in Seq(Command) /\ writing \in Seq(Point)
  BY DEF Init
<1>3. commands \in 0..MaxCommands /\ faults \in 0..MaxFaults /\ changes \in 0..MaxChanges
  BY ClientAssumption DEF Init
<1>4. /\ field \in [Tag -> Int]
      /\ mirror \in [Tag -> Int \cup {None}] /\ last \in [Tag -> Int \cup {None}]
      /\ held \in [Tag -> SUBSET Int]
  BY DEF Init
<1>5. /\ link \in {"up", "down"} /\ could \subseteq {"up", "down"} /\ told \subseteq {"up", "down"}
      /\ run \in {"starting", "up", "crashed"}
      /\ scanning \in BOOLEAN /\ connected \in BOOLEAN /\ todo \subseteq Tag
  BY DEF Init
<1> QED
  BY <1>1, <1>2, <1>3, <1>4, <1>5 DEF TypeOK

\* An assignment to a tag of the field keeps the types.
LEMMA SetFieldType ==
    ASSUME TypeOK, NEW t \in Tag, NEW w \in Int, SetField(t, w)
    PROVE  (field \in [Tag -> Int] /\ held \in [Tag -> SUBSET Int])'
  BY DEF TypeOK, SetField

LEMMA TypeStep == TypeOK /\ [Next]_vars => TypeOK'
<1> SUFFICES ASSUME TypeOK, [Next]_vars
             PROVE  TypeOK'
  OBVIOUS
<1> USE DEF TypeOK
<1>0. NoPoints \in [{} -> Int] /\ {} \in SUBSET Present
  BY DEF NoPoints
<1>1. CASE BeginScan
  BY <1>0, <1>1 DEF BeginScan, envVars
<1>2. ASSUME NEW t \in Tag, ReadRegister(t)
      PROVE  TypeOK'
  <2>1. (\E S \in SUBSET Present : points \in [S -> Int])'
    <3>1. PICK S \in SUBSET Present : points \in [S -> Int]
      OBVIOUS
    <3>2. CASE link = "up" /\ t \in Present
      <4>1. PICK v \in Shown(t, field[t]) :
              points' = [u \in DOMAIN points \cup {t} |-> IF u = t THEN v ELSE points[u]]
        BY <1>2, <3>2 DEF ReadRegister
      <4>2. v \in Int
        BY <4>1, ShownType
      <4>3. points' \in [S \cup {t} -> Int] /\ S \cup {t} \in SUBSET Present
        BY <3>1, <3>2, <4>1, <4>2
      <4> QED
        BY <4>3
    <3>3. CASE ~(link = "up" /\ t \in Present)
      BY <1>2, <3>3 DEF ReadRegister
    <3> QED
      BY <3>2, <3>3
  <2> QED
    BY <1>2, <2>1 DEF ReadRegister, history, envVars
<1>3. CASE PushStatus
  <2>1. (mirror \in [Tag -> Int \cup {None}] /\ connected \in BOOLEAN)'
    BY <1>3 DEF PushStatus
  <2>2. (faults \in 0..MaxFaults)'
    BY <1>3, ClientAssumption DEF PushStatus
  <2> QED
    BY <1>0, <1>3, <2>1, <2>2 DEF PushStatus
<1>4. CASE HandleUpdate
  <2>1. Head(inbox) \in Command /\ Tail(inbox) \in Seq(Command)
    BY <1>4 DEF HandleUpdate
  <2> QED
    BY <1>4, <2>1, ClientAssumption DEF HandleUpdate, history, envVars
<1>5. CASE WritePoint
  <2> DEFINE t == Head(writing)[1]
             v == Head(writing)[2]
  <2>1. Head(writing) \in Point /\ Tail(writing) \in Seq(Point)
    BY <1>5 DEF WritePoint
  <2>2. (field \in [Tag -> Int] /\ held \in [Tag -> SUBSET Int] /\ last \in [Tag -> Int \cup {None}])'
    <3>1. CASE Written(t) /\ Reachable(t)
      <4>1. PICK w \in Commanded(t, v) : SetField(t, w)
        BY <1>5, <3>1 DEF WritePoint
      <4>2. w \in Int /\ t \in Tag
        BY <3>1, <4>1, ShownType DEF Written
      <4> QED
        BY <1>5, <3>1, <4>1, <4>2, SetFieldType DEF WritePoint
    <3>2. CASE ~(Written(t) /\ Reachable(t))
      BY <1>5, <3>2 DEF WritePoint
    <3> QED
      BY <3>1, <3>2
  <2> QED
    BY <1>5, <2>1, <2>2 DEF WritePoint, envVars
<1>6. CASE Issue
  <2>1. PICK c \in Command :
          \/ /\ UNCHANGED inbox
             /\ last' = [t \in Tag |-> IF t \in Tags(c) THEN None ELSE last[t]]
          \/ /\ inbox' = Append(inbox, c)
             /\ last' = [t \in Tag |-> IF t \in Tags(c) THEN LastOf(c, t) ELSE last[t]]
    BY <1>6 DEF Issue
  <2>2. \A t \in Tag : t \in Tags(c) => LastOf(c, t) \in Int
    BY LastOfFinal, FinalType, ClientAssumption
  <2>3. (last \in [Tag -> Int \cup {None}])'
    BY <2>1, <2>2
  <2>4. (inbox \in Seq(Command))' /\ (commands \in 0..MaxCommands)'
    <3>1. inbox' = inbox \/ inbox' = Append(inbox, c)
      BY <2>1
    <3>2. (inbox \in Seq(Command))'
      <4>1. inbox \in Seq(Command)
        OBVIOUS
      <4>2. Append(inbox, c) \in Seq(Command)
        BY <4>1
      <4> QED
        BY <3>1, <4>1, <4>2, Zenon
    <3>3. (commands \in 0..MaxCommands)'
      BY <1>6, ClientAssumption DEF Issue
    <3> QED
      BY <3>2, <3>3
  <2> QED
    BY <1>6, <2>3, <2>4 DEF Issue
<1>7. CASE FieldChanges
  <2>1. PICK t \in Present, v \in Level : SetField(t, v) /\ last' = [last EXCEPT ![t] = None]
    BY <1>7 DEF FieldChanges
  <2>2. t \in Tag /\ v \in Int
    BY PresentAssumption, ClientAssumption
  <2>3. (field \in [Tag -> Int] /\ held \in [Tag -> SUBSET Int])'
    BY <2>1, <2>2, SetFieldType
  <2>4. (changes \in 0..MaxChanges)'
    BY <1>7, ClientAssumption DEF FieldChanges
  <2> QED
    BY <1>7, <2>1, <2>3, <2>4 DEF FieldChanges
<1>8. CASE LinkChanges
  <2>1. (faults \in 0..MaxFaults)'
    BY <1>8, ClientAssumption DEF LinkChanges
  <2> QED
    BY <1>8, <2>1 DEF LinkChanges
<1>9. CASE UNCHANGED vars
  BY <1>9 DEF vars, history, envVars
<1>10. CASE Process
  BY <1>10 DEF Process, NewClient, Restart, history, envVars
<1>11. CASE Panic
  <2>1. (inbox \in Seq(Command) /\ writing \in Seq(Point))'
    BY <1>11 DEF Panic
  <2>2. (last \in [Tag -> Int \cup {None}])'
    BY <1>11 DEF Panic
  <2> QED
    BY <1>11, <2>1, <2>2 DEF Panic, envVars
<1> QED
  BY <1>1, <1>2, <1>3, <1>4, <1>5, <1>6, <1>7, <1>8, <1>9, <1>10, <1>11
     DEF Next, Scan, Handle, Environment

-----------------------------------------------------------------------------
(* The scan.                                                               *)

\* While a scan runs, the values a tag has had since it began include the present one;
\* between scans nothing is collected.
Holding ==
    /\ scanning => \A t \in Tag : field[t] \in held[t]
    /\ ~scanning => DOMAIN points = {}

\* What a scan has collected, from the registers it is through with and the link states
\* it met.
Scanned ==
    scanning =>
        /\ link \in could
        /\ could = {"up"} => DOMAIN points = Present \ todo
        /\ could = {"down"} => DOMAIN points = {}

ScanInv == Holding /\ StatusFresh /\ Scanned /\ ConnectedHonest

LEMMA ScanInit == Init => ScanInv
  BY DEF Init, ScanInv, Holding, StatusFresh, Scanned, ConnectedHonest, NoPoints

\* An assignment to a tag of the field takes nothing away from what was held.
LEMMA SetFieldHolds ==
    ASSUME TypeOK, ScanInv, NEW t \in Tag, NEW w, SetField(t, w),
           UNCHANGED <<scanning, points>>
    PROVE  Holding' /\ StatusFresh'
<1>1. Holding'
  BY DEF TypeOK, ScanInv, Holding, SetField
<1>2. \A u \in Tag : held[u] \subseteq held'[u]
  BY DEF TypeOK, SetField
<1>3. DOMAIN points \subseteq Tag
  BY PresentAssumption DEF TypeOK
<1>4. StatusFresh'
  BY <1>2, <1>3 DEF ScanInv, StatusFresh
<1> QED
  BY <1>1, <1>4

LEMMA ScanStep == TypeOK /\ ScanInv /\ [Next]_vars => ScanInv'
<1> SUFFICES ASSUME TypeOK, ScanInv, [Next]_vars
             PROVE  ScanInv'
  OBVIOUS
<1>0. ASSUME UNCHANGED <<told, connected>>
      PROVE  ConnectedHonest'
  BY <1>0 DEF ScanInv, ConnectedHonest
<1>1. CASE BeginScan
  <2>1. (DOMAIN points = {})' /\ scanning' /\ UNCHANGED <<field, link>>
    BY <1>1 DEF BeginScan, NoPoints
  <2>2. Holding'
    BY <1>1, <2>1 DEF BeginScan, Holding
  <2>3. Scanned'
    BY <1>1, <2>1, PresentAssumption DEF BeginScan, Scanned
  <2> QED
    BY <1>0, <1>1, <2>1, <2>2, <2>3 DEF BeginScan, ScanInv, StatusFresh
<1>2. ASSUME NEW t \in Tag, ReadRegister(t)
      PROVE  ScanInv'
  <2>0. ConnectedHonest'
    BY <1>0, <1>2 DEF ReadRegister, history
  <2>1. scanning /\ t \in todo /\ todo' = todo \ {t} /\ UNCHANGED <<field, link, scanning, held, could>>
    BY <1>2 DEF ReadRegister, history
  <2>2. CASE link = "up" /\ t \in Present
    <3>1. PICK v \in Shown(t, field[t]) :
            points' = [u \in DOMAIN points \cup {t} |-> IF u = t THEN v ELSE points[u]]
      BY <1>2, <2>2 DEF ReadRegister
    <3>2. StatusFresh'
      BY <2>1, <3>1 DEF ScanInv, Holding, StatusFresh
    <3>3. Scanned'
      BY <2>1, <2>2, <3>1 DEF ScanInv, Scanned
    <3>4. Holding'
      BY <2>1 DEF ScanInv, Holding
    <3> QED
      BY <2>0, <3>2, <3>3, <3>4 DEF ScanInv
  <2>3. CASE ~(link = "up" /\ t \in Present)
    <3>1. UNCHANGED points
      BY <1>2, <2>3 DEF ReadRegister
    <3>2. Scanned'
      BY <2>1, <2>3, <3>1 DEF ScanInv, Scanned, TypeOK
    <3> QED
      BY <2>0, <2>1, <3>1, <3>2 DEF ScanInv, Holding, StatusFresh
  <2> QED
    BY <2>2, <2>3
<1>3. CASE PushStatus
  <2>1. Holding' /\ StatusFresh' /\ Scanned'
    BY <1>3 DEF PushStatus, ScanInv, Holding, StatusFresh, Scanned, NoPoints
  <2>2. CASE UNCHANGED <<told, connected>>
    BY <1>0, <2>1, <2>2 DEF ScanInv
  <2>3. CASE told' = could /\ connected' = (DOMAIN points # {})
    <3>1. scanning /\ todo = {}
      BY <1>3 DEF PushStatus
    <3>2. (could = {"up"} => DOMAIN points = Present) /\ (could = {"down"} => DOMAIN points = {})
      BY <3>1 DEF ScanInv, Scanned
    <3>3. ConnectedHonest'
      BY <2>3, <3>2 DEF ConnectedHonest
    <3> QED
      BY <2>1, <3>3 DEF ScanInv
  <2> QED
    BY <1>3, <2>2, <2>3 DEF PushStatus
<1>4. CASE HandleUpdate
  BY <1>4 DEF HandleUpdate, history, ScanInv, Holding, StatusFresh, Scanned, ConnectedHonest
<1>5. CASE WritePoint
  <2> DEFINE t == Head(writing)[1]
  <2>1. UNCHANGED <<link, scanning, todo, points, could, told, connected>>
    BY <1>5 DEF WritePoint
  <2>2. Scanned' /\ ConnectedHonest'
    BY <1>0, <2>1 DEF ScanInv, Scanned
  <2>3. CASE Written(t) /\ Reachable(t)
    <3>1. PICK w \in Commanded(t, Head(writing)[2]) : SetField(t, w)
      BY <1>5, <2>3 DEF WritePoint
    <3> QED
      BY <2>1, <2>2, <2>3, <3>1, SetFieldHolds DEF ScanInv, Written
  <2>4. CASE ~(Written(t) /\ Reachable(t))
    <3>1. UNCHANGED <<field, held>>
      BY <1>5, <2>4 DEF WritePoint
    <3> QED
      BY <2>1, <2>2, <3>1 DEF ScanInv, Holding, StatusFresh
  <2> QED
    BY <2>3, <2>4
<1>6. CASE Issue
  BY <1>6 DEF Issue, ScanInv, Holding, StatusFresh, Scanned, ConnectedHonest
<1>7. CASE FieldChanges
  <2>1. PICK t \in Present, v \in Level : SetField(t, v)
    BY <1>7 DEF FieldChanges
  <2>2. UNCHANGED <<link, scanning, todo, points, could, told, connected>>
    BY <1>7 DEF FieldChanges
  <2>3. Holding' /\ StatusFresh'
    BY <2>1, <2>2, SetFieldHolds, PresentAssumption
  <2> QED
    BY <1>0, <2>2, <2>3 DEF ScanInv, Scanned
<1>8. CASE LinkChanges
  <2>1. UNCHANGED <<field, scanning, todo, points, held, told, connected>>
    BY <1>8 DEF LinkChanges
  <2>2. Scanned'
    BY <1>8, <2>1 DEF LinkChanges, ScanInv, Scanned
  <2> QED
    BY <1>0, <2>1, <2>2 DEF ScanInv, Holding, StatusFresh
<1>9. CASE UNCHANGED <<field, link, scanning, todo, points, connected, held, could, told>>
  BY <1>0, <1>9 DEF ScanInv, Holding, StatusFresh, Scanned
<1> QED
  BY <1>1, <1>2, <1>3, <1>4, <1>5, <1>6, <1>7, <1>8, <1>9
     DEF Next, Scan, Handle, Process, NewClient, Restart, Panic, Environment, vars, history

\* The types, and the facts about the scan, hold in every reachable state.
LEMMA ScanInvariant == Spec => [](TypeOK /\ ScanInv)
<1>1. Init => TypeOK /\ ScanInv
  BY TypeInit, ScanInit
<1>2. (TypeOK /\ ScanInv) /\ [Next]_vars => (TypeOK /\ ScanInv)'
  BY TypeStep, ScanStep
<1> QED
  BY <1>1, <1>2, PTL DEF Spec

\* Whatever registers, commands and faults there are, a Status holds only what the
\* outstation had during the very scan that reports it (client.go:225-270).
THEOREM StatusFreshCorrect == Spec => []StatusFresh
<1>1. ScanInv => StatusFresh
  BY DEF ScanInv
<1> QED
  BY <1>1, ScanInvariant, PTL

\* The variables keep their types, an undisturbed scan reports every register the
\* outstation has, a scan without a network none, and the connected flag that the other
\* modules heard last says which of the two it was (client.go:236-277).
THEOREM ClientCorrect == Spec => []ClientInv
<1>1. TypeOK /\ ScanInv => ClientInv
  BY DEF ScanInv, Scanned, ClientInv, ScanComplete
<1> QED
  BY <1>1, ScanInvariant, PTL

-----------------------------------------------------------------------------
(* The newest command.                                                     *)

\* Updates `in' are waiting, the points `wr' of one are being written, and the tag t has
\* value f.  The last point about t among all of these has value v or, if there is none,
\* a write of v has given t its value.
Awaits(in, wr, f, t, v) ==
    \/ \E k \in 1..Len(in) : /\ Final(in[k], t, v)
                             /\ \A l \in 1..Len(in) : l > k => Silent(in[l], t)
    \/ /\ \A k \in 1..Len(in) : Silent(in[k], t)
       /\ Final(wr, t, v) \/ (Silent(wr, t) /\ f \in Commanded(t, v))

Newest == \A t \in Tag : last[t] # None => Awaits(inbox, writing, field[t], t, last[t])

\* Issue: a new Update about t goes behind all others.
LEMMA AwaitsIssue ==
    ASSUME NEW in \in Seq(Command), NEW wr, NEW f, NEW t, NEW v, NEW c \in Command
    PROVE  /\ Final(c, t, v) => Awaits(Append(in, c), wr, f, t, v)
           /\ Silent(c, t) /\ Awaits(in, wr, f, t, v) => Awaits(Append(in, c), wr, f, t, v)
<1> DEFINE n == Len(in)
           ap == Append(in, c)
<1>1. n \in Nat /\ Len(ap) = n + 1 /\ ap[n + 1] = c /\ \A k \in 1..n : ap[k] = in[k]
  OBVIOUS
<1> HIDE DEF n, ap
<1>2. ASSUME Final(c, t, v)
      PROVE  Awaits(ap, wr, f, t, v)
  BY <1>1, <1>2 DEF Awaits
<1>3. ASSUME Silent(c, t), Awaits(in, wr, f, t, v)
      PROVE  Awaits(ap, wr, f, t, v)
  <2>1. CASE \E k \in 1..n : Final(in[k], t, v) /\ \A l \in 1..n : l > k => Silent(in[l], t)
    <3>1. PICK k \in 1..n : Final(in[k], t, v) /\ \A l \in 1..n : l > k => Silent(in[l], t)
      BY <2>1
    <3>2. k \in 1..Len(ap) /\ Final(ap[k], t, v)
      BY <1>1, <3>1
    <3>3. ASSUME NEW l \in 1..Len(ap), l > k
          PROVE  Silent(ap[l], t)
      BY <1>1, <1>3, <3>1, <3>3
    <3> QED
      BY <3>2, <3>3 DEF Awaits
  <2>2. CASE /\ \A k \in 1..n : Silent(in[k], t)
             /\ Final(wr, t, v) \/ (Silent(wr, t) /\ f \in Commanded(t, v))
    <3>1. ASSUME NEW k \in 1..Len(ap)
          PROVE  Silent(ap[k], t)
      BY <1>1, <1>3, <2>2
    <3> QED
      BY <2>2, <3>1 DEF Awaits
  <2> QED
    BY <1>3, <2>1, <2>2 DEF Awaits, n
<1> QED
  BY <1>2, <1>3 DEF ap

\* HandleUpdate: the first Update comes off the queue when no point is left to write.
LEMMA AwaitsHandle ==
    ASSUME NEW in \in Seq(Command), in # <<>>, NEW f, NEW t, NEW v, Awaits(in, <<>>, f, t, v)
    PROVE  Awaits(Tail(in), Head(in), f, t, v)
<1> DEFINE n == Len(in)
           tl == Tail(in)
           hd == Head(in)
<1>1. /\ n \in Nat \ {0} /\ Len(tl) = n - 1 /\ hd = in[1]
      /\ \A k \in 1..(n - 1) : tl[k] = in[k + 1]
  OBVIOUS
<1>2. ~Final(<<>>, t, v)
  BY DEF Final
<1> SUFFICES Awaits(tl, hd, f, t, v)
  OBVIOUS
<1> HIDE DEF n, tl, hd
<1>3. CASE \E k \in 1..n : Final(in[k], t, v) /\ \A l \in 1..n : l > k => Silent(in[l], t)
  <2>1. PICK k \in 1..n : Final(in[k], t, v) /\ \A l \in 1..n : l > k => Silent(in[l], t)
    BY <1>3
  <2>2. CASE k = 1
    <3>1. ASSUME NEW l \in 1..Len(tl)
          PROVE  Silent(tl[l], t)
      BY <1>1, <2>1, <2>2
    <3> QED
      BY <1>1, <2>1, <2>2, <3>1 DEF Awaits
  <2>3. CASE k # 1
    <3>1. k - 1 \in 1..Len(tl) /\ Final(tl[k - 1], t, v)
      BY <1>1, <2>1, <2>3
    <3>2. ASSUME NEW l \in 1..Len(tl), l > k - 1
          PROVE  Silent(tl[l], t)
      BY <1>1, <2>1, <3>2
    <3> QED
      BY <3>1, <3>2 DEF Awaits
  <2> QED
    BY <2>2, <2>3
<1>4. CASE (\A k \in 1..n : Silent(in[k], t)) /\ f \in Commanded(t, v)
  <2>1. Silent(hd, t) /\ \A l \in 1..Len(tl) : Silent(tl[l], t)
    BY <1>1, <1>4
  <2> QED
    BY <1>4, <2>1 DEF Awaits
<1> QED
  BY <1>2, <1>3, <1>4 DEF Awaits, n

\* WritePoint: the first point comes off those being written.
LEMMA AwaitsWrite ==
    ASSUME NEW in, NEW wr \in Seq(Point), wr # <<>>, NEW f, NEW g, NEW t, NEW v,
           Awaits(in, wr, f, t, v),
           Head(wr)[1] # t => g = f,
           Head(wr)[1] = t => g \in Commanded(t, Head(wr)[2])
    PROVE  Awaits(in, Tail(wr), g, t, v)
<1> DEFINE n == Len(wr)
           tl == Tail(wr)
           hd == Head(wr)
<1>1. /\ n \in Nat \ {0} /\ Len(tl) = n - 1 /\ hd = wr[1]
      /\ \A k \in 1..(n - 1) : tl[k] = wr[k + 1]
  OBVIOUS
<1> HIDE DEF n, tl, hd
<1>2. ASSUME Silent(wr, t), f \in Commanded(t, v)
      PROVE  Silent(tl, t) /\ g \in Commanded(t, v)
  <2>1. hd[1] # t
    BY <1>1, <1>2 DEF Silent, n
  <2> QED
    BY <1>1, <1>2, <2>1 DEF Silent, n, hd
<1>3. ASSUME Final(wr, t, v)
      PROVE  Final(tl, t, v) \/ (Silent(tl, t) /\ g \in Commanded(t, v))
  <2>1. PICK i \in 1..n : wr[i][1] = t /\ wr[i][2] = v /\ \A j \in 1..n : j > i => wr[j][1] # t
    BY <1>3 DEF Final, n
  <2>2. CASE i = 1
    <3>1. \A k \in 1..Len(tl) : tl[k][1] # t
      BY <1>1, <2>1, <2>2
    <3>2. g \in Commanded(t, v)
      BY <1>1, <2>1, <2>2 DEF hd
    <3> QED
      BY <3>1, <3>2 DEF Silent
  <2>3. CASE i # 1
    <3>1. i - 1 \in 1..Len(tl) /\ tl[i - 1][1] = t /\ tl[i - 1][2] = v
      BY <1>1, <2>1, <2>3
    <3>2. \A j \in 1..Len(tl) : j > i - 1 => tl[j][1] # t
      BY <1>1, <2>1
    <3> QED
      BY <3>1, <3>2 DEF Final
  <2> QED
    BY <2>2, <2>3
<1> QED
  BY <1>2, <1>3 DEF Awaits, tl

LEMMA NewestInit == Init => Newest
  BY DEF Init, Newest

LEMMA NewestStep == TypeOK /\ Newest /\ [Next]_vars => Newest'
<1> SUFFICES ASSUME TypeOK, Newest, [Next]_vars, NEW t \in Tag, last'[t] # None
             PROVE  Awaits(inbox', writing', field'[t], t, last'[t])
  BY DEF Newest
<1>0. last[t] # None => Awaits(inbox, writing, field[t], t, last[t])
  BY DEF Newest
<1>1. CASE UNCHANGED <<inbox, writing, field, last>>
  BY <1>0, <1>1
<1>2. CASE HandleUpdate
  <2>1. /\ writing = <<>> /\ inbox # <<>> /\ writing' = Head(inbox) /\ inbox' = Tail(inbox)
        /\ UNCHANGED <<field, last>>
    BY <1>2 DEF HandleUpdate, history
  <2>2. Awaits(inbox, <<>>, field[t], t, last[t])
    BY <1>0, <2>1
  <2>3. Awaits(Tail(inbox), Head(inbox), field[t], t, last[t])
    BY <2>1, <2>2, AwaitsHandle DEF TypeOK
  <2> QED
    BY <2>1, <2>3
<1>3. CASE WritePoint
  <2> DEFINE p == Head(writing)
  <2>1. writing # <<>> /\ writing' = Tail(writing) /\ UNCHANGED inbox
    BY <1>3 DEF WritePoint
  <2>2. last[t] # None /\ last'[t] = last[t]
    BY <1>3 DEF WritePoint, TypeOK
  <2>3. p[1] # t => field'[t] = field[t]
    BY <1>3 DEF WritePoint, SetField, TypeOK
  <2>4. p[1] = t => field'[t] \in Commanded(t, p[2])
    BY <1>3 DEF WritePoint, SetField, TypeOK
  <2>5. PICK g : g = field'[t]
    OBVIOUS
  <2>6. Awaits(inbox, Tail(writing), g, t, last[t])
    BY <1>0, <2>1, <2>2, <2>3, <2>4, <2>5, AwaitsWrite DEF TypeOK
  <2> QED
    BY <2>1, <2>2, <2>5, <2>6
<1>4. CASE Issue
  <2>0. UNCHANGED <<writing, field>>
    BY <1>4 DEF Issue
  <2>1. CASE run = "crashed"
    <3>1. PICK c \in Command :
             UNCHANGED inbox /\ last' = [u \in Tag |-> IF u \in Tags(c) THEN None ELSE last[u]]
      BY <1>4, <2>1 DEF Issue
    <3>2. last'[t] = last[t]
      BY <3>1
    <3> QED
      BY <1>0, <2>0, <3>1, <3>2
  <2> SUFFICES ASSUME run # "crashed"
               PROVE  Awaits(inbox', writing', field'[t], t, last'[t])
    BY <2>1
  <2>2. PICK c \in Command :
          /\ inbox' = Append(inbox, c)
          /\ last' = [u \in Tag |-> IF u \in Tags(c) THEN LastOf(c, u) ELSE last[u]]
    BY <1>4 DEF Issue
  <2>3. CASE t \in Tags(c)
    <3>1. last'[t] = LastOf(c, t) /\ Final(c, t, LastOf(c, t))
      BY <2>2, <2>3, LastOfFinal, ClientAssumption
    <3>2. Awaits(Append(inbox, c), writing, field[t], t, LastOf(c, t))
      BY <3>1, AwaitsIssue DEF TypeOK
    <3> QED
      BY <2>0, <2>2, <3>1, <3>2
  <2>4. CASE t \notin Tags(c)
    <3>1. last'[t] = last[t] /\ Silent(c, t)
      BY <2>2, <2>4, SilentTags
    <3>2. Awaits(Append(inbox, c), writing, field[t], t, last[t])
      BY <1>0, <3>1, AwaitsIssue DEF TypeOK
    <3> QED
      BY <2>0, <2>2, <3>1, <3>2
  <2> QED
    BY <2>3, <2>4
<1>5. CASE FieldChanges
  <2>1. PICK u \in Present, w \in Level : SetField(u, w) /\ last' = [last EXCEPT ![u] = None]
    BY <1>5 DEF FieldChanges
  <2>2. u # t
    BY <2>1 DEF TypeOK
  <2>3. last'[t] = last[t] /\ field'[t] = field[t]
    BY <2>1, <2>2 DEF TypeOK, SetField
  <2> QED
    BY <1>0, <1>5, <2>3 DEF FieldChanges
<1>6. CASE Panic
  <2>1. t \notin Waiting /\ last'[t] = last[t] /\ field' = field /\ inbox' = <<>> /\ writing' = <<>>
    BY <1>6 DEF Panic
  <2>2. Silent(writing, t) /\ \A k \in 1..Len(inbox) : Silent(inbox[k], t)
    BY <2>1, SilentTags DEF Waiting
  <2>3. ~Final(writing, t, last[t]) /\ \A k \in 1..Len(inbox) : ~Final(inbox[k], t, last[t])
    BY <2>2 DEF Silent, Final
  <2>4. field[t] \in Commanded(t, last[t])
    BY <1>0, <2>1, <2>3 DEF Awaits
  <2>5. Silent(<<>>, t)
    BY DEF Silent
  <2> QED
    BY <2>1, <2>4, <2>5 DEF Awaits
<1> QED
  BY <1>1, <1>2, <1>3, <1>4, <1>5, <1>6 DEF Next, Scan, Handle, Process, NewClient, Restart,
     Environment, BeginScan, ReadRegister, PushStatus, LinkChanges, vars, history

\* Of all Updates issued, in whatever order writes, failures, panics, scans and changes of
\* the field fall, the outstation ends up with what the newest one for a tag makes of it
\* (client.go:300-347, testing/e2e/README.md:51-53).
THEOREM LastCommandCorrect == Spec => []LastCommandWins
<1>1. Init => TypeOK /\ Newest
  BY TypeInit, NewestInit
<1>2. (TypeOK /\ Newest) /\ [Next]_vars => (TypeOK /\ Newest)'
  BY TypeStep, NewestStep
<1>3. Newest => LastCommandWins
  <2> SUFFICES ASSUME Newest, inbox = <<>>, writing = <<>>, NEW t \in Tag, last[t] # None
               PROVE  field[t] \in Commanded(t, last[t])
    BY DEF LastCommandWins
  <2>1. Awaits(<<>>, <<>>, field[t], t, last[t])
    BY DEF Newest
  <2> QED
    BY <2>1 DEF Awaits, Final
<1> QED
  BY <1>1, <1>2, <1>3, PTL DEF Spec
=============================================================================

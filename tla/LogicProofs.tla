---------------------------- MODULE LogicProofs ----------------------------
(***************************************************************************)
(* Proofs about Logic for every program, every set of variables and every  *)
(* stream of messages.                                                     *)
(*                                                                         *)
(* What a tick announces depends on what the program computed line by      *)
(* line, so the proofs begin with an induction over the lines.  It uses    *)
(* that the natural numbers are well founded: a set that contains 0 and    *)
(* the successor of each of its members contains all of them.              *)
(***************************************************************************)
EXTENDS Logic, Integers, SequenceTheorems, WellFoundedInduction, TLAPS

-----------------------------------------------------------------------------
(* The lines of a program.                                                 *)

\* A set of natural numbers that is not empty has a least member.
LEMMA Least ==
    ASSUME NEW T, T \subseteq Nat, T # {}
    PROVE  \E x \in T : \A y \in T : x <= y
<1>1. IsWellFoundedOn(OpToRel(<, Nat), Nat)
  BY NatLessThanWellFounded
<1>2. PICK x \in T : \A y \in T : <<y, x>> \notin OpToRel(<, Nat)
  BY <1>1, WFMin
<1>3. ASSUME NEW y \in T
      PROVE  x <= y
  <2>1. <<y, x>> \notin {p \in Nat \X Nat : p[1] < p[2]}
    BY <1>2 DEF OpToRel
  <2> QED
    BY <2>1
<1> QED
  BY <1>3

\* Induction over the natural numbers, for a set instead of a predicate.
LEMMA NatSetInduction ==
    ASSUME NEW S, 0 \in S, \A n \in Nat : n \in S => n + 1 \in S
    PROVE  Nat \subseteq S
<1>1. SUFFICES ASSUME NEW T, T = {n \in Nat : n \notin S}, T # {}
               PROVE  FALSE
  OBVIOUS
<1>2. PICK x \in T : \A y \in T : x <= y
  BY <1>1, Least
<1>3. x # 0 /\ x - 1 \in Nat
  BY <1>1, <1>2
<1>4. x - 1 \notin T
  BY <1>1, <1>2, <1>3
<1> QED
  BY <1>1, <1>2, <1>3, <1>4

\* What the loop of execute (logic.go) has after i lines of the program.
Runs(f, e, n) ==
    f = [i \in 0..n |-> IF i = 0 THEN [env |-> e, updated |-> {}]
                        ELSE ExecuteLine(Program[i], f[i-1])]

\* The first n lines can be evaluated.
LEMMA RunExists ==
    ASSUME NEW e
    PROVE  \A n \in Nat : \E f : Runs(f, e, n)
<1> DEFINE S == {n \in Nat : \E f : Runs(f, e, n)}
<1>1. 0 \in S
  <2> DEFINE f == [i \in 0..0 |-> [env |-> e, updated |-> {}]]
  <2>1. Runs(f, e, 0)
    BY DEF Runs
  <2> QED
    BY <2>1
<1>2. ASSUME NEW n \in Nat, n \in S
      PROVE  n + 1 \in S
  <2>1. PICK f : Runs(f, e, n)
    BY <1>2
  <2> DEFINE g == [i \in 0..(n+1) |-> IF i <= n THEN f[i] ELSE ExecuteLine(Program[n+1], f[n])]
  <2>2. ASSUME NEW i \in 0..(n+1)
        PROVE  g[i] = IF i = 0 THEN [env |-> e, updated |-> {}]
                      ELSE ExecuteLine(Program[i], g[i-1])
    <3>1. CASE i <= n
      <4>1. i \in 0..n /\ (i # 0 => i - 1 \in 0..(n+1) /\ i - 1 <= n)
        BY <3>1
      <4>2. g[i] = f[i] /\ (i # 0 => g[i-1] = f[i-1])
        BY <3>1, <4>1
      <4>3. f[i] = IF i = 0 THEN [env |-> e, updated |-> {}]
                   ELSE ExecuteLine(Program[i], f[i-1])
        BY <2>1, <4>1 DEF Runs
      <4> HIDE DEF g
      <4> QED
        BY <4>2, <4>3
    <3>2. CASE i = n + 1
      <4>1. g[i] = ExecuteLine(Program[n+1], f[n]) /\ g[n] = f[n] /\ i # 0 /\ i - 1 = n
        BY <3>2
      <4> HIDE DEF g
      <4> QED
        BY <3>2, <4>1
    <3> QED
      BY <3>1, <3>2
  <2>3. Runs(g, e, n + 1)
    <3>1. g = [i \in 0..(n+1) |-> g[i]]
      OBVIOUS
    <3> HIDE DEF g
    <3> QED
      BY <2>2, <3>1 DEF Runs
  <2> QED
    BY <2>3
<1> HIDE DEF S
<1>3. Nat \subseteq S
  BY <1>1, <1>2, NatSetInduction
<1> QED
  BY <1>3 DEF S

\* Execute evaluates all the lines.
LEMMA ExecuteRuns ==
    ASSUME NEW e
    PROVE  \E f : Runs(f, e, Len(Program)) /\ Execute(e) = f[Len(Program)]
<1>1. Len(Program) \in Nat
  BY LogicAssumption
<1> DEFINE f == CHOOSE f : Runs(f, e, Len(Program))
<1>2. Runs(f, e, Len(Program))
  BY <1>1, RunExists
<1>3. Execute(e) = f[Len(Program)]
  BY DEF Execute, Runs
<1> QED
  BY <1>2, <1>3
\* What the lines may have done when the evaluation began with the environment e: the
\* values have their types, what is remembered is assigned by some line and has a tag, and
\* a tagged variable that changed is remembered.
Good(e, st) ==
    /\ st \in [env: Env, updated: SUBSET Assigned]
    /\ \A v \in Tagged : st.env[v] # e[v] => v \in st.updated

\* One line keeps that.
LEMMA LineGood ==
    ASSUME NEW e \in Env, NEW i \in 1..Len(Program), NEW st, Good(e, st)
    PROVE  Good(e, ExecuteLine(Program[i], st))
<1> DEFINE line == Program[i]
           result == line.fn[st.env]
<1>1. /\ line \in [var: Var, fn: [Env -> Value \cup {Failed}]]
      /\ line.var \in Tagged => line.var \in Assigned
  <2>1. Program \in Seq([var: Var, fn: [Env -> Value \cup {Failed}]])
    BY LogicAssumption
  <2>2. line \in [var: Var, fn: [Env -> Value \cup {Failed}]]
    BY <2>1, ElementOfSeq
  <2>3. line.var \in Tagged => line.var \in Assigned
    BY DEF Assigned
  <2> QED
    BY <2>2, <2>3
<1>2. st.env \in Env /\ st.updated \subseteq Assigned
  BY DEF Good
<1>3. line.var \in Var /\ result \in Value \cup {Failed}
  BY <1>1, <1>2
<1> HIDE DEF line, result
<1>4. CASE result = Failed
  <2>1. ExecuteLine(Program[i], st) = st
    BY <1>4 DEF ExecuteLine, result, line
  <2> QED
    BY <2>1
<1>5. CASE result # Failed
  <2> DEFINE env1 == [st.env EXCEPT ![line.var] = result]
             upd1 == IF line.var \in Tagged /\ Differs(result, st.env[line.var])
                     THEN st.updated \cup {line.var} ELSE st.updated
  <2>1. ExecuteLine(Program[i], st) = [env |-> env1, updated |-> upd1]
    BY <1>5 DEF ExecuteLine, result, line
  <2>2. env1 \in Env
    BY <1>2, <1>3, <1>5 DEF Env
  <2>3. upd1 \in SUBSET Assigned
    BY <1>1, <1>2
  <2>4. ASSUME NEW v \in Tagged, env1[v] # e[v]
        PROVE  v \in upd1
    <3>1. v \in Var /\ st.env \in [Var -> Value]
      BY <1>2, LogicAssumption DEF Env
    <3>2. CASE v = line.var /\ result # st.env[v]
      BY <3>2 DEF Differs
    <3>3. CASE v # line.var \/ result = st.env[v]
      <4>1. env1[v] = st.env[v]
        BY <3>1, <3>3
      <4> HIDE DEF env1
      <4>2. v \in st.updated
        BY <2>4, <4>1 DEF Good
      <4> QED
        BY <4>2
    <3> QED
      BY <3>2, <3>3
  <2> HIDE DEF env1, upd1
  <2> QED
    BY <2>1, <2>2, <2>3, <2>4 DEF Good
<1> QED
  BY <1>4, <1>5

\* The whole program keeps it, by induction over the lines.
LEMMA ExecuteGood ==
    ASSUME NEW e \in Env
    PROVE  Good(e, Execute(e))
<1>1. PICK f : Runs(f, e, Len(Program)) /\ Execute(e) = f[Len(Program)]
  BY ExecuteRuns
<1>2. Len(Program) \in Nat
  BY LogicAssumption
<1> DEFINE S == {n \in Nat : n <= Len(Program) => Good(e, f[n])}
<1>3. 0 \in S
  <2>1. f[0] = [env |-> e, updated |-> {}]
    BY <1>1, <1>2 DEF Runs
  <2>2. Good(e, f[0])
    BY <2>1 DEF Good
  <2> QED
    BY <2>2
<1>4. ASSUME NEW n \in Nat, n \in S
      PROVE  n + 1 \in S
  <2>1. ASSUME n + 1 <= Len(Program)
        PROVE  Good(e, f[n + 1])
    <3>1. n + 1 \in 1..Len(Program) /\ n + 1 \in 0..Len(Program) /\ n + 1 # 0 /\ (n + 1) - 1 = n
      BY <1>2, <2>1
    <3>2. f[n + 1] = ExecuteLine(Program[n + 1], f[n])
      BY <1>1, <3>1 DEF Runs
    <3>3. Good(e, f[n])
      BY <1>2, <1>4, <2>1
    <3> QED
      BY <3>1, <3>2, <3>3, LineGood
  <2> QED
    BY <2>1
<1> HIDE DEF S
<1>5. Nat \subseteq S
  BY <1>3, <1>4, NatSetInduction
<1>6. Len(Program) \in S
  BY <1>2, <1>5
<1> QED
  BY <1>1, <1>6, <1>2 DEF S

-----------------------------------------------------------------------------
(* The ticker and the subscriber.                                          *)

\* The Status of a tick holds all assigned variables and its Update those that changed,
\* both with the values of the environment, from the moment they are published until the
\* next tick; what could not be pushed is empty.
Published ==
    /\ tick \in {"exec", "status"} => status = NoPoints /\ "status" \notin failed
    /\ tick \in {"update", "unlock"} =>
          status = IF "status" \in failed THEN NoPoints ELSE PointsOf(Assigned)
    /\ tick \in {"exec", "status", "update"} => update = NoPoints /\ "update" \notin failed
    /\ tick = "unlock" =>
          update = IF "update" \in failed THEN NoPoints ELSE PointsOf(updated)

IInv == TypeOK /\ Snapshot /\ Published

\* The invariant holds when the module has been configured.
LEMMA InitIInv == Init => IInv
<1> SUFFICES ASSUME Init PROVE IInv
  OBVIOUS
<1>1. TypeOK
  <2>1. inbox \in Seq(Message)
    BY DEF Init
  <2>2. status \in [{} -> Num] /\ update \in [{} -> Num]
    BY DEF Init, NoPoints
  <2>3. handling \in Message \cup {NoMessage}
    BY DEF Init
  <2>4. env \in Env /\ before \in Env
    BY LogicAssumption DEF Init
  <2> QED
    BY <2>1, <2>2, <2>3, <2>4 DEF Init, TypeOK, TickState
<1>2. Snapshot /\ Published
  BY DEF Init, Snapshot, Published
<1> QED
  BY <1>1, <1>2 DEF IInv

\* The numbers of points that can be encoded are floats of the bus.
LEMMA PointsType ==
    ASSUME TypeOK, NEW S \in SUBSET Tagged, Encodable(PointsOf(S))
    PROVE  PointsOf(S) \in [S -> Num]
<1>1. \A v \in S : env[v] \in Value
  BY LogicAssumption DEF TypeOK, Env
<1>2. \A v \in S : env[v].val \in Num \cup {NaN}
  BY <1>1, LogicAssumption DEF Value
<1>3. \A v \in S : env[v].val # NaN
  BY DEF Encodable, PointsOf
<1> QED
  BY <1>2, <1>3 DEF PointsOf

\* A Push may bring a message of the right type back.
LEMMA EchoType ==
    ASSUME TypeOK, NEW S \in SUBSET Tagged, NEW p \in [S -> Num], NEW k \in {"status", "update"},
           Echo(k, p)
    PROVE  inbox' \in Seq(Message)
<1>1. \A v \in S : [sender |-> "self", kind |-> k, tag |-> v, val |-> p[v]] \in Message
  BY DEF Message
<1>2. CASE UNCHANGED inbox
  BY <1>2 DEF TypeOK
<1>3. ASSUME NEW v \in S,
             inbox' = Append(inbox, [sender |-> "self", kind |-> k, tag |-> v, val |-> p[v]])
      PROVE  inbox' \in Seq(Message)
  <2>1. PICK m \in Message : inbox' = Append(inbox, m)
    BY <1>1, <1>3
  <2> QED
    BY <2>1 DEF TypeOK
<1> QED
  BY <1>2, <1>3 DEF Echo

\* The ticker takes the lock, so the environment is the one it found.
LEMMA LockIInv == IInv /\ Lock => IInv'
<1> SUFFICES ASSUME IInv, Lock PROVE IInv'
  OBVIOUS
<1> USE DEF IInv, Lock
<1>1. status' \in [{} -> Num] /\ update' \in [{} -> Num]
  BY DEF NoPoints
<1>2. TypeOK'
  BY <1>1 DEF TypeOK, TickState
<1>3. Snapshot' /\ Published'
  BY DEF Snapshot, Published
<1> QED
  BY <1>2, <1>3

\* The program is evaluated on that environment.
LEMMA RunIInv == IInv /\ RunProgram => IInv'
<1> SUFFICES ASSUME IInv, RunProgram PROVE IInv'
  OBVIOUS
<1>1. /\ tick = "exec" /\ tick' = "status"
      /\ env' = Execute(env).env /\ updated' = Execute(env).updated
      /\ UNCHANGED <<mutex, inbox, handling, before, status, update, failed>>
  BY DEF RunProgram
<1>2. env = before /\ env \in Env
  BY <1>1 DEF IInv, TypeOK, Snapshot
<1>3. Good(env, Execute(env))
  BY <1>2, ExecuteGood
<1>4. env' \in Env /\ updated' \subseteq Assigned
  BY <1>1, <1>3 DEF Good
<1>5. Assigned \subseteq Var
  BY LogicAssumption DEF Assigned
<1>6. TypeOK'
  BY <1>1, <1>4, <1>5 DEF IInv, TypeOK, TickState
<1>7. Published'
  BY <1>1 DEF IInv, Published
<1>8. Snapshot'
  <2>1. env' = Execute(before').env /\ updated' = Execute(before').updated
    BY <1>1, <1>2
  <2>2. mutex' = "ticker"
    BY <1>1 DEF IInv, Snapshot
  <2> QED
    BY <1>1, <2>1, <2>2 DEF Snapshot
<1> QED
  BY <1>6, <1>7, <1>8 DEF IInv

\* The Status of the tick is published, or the tick is given up.
LEMMA PublishStatusIInv == IInv /\ PublishStatus => IInv'
<1> SUFFICES ASSUME IInv, PublishStatus PROVE IInv'
  OBVIOUS
<1>1. /\ tick = "status"
      /\ UNCHANGED <<env, mutex, updated, handling, before, update>>
  BY DEF PublishStatus
<1>2. Assigned \in SUBSET Tagged
  BY DEF Assigned
<1>3. /\ status = NoPoints /\ update = NoPoints /\ mutex = "ticker"
      /\ failed \subseteq {"status", "update"} /\ failed = {}
  BY <1>1 DEF IInv, Published, Snapshot, TypeOK
<1>4. CASE Assigned = {} /\ tick' = "update" /\ UNCHANGED <<inbox, status, failed>>
  <2>1. TypeOK'
    BY <1>1, <1>4 DEF IInv, TypeOK, TickState
  <2>2. Snapshot'
    BY <1>1, <1>4 DEF IInv, Snapshot
  <2>3. PointsOf(Assigned)' = NoPoints
    BY <1>4 DEF PointsOf, NoPoints, Assigned
  <2>4. Published'
    BY <1>1, <1>3, <1>4, <2>3 DEF Published
  <2> QED
    BY <2>1, <2>2, <2>4 DEF IInv
<1>5. CASE /\ Assigned # {} /\ Encodable(PointsOf(Assigned))
           /\ status' = PointsOf(Assigned)
           /\ Echo("status", PointsOf(Assigned))
           /\ tick' = "update"
           /\ UNCHANGED failed
  <2>1. PointsOf(Assigned) \in [Assigned -> Num]
    BY <1>2, <1>5, PointsType DEF IInv
  <2>2. inbox' \in Seq(Message)
    BY <1>2, <1>5, <2>1, EchoType DEF IInv
  <2>3. TypeOK'
    BY <1>1, <1>2, <1>5, <2>1, <2>2 DEF IInv, TypeOK, TickState
  <2>4. Snapshot'
    BY <1>1, <1>5 DEF IInv, Snapshot
  <2>5. PointsOf(Assigned)' = PointsOf(Assigned)
    BY <1>1 DEF PointsOf, Assigned
  <2>6. Published'
    BY <1>1, <1>3, <1>5, <2>5 DEF Published
  <2> QED
    BY <2>3, <2>4, <2>6 DEF IInv
<1>6. CASE tick' = "idle" /\ UNCHANGED <<inbox, status, failed>>
  <2>1. TypeOK'
    BY <1>1, <1>6 DEF IInv, TypeOK, TickState
  <2>2. Snapshot' /\ Published'
    BY <1>6 DEF Snapshot, Published
  <2> QED
    BY <2>1, <2>2 DEF IInv
<1>7. CASE failed' = failed \cup {"status"} /\ tick' = "update" /\ UNCHANGED <<inbox, status>>
  <2>1. TypeOK'
    BY <1>1, <1>7 DEF IInv, TypeOK, TickState
  <2>2. Snapshot'
    BY <1>1, <1>7 DEF IInv, Snapshot
  <2>3. Published'
    BY <1>1, <1>3, <1>7 DEF Published
  <2> QED
    BY <2>1, <2>2, <2>3 DEF IInv
<1> QED
  BY <1>4, <1>5, <1>6, <1>7 DEF PublishStatus

\* The Update of the tick is published, or the tick is given up.
LEMMA PublishUpdateIInv == IInv /\ PublishUpdate => IInv'
<1> SUFFICES ASSUME IInv, PublishUpdate PROVE IInv'
  OBVIOUS
<1>1. /\ tick = "update"
      /\ UNCHANGED <<env, mutex, updated, handling, before, status>>
  BY DEF PublishUpdate
<1>2. updated \in SUBSET Tagged
  <2>1. updated = Execute(before).updated /\ before \in Env
    BY <1>1 DEF IInv, Snapshot, TypeOK
  <2>2. Good(before, Execute(before))
    BY <2>1, ExecuteGood
  <2> QED
    BY <2>1, <2>2 DEF Good, Assigned
<1>3. /\ status = IF "status" \in failed THEN NoPoints ELSE PointsOf(Assigned)
      /\ update = NoPoints /\ "update" \notin failed
  BY <1>1 DEF IInv, Published
<1>4. PointsOf(Assigned)' = PointsOf(Assigned) /\ PointsOf(updated)' = PointsOf(updated)
  BY <1>1 DEF PointsOf, Assigned
<1>5. CASE updated = {} /\ tick' = "unlock" /\ UNCHANGED <<inbox, update, failed>>
  <2>1. TypeOK'
    BY <1>1, <1>5 DEF IInv, TypeOK, TickState
  <2>2. Snapshot'
    BY <1>1, <1>5 DEF IInv, Snapshot
  <2>3. PointsOf(updated) = NoPoints
    BY <1>5 DEF PointsOf, NoPoints
  <2>4. Published'
    BY <1>1, <1>3, <1>4, <1>5, <2>3 DEF Published
  <2> QED
    BY <2>1, <2>2, <2>4 DEF IInv
<1>6. CASE /\ updated # {} /\ Encodable(PointsOf(updated))
           /\ update' = PointsOf(updated)
           /\ Echo("update", PointsOf(updated))
           /\ tick' = "unlock"
           /\ UNCHANGED failed
  <2>1. PointsOf(updated) \in [updated -> Num]
    BY <1>2, <1>6, PointsType DEF IInv
  <2>2. inbox' \in Seq(Message)
    BY <1>2, <1>6, <2>1, EchoType DEF IInv
  <2>3. TypeOK'
    BY <1>1, <1>2, <1>6, <2>1, <2>2 DEF IInv, TypeOK, TickState
  <2>4. Snapshot'
    BY <1>1, <1>6 DEF IInv, Snapshot
  <2>5. Published'
    BY <1>1, <1>3, <1>4, <1>6 DEF Published
  <2> QED
    BY <2>3, <2>4, <2>5 DEF IInv
<1>7. CASE tick' = "idle" /\ UNCHANGED <<inbox, update, failed>>
  <2>1. TypeOK'
    BY <1>1, <1>7 DEF IInv, TypeOK, TickState
  <2>2. Snapshot' /\ Published'
    BY <1>7 DEF Snapshot, Published
  <2> QED
    BY <2>1, <2>2 DEF IInv
<1>8. CASE failed' = failed \cup {"update"} /\ tick' = "unlock" /\ UNCHANGED <<inbox, update>>
  <2>1. TypeOK'
    BY <1>1, <1>8 DEF IInv, TypeOK, TickState
  <2>2. Snapshot'
    BY <1>1, <1>8 DEF IInv, Snapshot
  <2>3. "status" \in failed' <=> "status" \in failed
    BY <1>8
  <2>4. Published'
    BY <1>1, <1>3, <1>4, <1>8, <2>3 DEF Published
  <2> QED
    BY <2>1, <2>2, <2>4 DEF IInv
<1> QED
  BY <1>5, <1>6, <1>7, <1>8 DEF PublishUpdate

\* The end of a tick, and steps of the subscriber that leave the environment alone.
LEMMA QuietIInv == IInv /\ (Unlock \/ Arrive \/ Receive \/ HandlerLock) => IInv'
<1> SUFFICES ASSUME IInv, Unlock \/ Arrive \/ Receive \/ HandlerLock PROVE IInv'
  OBVIOUS
<1>1. CASE Unlock
  <2>1. TypeOK'
    BY <1>1 DEF IInv, Unlock, TypeOK, TickState
  <2>2. Snapshot' /\ Published'
    BY <1>1 DEF Unlock, Snapshot, Published
  <2> QED
    BY <2>1, <2>2 DEF IInv
<1>2. CASE Arrive \/ Receive
  <2>1. UNCHANGED <<env, mutex, tick, updated, before, status, update, failed>>
    BY <1>2 DEF Arrive, Receive
  <2>2. inbox' \in Seq(Message) /\ handling' \in Message \cup {NoMessage}
    <3>1. CASE Arrive
      BY <3>1 DEF Arrive, IInv, TypeOK
    <3>2. CASE Receive
      <4>1. Head(inbox) \in Message /\ Tail(inbox) \in Seq(Message)
        BY <3>2 DEF Receive, IInv, TypeOK
      <4> QED
        BY <3>2, <4>1 DEF Receive
    <3> QED
      BY <1>2, <3>1, <3>2
  <2>3. TypeOK'
    BY <2>1, <2>2 DEF IInv, TypeOK
  <2>4. Snapshot'
    BY <2>1 DEF IInv, Snapshot
  <2>5. Published'
    BY <2>1 DEF IInv, Published, PointsOf
  <2> QED
    BY <2>3, <2>4, <2>5 DEF IInv
<1>3. CASE HandlerLock
  <2>1. /\ mutex = "free" /\ mutex' = "handler"
        /\ UNCHANGED <<env, tick, updated, inbox, handling, before, status, update, failed>>
    BY <1>3 DEF HandlerLock
  <2>2. tick = "idle"
    BY <2>1 DEF IInv, Snapshot
  <2>3. TypeOK'
    BY <2>1 DEF IInv, TypeOK
  <2>4. Snapshot' /\ Published'
    BY <2>1, <2>2 DEF Snapshot, Published
  <2> QED
    BY <2>3, <2>4 DEF IInv
<1> QED
  BY <1>1, <1>2, <1>3

\* A handler writes the environment under the lock, hence between two ticks.
LEMMA ApplyIInv == IInv /\ Apply => IInv'
<1> SUFFICES ASSUME IInv, Apply PROVE IInv'
  OBVIOUS
<1>1. /\ handling # NoMessage /\ mutex = "handler" /\ mutex' = "free"
      /\ env' = [env EXCEPT ![handling.tag] = [type |-> "float", val |-> handling.val]]
      /\ handling' = NoMessage
      /\ UNCHANGED <<tick, updated, inbox, before, status, update, failed>>
  BY DEF Apply
<1>2. tick = "idle"
  <2>1. tick # "idle" => mutex = "ticker"
    BY DEF IInv, Snapshot
  <2> QED
    BY <1>1, <2>1
<1>3. handling \in Message
  BY <1>1 DEF IInv, TypeOK
<1>4. [type |-> "float", val |-> handling.val] \in Value /\ handling.tag \in Var
  BY <1>3, LogicAssumption DEF Message, Value
<1>5. env' \in Env
  BY <1>1, <1>4 DEF IInv, TypeOK, Env
<1>6. TypeOK'
  BY <1>1, <1>5 DEF IInv, TypeOK
<1>7. Snapshot' /\ Published'
  BY <1>1, <1>2 DEF Snapshot, Published
<1> QED
  BY <1>6, <1>7 DEF IInv

\* The invariant holds in every reachable state.
THEOREM LogicInvariant == Spec => []IInv
<1>1. IInv /\ [Next]_vars => IInv'
  <2> SUFFICES ASSUME IInv, [Next]_vars PROVE IInv'
    OBVIOUS
  <2>1. CASE UNCHANGED vars
    <3>1. TypeOK'
      BY <2>1 DEF vars, IInv, TypeOK
    <3>2. Snapshot'
      BY <2>1 DEF vars, IInv, Snapshot
    <3>3. Published'
      BY <2>1 DEF vars, IInv, Published, PointsOf
    <3> QED
      BY <3>1, <3>2, <3>3 DEF IInv
  <2> QED
    BY <2>1, LockIInv, RunIInv, PublishStatusIInv, PublishUpdateIInv, QuietIInv, ApplyIInv
       DEF Next, Ticker, Handler
<1> QED
  BY <1>1, InitIInv, PTL DEF Spec

\* Whatever messages arrive and whatever the program computes, a tick works on one snapshot
\* of the environment, and every variable keeps its type (logic.go:199-297).
THEOREM LogicCorrect == Spec => []LogicInv
<1>1. IInv => LogicInv
  BY DEF IInv, LogicInv
<1> QED
  BY <1>1, LogicInvariant, PTL

\* Whatever the program, a tick that comes to its end has announced every tagged variable
\* it changed, with its final value, and shown it in its Status: each unless the Push of that
\* very message failed (logic.go:233-295).
THEOREM NoLostChangeCorrect == Spec => []NoLostChange
<1>1. IInv => NoLostChange
  <2> SUFFICES ASSUME IInv, tick = "unlock", NEW v \in Assigned
               PROVE  /\ env[v].val # before[v].val /\ "update" \notin failed => v \in DOMAIN update
                      /\ "status" \notin failed => v \in DOMAIN status /\ status[v] = env[v].val
                      /\ v \in DOMAIN update => update[v] = env[v].val
    BY DEF NoLostChange
  <2>1. /\ env = Execute(before).env /\ updated = Execute(before).updated
        /\ before \in Env
    BY DEF IInv, Snapshot, TypeOK
  <2>2. Good(before, Execute(before))
    BY <2>1, ExecuteGood
  <2>3. \A w \in Tagged : env[w] # before[w] => w \in updated
    BY <2>1, <2>2 DEF Good
  <2>4. /\ update = IF "update" \in failed THEN NoPoints ELSE [w \in updated |-> env[w].val]
        /\ status = IF "status" \in failed THEN NoPoints ELSE [w \in Assigned |-> env[w].val]
    BY DEF IInv, Published, PointsOf
  <2>5. v \in Tagged /\ DOMAIN NoPoints = {}
    BY DEF Assigned, NoPoints
  <2> QED
    BY <2>3, <2>4, <2>5
<1> QED
  BY <1>1, LogicInvariant, PTL
=============================================================================

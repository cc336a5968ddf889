------------------------------ MODULE MCLogic ------------------------------
(***************************************************************************)
(* Two programs for Logic.  Sensor readings a and b are written by the     *)
(* bus, the others by the program.                                         *)
(***************************************************************************)
EXTENDS Logic

Float(n) == [type |-> "float", val |-> n]
Bool(b) == [type |-> "bool", val |-> IF b THEN 1 ELSE 0]
Truth(v) == v.val # 0

Vars == {"a", "stop", "tmp", "out"}
TaggedVars == {"a", "stop", "out"}

\* In the manner of config/wind-turbine/main-controller.xml:
\*   tmp  = a != 0          a boolean without a tag
\*   stop = tmp             a tagged boolean
\*   out  = fails if tmp is a float, as `!' does; else tmp ? 1 : out
\*   out  = stop ? out : 0  assigns out again
Turbine == <<
    [var |-> "tmp", fn |-> [e \in Env |-> Bool(Truth(e["a"]))]],
    [var |-> "stop", fn |-> [e \in Env |-> e["tmp"]]],
    [var |-> "out", fn |-> [e \in Env |-> IF e["stop"].type = "float" THEN Failed
                                          ELSE IF Truth(e["stop"]) THEN Float(1) ELSE e["out"]]],
    [var |-> "out", fn |-> [e \in Env |-> IF Truth(e["stop"]) THEN e["out"] ELSE Float(0)]] >>

\* In the manner of TestMathLogic (logic_test.go): out = avg of the readings that
\* are not zero, which is 0/0 when there is none (logic.go:390).
Average == <<
    [var |-> "out", fn |-> [e \in Env |-> IF Truth(e["a"]) THEN e["a"] ELSE Float(NaN)]] >>

AllZero == [v \in Vars |-> Float(0)]
AllOne == [v \in Vars |-> Float(1)]
Nums == {0, 1}
=============================================================================

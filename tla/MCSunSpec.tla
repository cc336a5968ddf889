----------------------------- MODULE MCSunSpec -----------------------------
(* Eight models and a list for every way to accept or refuse one.  The     *)
(* address a write of DA goes to is that of Tot behind model 1 and 103,    *)
(* and of nothing behind model 1 and 123; Mode goes to the text Nm.  DA    *)
(* is a point of model 1 and of model 704; model 705 has texts only.       *)
EXTENDS SunSpecClient

Pt(name, dt, size, rw, sf, num) ==
    [name |-> name, dt |-> dt, size |-> size, rw |-> rw, sf |-> sf, num |-> num]
Head2 == <<Pt("ID", "uint16", 1, FALSE, "", 0), Pt("L", "uint16", 1, FALSE, "", 0)>>

MCSchema ==
    (1 :> Head2 \o <<Pt("Mn", "string8", 8, FALSE, "", 0), Pt("DA", "uint16", 1, TRUE, "", 0),
                     Pt("Pad", "pad", 1, FALSE, "", 0)>>) @@
    (103 :> Head2 \o <<Pt("Lim", "uint16", 1, TRUE, "W_SF", 0), Pt("W", "int16", 1, FALSE, "W_SF", 0),
                       Pt("W_SF", "sunssf", 1, FALSE, "", 0), Pt("St", "enum16", 1, FALSE, "", 0),
                       Pt("Tot", "acc32", 2, FALSE, "", 0)>>) @@
    (123 :> Head2 \o <<Pt("Ena", "enum16", 1, FALSE, "", 0), Pt("Mode", "uint16", 1, TRUE, "", 0),
                       Pt("Nm", "string8", 8, TRUE, "", 0)>>) @@
    (701 :> Head2 \o <<Pt("V", "uint16", 1, FALSE, "number", -1)>>) @@
    (702 :> Head2 \o <<Pt("Ip", "ipaddr", 2, FALSE, "", 0)>>) @@
    (703 :> Head2 \o <<Pt("A", "uint16", 1, FALSE, "A_SF", 0)>>) @@
    (704 :> Head2 \o <<Pt("DA", "uint16", 1, FALSE, "", 0)>>) @@
    (705 :> Head2 \o <<Pt("Sn", "string8", 8, FALSE, "", 0)>>)

El(name, tag, val) == [name |-> name, tag |-> tag, val |-> val]
M(id, children) == [id |-> id, children |-> children]

Common == M(1, <<El("Mn", "number", 0), El("DA", "number", 10)>>)
Meter == M(103, <<El("W", "watts", 0), El("Tot", "number", 20), El("W_SF", "number", -10)>>)
Control == M(123, <<El("Ena", "ena", 0)>>)

Wordless == <<Common, M(704, <<El("DA", "", 0)>>)>>

MCConfigs == {<<Common, Meter>>, <<Common, Meter, Control>>, <<Common, Control, Control>>,
              <<Meter, Common>>, <<Meter>>, <<Common, M(701, <<>>)>>, <<Common, M(702, <<>>)>>,
              <<Common, M(703, <<>>)>>, <<Common, M(704, <<El("DA", "number", 30)>>), M(705, <<>>)>>,
              <<Common, M(104, <<>>)>>, <<Common, M(123, <<El("W", "watts", 0)>>)>>, Wordless}

MCLevel == [t \in {"watts", "ena"} |-> IF t = "watts" THEN {-15} ELSE {10}]

MCUpdate == {<<"DA", 20>>, <<"Lim", 15>>, <<"Mode", 10>>, <<"Nm", 10>>}

\* The instance satisfies the hypotheses of the theorems, but for one configuration.
ASSUME Instance == (\A c \in Configs \ {Wordless} : PlainConfig(c)) /\ Fitting
=============================================================================

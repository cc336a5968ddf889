-------------------------- MODULE MCModbusServer --------------------------
(***************************************************************************)
(* An outstation with words of one bit: two coils with a gap behind them,  *)
(* a holding register of one word, one of two words that is scaled, and an *)
(* input register that shows the tag of the latter.                        *)
(***************************************************************************)
EXTENDS ModbusServer, TLC

Tags == {"breaker", "mode", "level"}

Bit(t) == [tag |-> t, dt |-> "bit", factor |-> 1]
Map == [coil |-> (0 :> Bit("breaker")) @@ (1 :> Bit("mode")),
        discrete |-> (0 :> Bit("breaker")),
        input |-> (0 :> [tag |-> "level", dt |-> "uint32", factor |-> 10]),
        holding |-> (0 :> [tag |-> "mode", dt |-> "uint16", factor |-> 1])
                    @@ (1 :> [tag |-> "level", dt |-> "int32", factor |-> 10])]

Read(fn, a, n) == [fn |-> fn, addr |-> a, count |-> n, data |-> <<>>]
Write(fn, a, ws) == [fn |-> fn, addr |-> a, count |-> Len(ws), data |-> ws]

\* Reads; single writes; writes of two coils and of all holding registers; a write that
\* starts in the middle of a register.
Whole == {Read(1, 0, 2), Read(2, 0, 1), Read(3, 0, 3), Read(3, 1, 2), Read(4, 0, 2),
          Write(5, 1, <<1>>), Write(6, 0, <<1>>), Write(6, 1, <<1>>),
          Write(15, 0, <<1, 1>>), Write(15, 0, <<0, 1>>),
          Write(16, 0, <<1, 1, 0>>), Write(16, 1, <<0, 1>>), Write(16, 2, <<1>>)}

\* A write and a read that run into the gap.
Gapped == Whole \cup {Write(15, 1, <<1, 1>>), Read(1, 1, 2)}

-----------------------------------------------------------------------------
(* The conversions on every input of a bounded size: words of three bits,   *)
(* so that every integer type is small and its limits are met.  An input is *)
(* an initial state of its own, ahead of the server's.                      *)

CONSTANTS Factors, MaxValue, MaxBits

VARIABLE probe

Fine == 200
C == INSTANCE Register WITH Radix <- 8, Unit <- Fine

AnyRegister == [dt: {"int16", "uint16", "int32", "uint32"}, factor: Factors]

MCInit ==
    /\ Init
    /\ \/ \E r \in AnyRegister :
             \/ \E ws \in [1..Count(r.dt) -> C!Word] : probe = [kind |-> "words", reg |-> r, ws |-> ws]
             \/ \E v \in -MaxValue..MaxValue : probe = [kind |-> "value", reg |-> r, v |-> v]
       \/ \E n \in 0..MaxBits : \E b \in [1..n -> {0, 1}] : probe = [kind |-> "bits", bits |-> b]
       \/ probe = [kind |-> "none"]

MCNext ==
    \/ probe.kind # "none" /\ probe' = [kind |-> "none"] /\ UNCHANGED vars
    \/ probe.kind = "none" /\ Next /\ UNCHANGED probe

MCSpec == MCInit /\ [][MCNext]_<<vars, probe>>

Distance(a, b) == IF a > b THEN a - b ELSE b - a

\* register.go:73-205: a register that is read and written back through the float of its
\* tag comes back unchanged without a scaling, and with one it is at most one step
\* closer to zero; it never changes its sign.
WordsSurvive ==
    probe.kind = "words" =>
        LET r == probe.reg
            n == C!Integer(r.dt, probe.ws)
        IN \A v \in C!Value(r, probe.ws) : \A ws \in C!Bytes(r, v) :
              LET m == C!Integer(r.dt, ws) IN
              /\ Distance(m, n) <= IF r.factor = 1 THEN 0 ELSE 1
              /\ (n >= 0 => m \in 0..n) /\ (n <= 0 => m \in n..0)

\* Without a scaling, a value the register can hold loses less than one step, towards zero.
\* With one it loses at most a step, and what the two products are rounded by may push it
\* beyond itself (0.3 is shown as 0.30000000000000004): by one unit of rounding, never by
\* a step, and never across zero (register.go:91-104, 131-182).
ValueTruncated ==
    probe.kind = "value" =>
        LET r == probe.reg
            step == Fine \div r.factor
            off == IF r.factor = 1 THEN 0 ELSE 1
            v == probe.v
        IN C!Raw(r, v) \subseteq C!Lowest(r.dt)..C!Highest(r.dt) =>
              \A ws \in C!Bytes(r, v) : \A w \in C!Value(r, ws) :
                  /\ Distance(w, v) < step + 2 * off
                  /\ v >= 0 => w \in 0..(v + off)
                  /\ v <= 0 => w \in (v - off)..0

\* bytes.go:7-55: packing coils into bytes and unpacking them gives the coils back,
\* followed by the zeros that fill the last byte.
BitsSurvive ==
    probe.kind = "bits" =>
        LET back == BytesToBits(BitsToBytes(probe.bits)) IN
        /\ Len(back) - Len(probe.bits) \in 0..(ByteBits - 1)
        /\ \A n \in 1..Len(back) : back[n] = IF n <= Len(probe.bits) THEN probe.bits[n] ELSE 0

\* All conversions between tags and the wire (register.go, bytes.go) survive a round trip.
RoundTrip == WordsSurvive /\ ValueTruncated /\ BitsSurvive
=============================================================================

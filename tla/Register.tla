------------------------------ MODULE Register ------------------------------
(***************************************************************************)
(* The conversions of go/modbus/util: register.go between the value of a   *)
(* tag and the 16-bit words of an integer register, bytes.go between bits  *)
(* and bytes.  Registers of type float and double are left out.            *)
(*                                                                         *)
(* A tag holds a float64.  Here it is an integer, in units of 1/Unit, and  *)
(* a product that the code rounds to a float64 may be one unit off.  A     *)
(* float64 has 53 bits of precision, so this stands for the code only for  *)
(* registers that are Exact, the numbers of one or two words: what the     *)
(* rounding adds is then far below one step of the register.               *)
(***************************************************************************)
EXTENDS Integers, Sequences

CONSTANTS
    Radix,     \* 2^16, the number of values of a word
    ByteBits,  \* 8
    Unit       \* a multiple of all scaling factors in use

ASSUME RegisterAssumption ==
    /\ Radix \in Nat \ {0} /\ Radix % 2 = 0
    /\ ByteBits \in Nat \ {0}
    /\ Unit \in Nat \ {0}

Signed(dt) == dt \in {"int16", "int32", "int64"}

\* Register.Init: words per data type; a coil or discrete input has no data type
\* and takes one address.
Count(dt) == CASE dt \in {"int32", "uint32"} -> 2
               [] dt \in {"int64", "uint64"} -> 4
               [] OTHER -> 1

\* A float64 holds every number of the data type.
Exact(dt) == Count(dt) <= 2

\* What a digit with n words behind it counts.
Weight(n) == CASE n = 0 -> 1
               [] n = 1 -> Radix
               [] n = 2 -> Radix * Radix
               [] n = 3 -> Radix * Radix * Radix
               [] n = 4 -> Radix * Radix * Radix * Radix

\* The numbers of the integer type.
Span(dt) == Weight(Count(dt))
Lowest(dt) == IF Signed(dt) THEN -(Span(dt) \div 2) ELSE 0
Highest(dt) == IF Signed(dt) THEN Span(dt) \div 2 - 1 ELSE Span(dt) - 1
Word == 0..(Radix - 1)

\* Go's conversion of a float to an integer drops the fraction.
Trunc(n, d) == IF n >= 0 THEN n \div d ELSE -((-n) \div d)

\* What a product x with a power of ten other than one may be as a float64: 0.29 * 100 comes
\* out below 29, 3 * 0.1 above 0.3.  Zero stays zero.
Rounded(x, factor) == IF factor = 1 \/ x = 0 THEN {x} ELSE {x - 1, x, x + 1}

\* The integer that value * math.Pow(10, scaling) is converted to; reg.factor is that
\* power of ten.
Raw(reg, v) == {Trunc(p, Unit) : p \in Rounded(v * reg.factor, reg.factor)}

\* Big-endian words of an integer in two's complement.
Words(dt, n) ==
    [i \in 1..Count(dt) |-> ((n % Span(dt)) \div Weight(Count(dt) - i)) % Radix]

\* Register.Bytes for a number; what the conversion makes of a float that the integer
\* type cannot hold is up to the implementation of Go.
Bytes(reg, v) ==
    UNION {IF n \in Lowest(reg.dt)..Highest(reg.dt) THEN {Words(reg.dt, n)}
           ELSE [1..Count(reg.dt) -> Word] : n \in Raw(reg, v)}

\* The number that big-endian words form.
Unsigned(dt, ws) ==
    CASE Count(dt) = 1 -> ws[1]
      [] Count(dt) = 2 -> ws[1] * Weight(1) + ws[2]
      [] Count(dt) = 4 -> ws[1] * Weight(3) + ws[2] * Weight(2) + ws[3] * Weight(1) + ws[4]

\* Mutant: the sign bit is not looked at.
IntegerUnsigned(dt, ws) == Unsigned(dt, ws)

\* binary.Read of the register's integer type.
Integer(dt, ws) ==
    LET n == Unsigned(dt, ws)
    IN IF Signed(dt) /\ n > Highest(dt) THEN n - Span(dt) ELSE n

\* Register.Value for a number: what float64(val) * math.Pow(10, -scaling) may be.
Value(reg, ws) == Rounded((Integer(reg.dt, ws) * Unit) \div reg.factor, reg.factor)

-----------------------------------------------------------------------------
\* Bits beyond the last one are zero.
BitAt(bits, n) == IF n <= Len(bits) THEN bits[n] ELSE 0

\* The i-th byte: its last bit counts most.
Byte(bits, i) ==
    LET last[k \in 0..ByteBits] == IF k = 0 THEN 0 ELSE 2 * last[k - 1] + BitAt(bits, i * ByteBits - k + 1)
    IN last[ByteBits]

\* BitsToBytes: the first bit of a byte is the least significant one, the last byte is
\* filled up with zeros.
BitsToBytes(bits) == [i \in 1..((Len(bits) + ByteBits - 1) \div ByteBits) |-> Byte(bits, i)]

\* A byte without its j least significant bits.
Shift(d, j) ==
    LET shifted[k \in 0..j] == IF k = 0 THEN d ELSE shifted[k - 1] \div 2
    IN shifted[j]

\* BytesToBits: all bits of all bytes, least significant first.
BytesToBits(data) ==
    [n \in 1..(Len(data) * ByteBits) |->
        Shift(data[(n - 1) \div ByteBits + 1], (n - 1) % ByteBits) % 2]
=============================================================================

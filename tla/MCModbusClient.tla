--------------------------- MODULE MCModbusClient ---------------------------
(***************************************************************************)
(* A breaker, a set point of whole units, and a meter whose address the     *)
(* outstation does not have.  Values are in tenths.                        *)
(***************************************************************************)
EXTENDS ModbusClient

\* The breaker is configured twice; the first element has no effect.
Registers == << [tag |-> "breaker", type |-> "discrete", dt |-> "", factor |-> 1],
                [tag |-> "setpoint", type |-> "holding", dt |-> "uint32", factor |-> 1],
                [tag |-> "breaker", type |-> "coil", dt |-> "", factor |-> 1],
                [tag |-> "meter", type |-> "input", dt |-> "uint16", factor |-> 1] >>

Points == {"breaker", "setpoint", "meter"} \X {0, 5, 25} \cup {<<"other", 0>>}

\* One half closes a breaker; an Update may name a tag twice, or one nobody here has.
Commands == {<< <<"breaker", 5>> >>,
             << <<"setpoint", 5>>, <<"other", 0>>, <<"meter", 5>>, <<"breaker", 0>>, <<"setpoint", 25>> >>}
=============================================================================

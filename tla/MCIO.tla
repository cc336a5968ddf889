-------------------------------- MODULE MCIO --------------------------------
(***************************************************************************)
(* A device with a breaker (boolean) and a set point (double), published,  *)
(* routed to two endpoints or both, and a measurement with the tag of a    *)
(* command.                                                                *)
(***************************************************************************)
EXTENDS Naturals, TLC, IO

Tags == ("feeder.closed" :> "breaker") @@ ("feeder.setpoint" :> "setpoint")
        @@ ("bus.live" :> "breaker")

Routes == {<<"setpoint", "ems">>, <<"setpoint", "market">>}
=============================================================================

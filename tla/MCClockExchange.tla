--------------------------- MODULE MCClockExchange ---------------------------
(* Small instances of ClockExchange. *)
EXTENDS ClockExchange

TwoDevices   == 1..2
ThreeDevices == 1..3

OneEntity == {"task"}
=============================================================================

------------------------------ MODULE MCFactory ------------------------------
(* The valve instance of MCValve with attack.py aimed at its "open"        *)
(* property, writing vA ("ABCD" in ATTACK_CONFIG), a value no one signs.   *)
EXTENDS Factory, MCValve

CONSTANT vA

FactoryValues == MCValues \cup {vA}

=============================================================================

------------------------------ MODULE MCExchange ------------------------------
(***************************************************************************)
(* Constants for model-checking Exchange: a buy order of three units and a *)
(* half, sell orders of two units and of one, at two prices, and a sell    *)
(* order of less than a unit.  One asks half a cent more than the buy      *)
(* order bids.                                                             *)
(***************************************************************************)
EXTENDS Exchange

CONSTANTS b, s, t, u

IdsInMC == {b, s, t, u}
PriceInMC == [o \in IdsInMC |-> IF o = b THEN 4 ELSE IF o = s THEN 5 ELSE 2]
AmountInMC == [o \in IdsInMC |-> IF o = b THEN 7 ELSE IF o = s THEN 4 ELSE IF o = t THEN 2 ELSE 1]
=============================================================================

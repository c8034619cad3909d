------------------------------ MODULE MCStrangers ------------------------------
(***************************************************************************)
(* An account that others act on: one foreign order, and a broker that may    *)
(* square legs off.                                                            *)
(***************************************************************************)
EXTENDS Strangers

Calm == {}
RiskDesk == {"squareoff"}
NoPrices == {}
================================================================================

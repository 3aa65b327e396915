------------------------------ MODULE MCFormulas ------------------------------
(* The walks of PriceWalk and OrderFlow for TLC, in one run.  They share no *)
(* state, so one rests at a fixed start while the other runs: the states    *)
(* are the union of theirs, not the product.                               *)
EXTENDS Widths, OrderFlow

RestingPosition == CHOOSE p \in Position : TRUE
RestingMarket == CHOOSE m \in Market : TRUE

WalkAtRest ==
    /\ position = RestingPosition
    /\ observed = position.openPrice

FlowAtRest ==
    /\ market = RestingMarket
    /\ oi = market.startOi /\ paid = 0 /\ orders = 0

FormulasInit == \/ WalkInit /\ FlowAtRest
                \/ FlowInit /\ WalkAtRest

FormulasNext == \/ Tick /\ FlowAtRest /\ UNCHANGED flowVars
                \/ FlowStep /\ WalkAtRest /\ UNCHANGED walkVars

FormulasSpec == FormulasInit /\ [][FormulasNext]_<<walkVars, flowVars>>
=============================================================================

----------------------------- MODULE MCExposure -----------------------------
(***************************************************************************)
(* Exposure on a small instance: live trading with the demo lock.          *)
(***************************************************************************)
EXTENDS Exposure

LiveSettings ==
    {[autoTrade |-> TRUE, dryRun |-> FALSE, approvalRequired |-> FALSE, demoAuto |-> TRUE]}

\* Bound: the demo lock and the kill switch are the business of TradingCycle.
Undisturbed == accountDemo /\ switches = 0
=============================================================================

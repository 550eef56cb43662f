--------------------------- MODULE MCTradingCycle ---------------------------
(***************************************************************************)
(* TradingCycle on small instances: the settings an operator starts with.  *)
(***************************************************************************)
EXTENDS TradingCycle

Env(auto, dry, approval, demo) ==
    [autoTrade |-> auto, dryRun |-> dry, approvalRequired |-> approval, demoAuto |-> demo]

\* Live trading with the demo lock, and one setting changed at a time.
MCSettings ==
    {Env(TRUE, FALSE, FALSE, TRUE), Env(FALSE, FALSE, FALSE, TRUE),
     Env(TRUE, TRUE, FALSE, TRUE), Env(TRUE, FALSE, TRUE, TRUE),
     Env(TRUE, FALSE, FALSE, FALSE)}

\* Live trading with the demo lock only.
LiveSettings == {Env(TRUE, FALSE, FALSE, TRUE)}
=============================================================================

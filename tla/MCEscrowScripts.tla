-------------------------- MODULE MCEscrowScripts --------------------------
(* Small instances of EscrowScripts. *)
EXTENDS EscrowScripts

Of(script, scenarios, assets, worlds) ==
    [script : {script}, scenario : scenarios, asset : assets, world : worlds,
     runs : {IF script = "v2-test" THEN 1 ELSE IF script = "auto-test" THEN 3 ELSE 2}]

\* Every scenario in a sound world, and every defect in one scenario per script.
MCCases ==
    UNION {
      Of("auto-main", {"approve-appeal-resolve-reject",
                       "reject-appeal-resolve-approve"}, {"stx"}, {"sound"}),
      Of("auto-main", {"approve-appeal-resolve-reject"}, {"sbtc"}, Worlds),
      Of("auto-test", AutoTestDelayed \cup {"approve-appeal-resolve-reject"},
         {"stx"}, {"sound"}),
      Of("auto-test", {"reject-no-appeal"}, {"sbtc"}, Worlds),
      Of("v3-main", {"complete"}, {"sbtc"}, Worlds),
      Of("v4-test", {"complete", "prepare-timeout"}, {"stx"}, {"sound", "caller"}),
      Of("v2-test", {"complete"}, {"stx"}, {"sound"}) }

SuiteCases == Of("auto-test", AutoTestDelayed, {"stx"}, {"sound", "caller"})
=============================================================================

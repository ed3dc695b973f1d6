----------------------------- MODULE ServiceFee -----------------------------
(***************************************************************************)
(* The fee arithmetic of agentic-commerce-v6 and sbtc-commerce-v5: one     *)
(* fiftieth of the gross, floored, in uints.                               *)
(***************************************************************************)
EXTENDS Integers

SERVICE_FEE_BPS == 200
SERVICE_FEE_DIVISOR == 50

Fee(gross) == gross \div SERVICE_FEE_DIVISOR
Net(gross) == gross - Fee(gross)

\* The quote of get-service-fee-for-amount is the published policy: dividing by
\* fifty is the floor of 200 basis points of the gross for every amount, the
\* two legs add up to the gross, a paid job leaves its recipient something, and
\* the fee vanishes exactly below fifty units.
IsTwoPercent(gross) ==
    /\ Fee(gross) = (gross * SERVICE_FEE_BPS) \div 10000
    /\ Net(gross) + Fee(gross) = gross
    /\ gross > 0 => Net(gross) > 0
    /\ Fee(gross) > 0 <=> gross >= SERVICE_FEE_DIVISOR

=============================================================================

------------------------- MODULE MCCreditLedger -------------------------
\* Small instances of CreditLedger: two refunds of one order, so two messages
\* that each work through both.
EXTENDS CreditLedger

MCBothPaths == {"legacy", "adapter"}
MCLegacy    == {"legacy"}
=============================================================================

---- MODULE MCInvestigationRun ----
EXTENDS InvestigationRun
====

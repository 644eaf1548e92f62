---- MODULE MCInvestigationIngest ----
EXTENDS InvestigationIngest, TLC
Perms == Permutations(Requests)
====

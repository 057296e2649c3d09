------------------------------ MODULE MCEventBus ------------------------------
\* A small instance of EventBus.
EXTENDS EventBus

CONSTANTS e1, e2, e3

\* The subscriber refuses e2, by severity and by category.
MCSeverity == [e \in Items |-> IF e = e2 THEN 0 ELSE 1]
MCCategory == [e \in Items |-> IF e = e2 THEN "status" ELSE "alarm"]
MCFilters == {[minSeverity |-> 1, category |-> "alarm"]}

\* Every event is published once; their names are interchangeable but for e2.
MCAgenda == <<e1, e2, e3>>
=============================================================================

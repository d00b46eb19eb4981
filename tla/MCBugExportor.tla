--------------------------- MODULE MCBugExportor ---------------------------
EXTENDS BugExportor, TLC
CONSTANTS c1, d1, t1, t2

\* One component, without subcomponents, owned by one team or by two.
Info == [components |-> {c1}, subcomponents |-> [c \in {} |-> {}]]
MCOrgs == { [t \in T |-> Info] : T \in {{t1}, {t1, t2}} }

MCInitialBugs ==
    { [b \in ID |-> [component |-> c1, subcomponent |-> NoSubcomponent, detail |-> d1]] }
=============================================================================

-------------------------- MODULE MCConformanceRun --------------------------
(* A plan of two modules, for hooks that overlap.  The first one may be     *)
(* expected to skip: by its name, by its label, or, where the runner prints *)
(* no variant, by both; without its hook also in a run without audits.      *)
EXTENDS ConformanceRun

CONSTANTS m1, m2

TwoModules == <<m1, m2>>
Given(labels, names, audit) == [labels |-> labels, names |-> names, audit |-> audit]
EachDeclaration ==
    {Given({}, {m1}, TRUE), Given({m1}, {m1}, TRUE), Given({m1}, {m1}, FALSE), Given({m1}, {}, FALSE)}
=============================================================================

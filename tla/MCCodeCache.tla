---------------------------- MODULE MCCodeCache ----------------------------
(* Instances of CodeCache for TLC.                                         *)
EXTENDS CodeCache

CONSTANTS t1, t2, m1, m2

(* The agent was loaded with the JVM: nothing was compiled before.         *)
MCNoCode == {}

(* The agent was attached to a JVM that had already compiled m1.           *)
MCOldCode == {[m |-> m1, s |-> 0, e |-> 0]}

MCThreads == {t1, t2}
MCMethods == {m1, m2}

=============================================================================

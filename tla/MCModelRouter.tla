---------------------------- MODULE MCModelRouter ----------------------------
(* Instances of ModelRouter for TLC.                                        *)
EXTENDS ModelRouter, TLC

CONSTANTS m1, m2, t1, t2

MCModels == {m1, m2}
MCThreads == {t1, t2}
\* both models are asked for, the first may be unloaded by a request
MCRequests == (t1 :> {<<"proxy", m1>>, <<"unload", m1>>}) @@ (t2 :> {<<"load", m2>>, <<"proxy_loaded", m2>>})
MCCrashing == {m1}
MCSleeping == {m2}
==============================================================================

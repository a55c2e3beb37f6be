---------------------------- MODULE MCDataEngine ----------------------------
EXTENDS DataEngineLog

CONSTANTS main, staging, w1, w2, t1

\* Both writers feed one topic of the staging engine.
EngineOfBoth == (w1 :> staging) @@ (w2 :> staging)
KeyOne == (t1 :> "a")

BatchesUp == {<<1, 2, 2>>, <<0, 1>>}
=============================================================================

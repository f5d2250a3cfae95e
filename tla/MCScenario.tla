----------------------------- MODULE MCScenario -----------------------------
EXTENDS ScenarioExecution, TLC

CONSTANTS r1, i1, i2

MCOneRun == (r1 :> i1)
\* ghcrTarget drops the registry and the path of an image.
SharedTag == (i1 :> "log4shell:latest" @@ i2 :> "log4shell:latest")
=============================================================================

--------------------------- MODULE MCSuiteCompose ---------------------------
EXTENDS SuiteCompose

AllSuites == [Flags -> BOOLEAN]
=============================================================================

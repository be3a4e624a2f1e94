------------------------ MODULE MCEditDuringCompile ------------------------
EXTENDS EditDuringCompile
=============================================================================

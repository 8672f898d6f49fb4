------------------------ MODULE MCDocumentWorkspace ------------------------
EXTENDS DocumentWorkspace

\* Claude fails or says nothing, or finds the conditional item unnecessary.
MCLlmAnswers == {<<>>, [i \in {"bid_bond"} |-> FALSE]}
=============================================================================

--------------------------- MODULE MCPassiveClose ---------------------------
EXTENDS PassiveCloseLifecycle
MCPlans == {<<2>>, <<1, 1>>}
=============================================================================

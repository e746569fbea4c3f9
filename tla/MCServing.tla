----------------------------- MODULE MCServing -----------------------------
EXTENDS Serving
MCBatches == {<<"rewrote">>, <<"not-a-url", "rewrote">>}
=============================================================================

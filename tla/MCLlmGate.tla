----------------------------- MODULE MCLlmGate ------------------------------
EXTENDS LlmGate

=============================================================================

------------------------------ MODULE MCPrompt ------------------------------
EXTENDS Prompt
=============================================================================

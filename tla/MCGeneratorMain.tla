----------------------------- MODULE MCGeneratorMain -----------------------------
EXTENDS GeneratorMain

CONSTANTS a, b, c

\* Three emails, so that a file may have distinct ones or not.
MCEmail == {a, b, c}
================================================================================

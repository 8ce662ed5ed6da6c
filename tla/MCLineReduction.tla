---- MODULE MCLineReduction ----
EXTENDS LineReduction
====

----------------------------- MODULE MCComments -----------------------------
EXTENDS Comments

CONSTANTS e1, e2, h1, s1
===============================================================================

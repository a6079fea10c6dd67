------------------------------- MODULE MCShow -------------------------------
EXTENDS Show
CONSTANTS s1, s2, x, p
=============================================================================

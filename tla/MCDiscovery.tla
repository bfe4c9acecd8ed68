---- MODULE MCDiscovery ----
EXTENDS Discovery

\* Below the topmost folder 1 two chains, 2 with 3 and 4 with 5.
UpDef == <<0, 1, 2, 1, 4>>

====

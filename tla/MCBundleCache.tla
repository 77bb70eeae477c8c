--------------------------- MODULE MCBundleCache ---------------------------
(* BundleCache for TLC: two versions of different length under one URL.    *)
EXTENDS BundleCache

CONSTANTS r1, r2

MCSize == <<1, 2>>
MCVersions == 1 .. 2
MCEqualSize == <<2, 2>>

\* Callers that pin the new version, that may pin nothing, and that differ.
MCPinSets == {{2}, {0, 2}, {0, 1, 2}}
\* Callers that pin either version.
MCBothPinned == {{1, 2}}
=============================================================================

----------------------------- MODULE MCCodexAuth -----------------------------
(* Instances of CodexAuth for TLC.                                          *)
EXTENDS CodexAuth, TLC

CONSTANTS r1, r2, r3   \* requests

\* Requests are alike; used only by runs without a liveness property.
AlikeCallers == Permutations(Callers)

=============================================================================

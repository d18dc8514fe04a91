---------------------------- MODULE MCCodexStream ----------------------------
(* Instances of CodexStream for TLC.                                        *)
EXTENDS CodexStream, TLC

CONSTANTS think, say, callA, callB   \* items of a response

\* A turn that reasons, speaks and calls a tool, or calls two tools at once.
MixedItems    == {think, say, callA}
ParallelItems == {think, callA, callB}

Types == (think :> "reasoning") @@ (say :> "message") @@
         (callA :> "function_call") @@ (callB :> "function_call")

MixedTypes    == [i \in MixedItems |-> Types[i]]
ParallelTypes == [i \in ParallelItems |-> Types[i]]

\* Every item has an output_index of its own.
OwnKey == [i \in Items |-> i]

\* What a response.completed may report: nothing, some of it cached, or cached
\* tokens the input count does not include.
MCUsages == {[input |-> 0, cached |-> 0], [input |-> 3, cached |-> 1],
             [input |-> 1, cached |-> 2]}

\* One usage, for the runs that are not about usage.
OneUsage == {[input |-> 3, cached |-> 1]}

=============================================================================

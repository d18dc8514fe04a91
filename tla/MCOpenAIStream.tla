--------------------------- MODULE MCOpenAIStream ---------------------------
(* Instances of OpenAIStream for TLC.                                      *)
EXTENDS OpenAIStream

CONSTANTS callA, callB   \* tool calls of a response

\* What the last chunk may report: nothing, some of it cached, or cached tokens
\* the prompt count does not include.
MCUsages == {[input |-> 0, cached |-> 0], [input |-> 3, cached |-> 1],
             [input |-> 1, cached |-> 2]}

\* One source more than the other two: arguments of callA may arrive before and
\* after those of callB, and content before and after everything else.
MCFragments == [s \in Sources |-> IF s \in {Content, callA} THEN 2 ELSE 1]

=============================================================================

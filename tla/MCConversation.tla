--------------------------- MODULE MCConversation ---------------------------
(* A small instance of Conversation for TLC.                               *)
EXTENDS Conversation

MCShapes == {<<"results", "text", "image">>, <<"results", "document">>,
             <<"text", "image">>, <<"document">>, <<"text">>}

\* Reasoning before, between and without other content; several calls at once; a
\* completion with nothing in it; a compatible endpoint that relays signatures.
MCAnswers ==
    [anthropic |-> {<<"sealed", "text", "call">>, <<"redacted", "call", "call">>},
     codex     |-> {<<"minted", "call", "minted", "call">>,
                    <<"reasoning", "minted", "text">>, <<"minted">>},
     chat      |-> {[reasoning |-> TRUE, text |-> TRUE, calls |-> 2],
                    [reasoning |-> FALSE, text |-> FALSE, calls |-> 0]},
     compat    |-> {<<"sealed", "minted", "foreign", "reasoning", "call">>,
                    <<"reasoning">>}]

MCTools == {[name |-> "Bash", schema |-> TRUE], [name |-> "ExitPlanMode", schema |-> TRUE],
            [name |-> "web_search", schema |-> FALSE]}

\* A wait that is too long, one that is text after all, a negative one, none.
MCFailures ==
    {[status |-> 429, retryAfter |-> [form |-> "integer", secs |-> 3600]],
     [status |-> 429, retryAfter |-> [form |-> "leading", secs |-> 90]],
     [status |-> 529, retryAfter |-> [form |-> "text",    secs |-> 0]],
     [status |-> 503, retryAfter |-> [form |-> "integer", secs |-> -5]],
     [status |-> 422, retryAfter |-> [form |-> "absent",  secs |-> 0]]}

=============================================================================

---------------------------- MODULE MCModelPicker ----------------------------
(* A small instance of ModelPicker for TLC.                                *)
EXTENDS ModelPicker

M(id, window, long) == [id |-> id, window |-> window, long |-> long]

C(models, prefix, firstParty) ==
    [models |-> models, prefix |-> prefix, listen |-> "8787", firstParty |-> firstParty]

Gpt == <<"gpt">>
Glm == <<"glm">>

\* Two plain models, the name of one a bracketed variant; the same two with long_context on the second; names that
\* collide, one more model than the cache keeps and no prefix of its own; and
\* the curated rows of assume_first_party.
MCConfigs ==
    {C(<<M(Gpt, 400, FALSE), M(<<"gpt", "[beta]">>, 120, FALSE)>>, <<"anthropic/">>, FALSE),
     C(<<M(Gpt, 0, FALSE), M(Glm, 300, TRUE)>>, <<"anthropic/">>, FALSE),
     C(<<M(Gpt, 150, TRUE), M(<<"claude-", "gpt">>, 120, FALSE), M(Glm, 90, FALSE)>>,
       <<"claude-">>, FALSE),
     C(<<M(Glm, 1200, TRUE), M(Gpt, 400, FALSE)>>, <<"anthropic/">>, TRUE)}

=============================================================================

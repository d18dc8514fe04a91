---------------------------- MODULE SessionStore ----------------------------
(***************************************************************************)
(* What the gateway's handling of thinking blocks promises: each keeper, a *)
(* vendor that signs its reasoning to find it again, is served as though   *)
(* it kept a session for the conversation. A request shows it all the      *)
(* reasoning of the conversation so far that bears its signature, in       *)
(* order, whichever backends brought it and whichever answered in between. *)
(***************************************************************************)
EXTENDS Naturals, Sequences, SequencesExt

CONSTANT Keepers      \* the vendors that sign their reasoning

VARIABLES
    turns,            \* the answers so far: what each keeper has signed of it
    shown             \* what the request being served shows: [to, reasoning]

vars == <<turns, shown>>

Nobody == [to |-> "", reasoning |-> <<>>]

\* All the reasoning k signed.
Session(k) == FlattenSeq([i \in DOMAIN turns |-> turns[i][k]])

Init == turns = <<>> /\ shown = Nobody

Show(k) == shown' = [to |-> k, reasoning |-> Session(k)] /\ UNCHANGED turns

\* An answer ends the request.
Answer ==
    /\ Len(turns') = Len(turns) + 1
    /\ SubSeq(turns', 1, Len(turns)) = turns
    /\ DOMAIN turns'[Len(turns')] = Keepers
    /\ shown' = Nobody

GiveUp == shown' = Nobody /\ UNCHANGED turns

\* The user goes back to an earlier point of the conversation.
Rewind ==
    /\ shown = Nobody /\ UNCHANGED shown
    /\ \E k \in 0 .. Len(turns) - 1 : turns' = SubSeq(turns, 1, k)

Next == (\E k \in Keepers : Show(k)) \/ Answer \/ GiveUp \/ Rewind

Spec == Init /\ [][Next]_vars

=============================================================================

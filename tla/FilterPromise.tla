---------------------------- MODULE FilterPromise ----------------------------
(***************************************************************************)
(* What a CREATE_FILTER promises to the rest of the plan, whatever its     *)
(* threads do: it takes in its input piece by piece, and when it becomes   *)
(* ready it has taken in everything and its filters admit every join key   *)
(* it has taken in.  It may leave input aside only when the side it would  *)
(* filter is known to be empty.                                            *)
(***************************************************************************)
CONSTANT Keys         \* the join keys that can match: NULL is not one

VARIABLES
    input,      \* the join keys of each piece of the input
    stored,     \* the pieces taken in
    doomed,     \* the probe side is known to be empty
    ready,      \* downstream operators may run
    admits      \* the keys that pass the published filters

vars == <<input, stored, doomed, ready, admits>>

StoredKeys == UNION {input[c] : c \in stored}

Init ==
    /\ stored = {}
    /\ doomed \in BOOLEAN
    /\ ready = FALSE
    /\ admits = Keys

Doom ==
    /\ doomed' = TRUE
    /\ UNCHANGED <<input, stored, ready, admits>>

Store ==
    /\ ~ready
    /\ stored' \in SUBSET DOMAIN input
    /\ stored \subseteq stored'
    /\ UNCHANGED <<input, doomed, ready, admits>>

Publish ==
    /\ ~ready
    /\ stored = DOMAIN input \/ doomed
    /\ ready' = TRUE
    /\ admits' \in SUBSET Keys
    /\ StoredKeys \subseteq admits'
    /\ UNCHANGED <<input, stored, doomed>>

Next == Doom \/ Store \/ Publish

Spec == Init /\ [][Next]_vars

=============================================================================

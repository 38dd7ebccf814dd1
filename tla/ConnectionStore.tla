---------------------------- MODULE ConnectionStore ----------------------------
(***************************************************************************)
(* What a container of connections promises its users: it holds exactly    *)
(* the connections added since it was last cleared.                        *)
(***************************************************************************)
CONSTANT Connection

VARIABLE stored

Init == stored = {}

Add == \E c \in Connection : stored' = stored \cup {c}

Clear == stored' = {}

Next == Add \/ Clear

Spec == Init /\ [][Next]_stored
=============================================================================

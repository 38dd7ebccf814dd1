---- MODULE ChannelAgreement ----
(****************************************************************************)
(* What a run of the Bottom protocol promises to the two ends of a call:    *)
(* one peer's incoming channels are the other's outgoing ones, and no peer  *)
(* secures a channel before both have agreed.                               *)
(****************************************************************************)
CONSTANTS Peer, None

VARIABLES
  agreed,   \* the channels a peer has agreed to
  secured   \* the channels a peer secures

Mirror(selection) == [in |-> selection.out, out |-> selection.in]

Init ==
  /\ agreed = [p \in Peer |-> None]
  /\ secured = [p \in Peer |-> None]

(* The second peer to agree agrees to what the first one did.               *)
Agree(p, selection) ==
  /\ agreed[p] = None
  /\ \A q \in Peer \ {p} : agreed[q] \in {None, Mirror(selection)}
  /\ agreed' = [agreed EXCEPT ![p] = selection]
  /\ UNCHANGED secured

Secure(p) ==
  /\ secured[p] = None
  /\ \A q \in Peer : agreed[q] # None
  /\ secured' = [secured EXCEPT ![p] = agreed[p]]
  /\ UNCHANGED agreed

Stop(p) ==
  /\ secured[p] # None
  /\ secured' = [secured EXCEPT ![p] = None]
  /\ UNCHANGED agreed

Next ==
  \E p \in Peer :
    \/ agreed'[p] # None /\ Agree(p, agreed'[p])
    \/ Secure(p)
    \/ Stop(p)

Spec == Init /\ [][Next]_<<agreed, secured>>
====

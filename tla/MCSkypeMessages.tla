---- MODULE MCSkypeMessages ----
EXTENDS SkypeMessages

CONSTANTS s1, s2

MCSender == {s1, s2}

(* One partner sends another message (its handler may throw), a chat line   *)
(* and a SYN, the other one a SYN.                                          *)
MCSent == s1 :> <<"Other", "Chat", "Syn">> @@ s2 :> <<"Syn">>
====

---- MODULE MCProgram ----
(* Instances of Program: two partners with a key each; a library whose first entry is NULL, *)
(* as that of the source, and one whose pointers are set.                                   *)
EXTENDS Program, TLC

CONSTANTS alice, bob, aliceKey, bobKey

Partners == {alice, bob}
Keys == {aliceKey, bobKey}
Libraries == {{1}, {}}
KeyOwner == (aliceKey :> alice) @@ (bobKey :> bob)
====

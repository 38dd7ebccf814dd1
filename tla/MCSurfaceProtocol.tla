---- MODULE MCSurfaceProtocol ----
EXTENDS SurfaceProtocol

CONSTANTS alice, bob

MCPeer == {alice, bob}

(* The partner is called twice, then calls back; and twice only.            *)
CalledBack == <<alice, alice, bob>>
CalledAgain == <<alice, alice>>
====

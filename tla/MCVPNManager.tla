----------------------------- MODULE MCVPNManager -----------------------------
(***************************************************************************)
(* Small instances of VPNManager.  A connection attempt is a client id, so *)
(* the attempts per user bound a behaviour: three ids of which two share a *)
(* user are the fewest that let a user reconnect while another user waits  *)
(* for an address.                                                         *)
(***************************************************************************)
EXTENDS VPNManager, TLC

CONSTANTS c1, c2, c3, u1, u2, a1, a2

(* Two devices of u1, one of u2.                                           *)
TwoDevices == c1 :> u1 @@ c2 :> u1 @@ c3 :> u2

(* One connection attempt per user.                                        *)
OneEach == c1 :> u1 @@ c2 :> u2
=============================================================================

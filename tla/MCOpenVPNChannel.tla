--------------------------- MODULE MCOpenVPNChannel ---------------------------
(***************************************************************************)
(* Small instances of OpenVPNChannel.  Two clients are enough for an event *)
(* to arrive while another is being handled; two >STATE lines are one more *)
(* than boot needs, so that one may come too late.                         *)
(***************************************************************************)
EXTENDS OpenVPNChannel
=============================================================================

----------------------------- MODULE MCDhcpLease -----------------------------
(* Instances of DhcpLease for TLC: two clients and two addresses; the configuration reserves none,
   one of the range, or one outside it. *)
EXTENDS DhcpLease, TLC

CONSTANTS m1, m2

\* No reservation, one inside the range and one outside it.
MCConfigs == {[m \in {} |-> NoIP], m1 :> RangeEnd, m1 :> RangeEnd + 1}
=============================================================================

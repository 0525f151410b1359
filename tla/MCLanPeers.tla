------------------------------- MODULE MCLanPeers -------------------------------
(* Two devices, one of which owns a wiki.                                      *)
EXTENDS LanPeers

CONSTANTS d1, d2

TwoDevices == {d1, d2}

AnyPast == [Devices -> {"none", "trusted", "blocked"}]
Paired == {[d \in Devices |-> "trusted"]}

Few(attempts, strikes, grants, searches, losses) ==
  [t \in Turns |-> CASE t = "attempts" -> attempts [] t = "strikes" -> strikes
                     [] t = "grants" -> grants [] t = "searches" -> searches
                     [] t = "losses" -> losses]
SomeOfEach == Few(2, 1, 2, 1, 1)
GrantAndSearch == Few(0, 0, 1, 1, 0)

================================================================================

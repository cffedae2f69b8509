--------------------------- MODULE MCLiveUpdates ---------------------------
(* A receipt of a purchase, and two scans that send the same notice to a   *)
(* member, while a client that shows a list and a month listens.           *)
EXTENDS LiveUpdates, TLC
CONSTANTS r, n1, n2, owner, c1

MCKind == (r :> "receipt") @@ (n1 :> "notice") @@ (n2 :> "notice")
MCKey == (r :> 0) @@ (n1 :> 1) @@ (n2 :> 1)
=============================================================================

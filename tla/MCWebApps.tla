------------------------------ MODULE MCWebApps ------------------------------
(* WebApps for TLC: two tenants, one with an admin and a counsellor. *)
EXTENDS WebApps, TLC

Tenants == "admin" :> "a" @@ "staff" :> "a" @@ "other" :> "b"
Roles == "admin" :> "admin" @@ "staff" :> "counsellor" @@ "other" :> "counsellor"
Spellings ==
  {[address |-> a, lower |-> TRUE] : a \in {"ann", "bob", "cid"}} \cup {[address |-> "ann", lower |-> FALSE]}
=============================================================================

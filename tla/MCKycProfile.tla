---------------------------- MODULE MCKycProfile ----------------------------
(***************************************************************************)
(* Instances of KycProfile for TLC: overrides among three operators, a     *)
(* verification started twice, and payments beside an operator.            *)
(***************************************************************************)
EXTENDS KycProfile, TLC
CONSTANTS o1, o2, o3, c1, c2, d1, d2, p1, p2

Set(field, value) == field :> value
Row(status, sanctions, tier) ==
  [status |-> status, sanctions |-> sanctions, custody |-> "not_reviewed", tier |-> tier, risk |-> 0]

Overrides == [profile |-> Row("approved", "cleared", 1), screened |-> "recent",
              actors |-> {o1, o2, o3}, reviews |-> 2, faults |-> 1,
              requests |-> {Set("tier", 3), Set("tier", 2), Set("custody", "approved")}]
Verification == [profile |-> Row("not_started", "not_screened", 0), screened |-> "never",
                 actors |-> {o1, c1, c2, d1, d2}, reviews |-> 1, faults |-> 1,
                 requests |-> {Set("status", "approved"), Set("risk", 20)}]
Screening == [profile |-> Row("approved", "cleared", 1), screened |-> "aged",
              actors |-> {o1, o2, p1, p2}, reviews |-> 2, faults |-> 0,
              requests |-> {Set("sanctions", "review"), Set("sanctions", "blocked"), Set("custody", "denied")}]
Scenes3 == {Overrides, Verification, Screening}
=============================================================================

----------------------------- MODULE MCDeposits -----------------------------
(***************************************************************************)
(* Instances of Deposits for TLC: deposits in pages of two behind a first  *)
(* poll, also while a call fails, and one of which Meta refuses a message. *)
(***************************************************************************)
EXTENDS Deposits

Paged == [payments |-> <<"other", "deposit", "deposit", "deposit">>,
          history |-> 0, faults |-> 0, failures |-> 0, replays |-> 0]
Stopped == [payments |-> <<"other", "deposit", "deposit">>,
            history |-> 1, faults |-> 1, failures |-> 0, replays |-> 0]
Mixed == [payments |-> <<"other", "unverified", "deposit">>,
          history |-> 1, faults |-> 0, failures |-> 1, replays |-> 0]
Troubled == [payments |-> <<"other", "deposit">>,
             history |-> 1, faults |-> 1, failures |-> 1, replays |-> 1]
Scenes4 == {Paged, Stopped, Mixed, Troubled}
=============================================================================

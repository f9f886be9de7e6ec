------------------------- MODULE WalletProvisioning -------------------------
(***************************************************************************)
(* The wallet of one user (wallet/wallet.service.js).  Every message that  *)
(* needs it creates it or provisions it again; two callers may race at     *)
(* each step.  Provisioning has two parts, an account funded by Friendbot  *)
(* and a USDC trustline, each claimed under a lease of five minutes that   *)
(* nothing renews, and an operator may reset both (recoverWallet).         *)
(* No name is one of Deposits: WalletProofs extends both.                  *)
(***************************************************************************)
EXTENDS Naturals

CONSTANTS
  Caller,        \* calls that may be under way at once
  MaxFaults,     \* crashes and failed calls
  MaxOutlasting, \* calls that are still waiting when their lease ends
  MaxRecoveries  \* operators' recoveries

ASSUME ProvisioningBounds == MaxFaults \in Nat /\ MaxOutlasting \in Nat /\ MaxRecoveries \in Nat

Part == {"funding", "trustline"}
State == {"pending", "in_progress", "failed", "succeeded"}

VARIABLES
  exists,     \* the Wallet row is there
  funded,     \* wallet.funded
  state,      \* wallet.fundingState and wallet.trustlineState
  expired,    \* the lease of a part that is in progress is over
  ledger,     \* what Stellar has: the account, its trustline
  place,      \* where each call is
  sawFunded,  \* wallet.funded, and the two states, as an operator's call
  saw,        \* read them
  callFaults, outlasting, recoveries, \* how often each happened so far
  forced      \* a lease ended under a call, or a recovery overwrote one

call == <<place, sawFunded, saw>>
limits == <<callFaults, outlasting, recoveries>>
provisioning == <<exists, funded, state, expired, ledger, call, limits, forced>>

ProvisioningInit ==
  /\ exists = FALSE
  /\ funded = FALSE
  /\ state = [part \in Part |-> "pending"]
  /\ expired = [part \in Part |-> FALSE]
  /\ ledger = {}
  /\ place = [c \in Caller |-> "idle"]
  /\ sawFunded = [c \in Caller |-> FALSE]
  /\ saw = [c \in Caller |-> state]
  /\ callFaults = 0 /\ outlasting = 0 /\ recoveries = 0
  /\ forced = FALSE

CallFault == callFaults < MaxFaults /\ callFaults' = callFaults + 1
Moves(c, from, to) == place[c] = from /\ place' = [place EXCEPT ![c] = to]
Put(part, value) ==
  /\ state' = [state EXCEPT ![part] = value]
  /\ expired' = [expired EXCEPT ![part] = FALSE]

\* The call that claimed a part has not written its outcome yet.
Holding == [funding |-> {"fund", "fundedRow", "unfundedRow"},
            trustline |-> {"open", "openedRow", "unopenedRow"}]
Place == {"idle", "insert", "load", "claimFunding", "claimTrustline", "resetFunding",
          "resetTrustline"} \cup Holding["funding"] \cup Holding["trustline"]
Calls(part) == {c \in Caller : place[c] \in Holding[part]}
-----------------------------------------------------------------------------
(* createOrGetWallet *)

AskForWallet(c) ==
  /\ Moves(c, "idle", IF exists THEN "load" ELSE "insert")
  /\ UNCHANGED <<exists, funded, state, expired, ledger, sawFunded, saw, limits, forced>>

\* The unique index lets one insert through; who loses returns the winner's row.
InsertWallet(c) ==
  /\ Moves(c, "insert", IF exists THEN "idle" ELSE "load")
  /\ exists' = TRUE
  /\ UNCHANGED <<funded, state, expired, ledger, sawFunded, saw, limits, forced>>
-----------------------------------------------------------------------------
(* provisionWallet, ensureUsdcTrustline *)

NeedsFunding == state["funding"] # "succeeded" /\ ~funded

LoadWallet(c) ==
  /\ Moves(c, "load", IF NeedsFunding THEN "claimFunding" ELSE "claimTrustline")
  /\ UNCHANGED <<exists, funded, state, expired, ledger, sawFunded, saw, limits, forced>>

\* Mutation: whoever comes calls the provider.
ClaimableAlways(part) == state[part] # "succeeded"
\* Mutation: a part that failed for good is left alone.
ClaimableUntried(part) ==
  state[part] = "pending" \/ (state[part] = "in_progress" /\ expired[part])
Claimable(part) ==
  state[part] \in {"pending", "failed"} \/ (state[part] = "in_progress" /\ expired[part])

ClaimPart(c, part, from, to) ==
  /\ IF Claimable(part)
     THEN Moves(c, from, to) /\ Put(part, "in_progress")
     ELSE Moves(c, from, "idle") /\ UNCHANGED <<state, expired>>
  /\ UNCHANGED <<exists, funded, ledger, sawFunded, saw, limits, forced>>
ClaimFunding(c) == ClaimPart(c, "funding", "claimFunding", "fund")
ClaimTrustline(c) == ClaimPart(c, "trustline", "claimTrustline", "open")

\* Mutation: what the provider answers is not looked at.
AskProviderBlindly(c, thing, from, done, failed) ==
  /\ Moves(c, from, done) /\ ledger' \in {ledger, ledger \cup {thing}} /\ UNCHANGED callFaults
  /\ UNCHANGED <<exists, funded, state, expired, sawFunded, saw, outlasting, recoveries, forced>>
\* An account or trustline that is there already is a success; a call that
\* fails may have made it.
AskProvider(c, thing, from, done, failed) ==
  /\ \/ Moves(c, from, done) /\ ledger' = ledger \cup {thing} /\ UNCHANGED callFaults
     \/ Moves(c, from, failed) /\ CallFault /\ ledger' \in {ledger, ledger \cup {thing}}
  /\ UNCHANGED <<exists, funded, state, expired, sawFunded, saw, outlasting, recoveries, forced>>
FundAccount(c) == AskProvider(c, "account", "fund", "fundedRow", "unfundedRow")
EstablishTrustline(c) == AskProvider(c, "trustline", "open", "openedRow", "unopenedRow")

WriteFunded(c) ==
  /\ Moves(c, "fundedRow", "claimTrustline")
  /\ funded' = TRUE
  /\ state' = [funding |-> "succeeded", trustline |-> "pending"]
  /\ expired' = [part \in Part |-> FALSE]
  /\ UNCHANGED <<exists, ledger, sawFunded, saw, limits, forced>>

\* A failed write of the success is handled as a failed funding.
FundedRowFails(c) ==
  /\ Moves(c, "fundedRow", "unfundedRow") /\ CallFault
  /\ UNCHANGED <<exists, funded, state, expired, ledger, sawFunded, saw, outlasting, recoveries, forced>>

\* What may be retried is pending until its attempts are used up.
FailureStates == {"pending", "failed"}

WriteFailure(c, part, from) ==
  /\ Moves(c, from, "idle")
  /\ \E value \in FailureStates : Put(part, value)
  /\ UNCHANGED <<exists, funded, ledger, sawFunded, saw, limits, forced>>
WriteUnfunded(c) == WriteFailure(c, "funding", "unfundedRow")
WriteUnopened(c) == WriteFailure(c, "trustline", "unopenedRow")

WriteOpened(c) ==
  /\ Moves(c, "openedRow", "idle")
  /\ Put("trustline", "succeeded")
  /\ UNCHANGED <<exists, funded, ledger, sawFunded, saw, limits, forced>>

\* The process stops, or the database fails a call nothing catches.
CallStops(c) ==
  /\ place[c] # "idle" /\ CallFault
  /\ place' = [place EXCEPT ![c] = "idle"]
  /\ UNCHANGED <<exists, funded, state, expired, ledger, sawFunded, saw, outlasting, recoveries, forced>>

LeaseEnds(part) ==
  /\ state[part] = "in_progress" /\ ~expired[part] /\ Calls(part) = {}
  /\ expired' = [expired EXCEPT ![part] = TRUE]
  /\ UNCHANGED <<exists, funded, state, ledger, call, limits, forced>>

\* Friendbot is asked without a timeout.
CallOutlastsLease(part) ==
  /\ state[part] = "in_progress" /\ ~expired[part] /\ Calls(part) # {}
  /\ outlasting < MaxOutlasting /\ outlasting' = outlasting + 1
  /\ expired' = [expired EXCEPT ![part] = TRUE]
  /\ forced' = TRUE
  /\ UNCHANGED <<exists, funded, state, ledger, call, callFaults, recoveries>>
-----------------------------------------------------------------------------
(* recoverWallet *)

ReadForRecovery(c) ==
  /\ exists /\ recoveries < MaxRecoveries
  /\ Moves(c, "idle", "resetFunding")
  /\ recoveries' = recoveries + 1
  /\ sawFunded' = [sawFunded EXCEPT ![c] = funded]
  /\ saw' = [saw EXCEPT ![c] = state]
  /\ UNCHANGED <<exists, funded, state, expired, ledger, callFaults, outlasting, forced>>

\* What the operator's call read decides, whatever the row says by now.
ResetPart(c, part, needed) ==
  /\ IF needed THEN Put(part, "pending") ELSE UNCHANGED <<state, expired>>
  /\ forced' = (forced \/ (needed /\ (Calls(part) # {} \/ state[part] # saw[c][part])))
  /\ UNCHANGED <<exists, funded, ledger, sawFunded, saw, limits>>
ResetFunding(c) ==
  /\ Moves(c, "resetFunding", "resetTrustline")
  /\ ResetPart(c, "funding", saw[c]["funding"] # "succeeded" /\ ~sawFunded[c])
ResetTrustline(c) ==
  /\ Moves(c, "resetTrustline", "load")
  /\ ResetPart(c, "trustline", saw[c]["trustline"] # "succeeded")
-----------------------------------------------------------------------------
Step(c) ==
  \/ InsertWallet(c) \/ LoadWallet(c)
  \/ ClaimFunding(c) \/ FundAccount(c) \/ WriteFunded(c) \/ WriteUnfunded(c)
  \/ ClaimTrustline(c) \/ EstablishTrustline(c) \/ WriteOpened(c) \/ WriteUnopened(c)
  \/ ResetFunding(c) \/ ResetTrustline(c)

ProvisioningNext ==
  \/ \E c \in Caller :
       AskForWallet(c) \/ Step(c) \/ FundedRowFails(c) \/ CallStops(c) \/ ReadForRecovery(c)
  \/ \E part \in Part : LeaseEnds(part) \/ CallOutlastsLease(part)

ProvisioningSpec == ProvisioningInit /\ [][ProvisioningNext]_provisioning

\* Calls run to their end, leases end, and somebody keeps asking for the wallet.
ProvisioningFairness ==
  /\ \A c \in Caller : WF_provisioning(Step(c)) /\ WF_provisioning(AskForWallet(c))
  /\ \A part \in Part : WF_provisioning(LeaseEnds(part))
FairProvisioning == ProvisioningSpec /\ ProvisioningFairness
-----------------------------------------------------------------------------
\* The rows have the values their columns may take, and a wallet is marked
\* funded, and its trustline established, only when Stellar has them.
ProvisioningTypeOK ==
  /\ exists \in BOOLEAN /\ funded \in BOOLEAN /\ forced \in BOOLEAN
  /\ state \in [Part -> State] /\ expired \in [Part -> BOOLEAN]
  /\ ledger \subseteq {"account", "trustline"}
  /\ place \in [Caller -> Place]
  /\ sawFunded \in [Caller -> BOOLEAN] /\ saw \in [Caller -> [Part -> State]]
  /\ funded => "account" \in ledger
  /\ state["trustline"] = "succeeded" => "trustline" \in ledger

\* The leases of provisionWallet and ensureUsdcTrustline: Friendbot and Horizon
\* are asked by one call at a time, however many messages and crashes there are,
\* unless a call outlasted its lease or a recovery took its claim away.
CallsDoNotOverlap ==
  forced \/ \A part \in Part : \A c, d \in Calls(part) : c = d

\* What onboarding shows as "wallet ready", and Stellar agrees.
Ready ==
  /\ funded /\ state = [part \in Part |-> "succeeded"]
  /\ ledger = {"account", "trustline"}
\* A late write made "pending" or "failed" of a funding that had succeeded: a
\* funded wallet is not funded again, so nothing corrects it.
LeftUnready == forced /\ funded /\ state["funding"] # "succeeded"

\* While somebody asks for the wallet now and then it gets ready and stays so,
\* through crashes, failed calls and races, but for the late write above.
WalletBecomesReady == <>[](Ready \/ LeftUnready)
=============================================================================

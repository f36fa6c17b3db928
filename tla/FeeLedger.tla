----------------------------- MODULE FeeLedger -----------------------------
(***************************************************************************)
(* The confirmed settlements that sellers and referrers are billed by: the *)
(* fee fields they get from FeeEngine.compute as settlePayment calls it,   *)
(* and the sums of getReferralStats (src/src/settlement/referral-          *)
(* service.ts).                                                            *)
(***************************************************************************)
EXTENDS FeeEngine, FiniteSets, Functions

CONSTANTS
  Configs,      \* the configurations a facilitator may run with
  Amounts,      \* amounts of payments
  MaxTime,      \* bound: the time
  MaxSettled    \* bound: confirmed settlements

ASSUME ConfigsAssumption == Configs \subseteq Config
ASSUME CodesAssumption == IsFiniteSet(Codes)
ASSUME AmountsAssumption == Amounts \subseteq Nat
ASSUME TimeAssumption == MaxTime \in Nat /\ MaxSettled \in Nat

VARIABLES
  cfg,    \* the configuration of the fee engine
  now,    \* the time
  rows    \* the confirmed settlements, in order, with the time of each

ledgerVars == <<cfg, now, rows>>

Breakdown == [grossAmount : Nat, platformFee : Nat, developerShare : Nat, netToSeller : Nat,
              effectiveFeeBps : Bps, freeTierApplied : BOOLEAN,
              referralCode : Codes \cup {NoCode}]
Settled == [seller : Addresses, at : Nat, fees : Breakdown]

\* One type invariant for the whole state.
LedgerTypeOK ==
  /\ cfg \in Configs
  /\ now \in 0..MaxTime
  /\ rows \in Seq(Settled)

LedgerInit ==
  /\ cfg \in Configs
  /\ now = 0
  /\ rows = <<>>

-----------------------------------------------------------------------------
(* The queries of referral-service.ts. *)

Total(I, field) == SumFunctionOnSet([i \in DOMAIN rows |-> rows[i].fees[field]], I)

\* What the settlements I owe at their rates, in parts of BpsDenominator.
Owed(I) ==
  SumFunctionOnSet(
    [i \in DOMAIN rows |-> rows[i].fees.grossAmount * rows[i].fees.effectiveFeeBps], I)

RowsOf(seller) == {i \in DOMAIN rows : rows[i].seller = seller}

ReferralRows(code) == {i \in DOMAIN rows : rows[i].fees.referralCode = code}

\* getReferralStats.
ReferralStats(code) ==
  [totalSettlements |-> Cardinality(ReferralRows(code)),
   totalGrossVolume |-> Total(ReferralRows(code), "grossAmount"),
   totalPlatformFee |-> Total(ReferralRows(code), "platformFee"),
   totalDeveloperShare |-> Total(ReferralRows(code), "developerShare")]

-----------------------------------------------------------------------------

\* A payment is settled with the fees of the moment.  settlePayment passes no
\* volume, so compute takes 0.
SettleWithFees(seller, gross, code) ==
  /\ Len(rows) < MaxSettled
  /\ rows' = Append(rows, [seller |-> seller, at |-> now,
                           fees |-> Compute(cfg, gross, seller, code, 0, now)])
  /\ UNCHANGED <<cfg, now>>

ClockTick ==
  /\ now < MaxTime
  /\ now' = now + 1
  /\ UNCHANGED <<cfg, rows>>

LedgerNext ==
  \/ \E s \in Addresses, g \in Amounts, c \in Codes \cup {NoCode} : SettleWithFees(s, g, c)
  \/ ClockTick

LedgerSpec == LedgerInit /\ [][LedgerNext]_ledgerVars

-----------------------------------------------------------------------------
(* Properties. *)

\* What a seller was charged over all its settlements is what their rates make
\* of its payments, rounded in its favour by less than one base unit for each of
\* them, and the rest is the seller's.
FeesWithinRate ==
  \A s \in Addresses :
    LET I == RowsOf(s)
        charged == BpsDenominator * Total(I, "platformFee")
    IN /\ charged <= Owed(I)
       /\ Owed(I) <= charged + (BpsDenominator - 1) * Cardinality(I)
       /\ Total(I, "platformFee") + Total(I, "netToSeller") = Total(I, "grossAmount")

\* A seller is charged a premium rate exactly while a tier of its own is live:
\* nobody else's tier counts, and a tier that has ended neither applies nor
\* hides a later one of the same seller.
PremiumIsPersonal ==
  \A i \in DOMAIN rows : ~rows[i].fees.freeTierApplied =>
    LET tiers == cfg.premiumTiers
        own == {k \in DOMAIN tiers :
                  /\ tiers[k].seller = rows[i].seller
                  /\ tiers[k].expiresAt = NoExpiry \/ rows[i].at < tiers[k].expiresAt}
    IN IF own = {}
       THEN rows[i].fees.effectiveFeeBps = cfg.platformFeeBps
       ELSE \E k \in own : rows[i].fees.effectiveFeeBps = tiers[k].feeBps

\* The referral statistics account for every share and for no other: what the
\* codes are credited with adds up to the shares of all settlements, and none
\* is credited with more than its rate of the fees it brought.
StatsAccountForShares ==
  /\ SumFunction([c \in Codes |-> ReferralStats(c).totalDeveloperShare])
       = Total(DOMAIN rows, "developerShare")
  /\ \A c \in Codes :
       BpsDenominator * ReferralStats(c).totalDeveloperShare
         <= cfg.developerShareBps * ReferralStats(c).totalPlatformFee
=============================================================================

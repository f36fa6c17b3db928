----------------------------- MODULE FeeEngine -----------------------------
(***************************************************************************)
(* The fee engine (src/src/settlement/fee-engine.ts): platform fees and    *)
(* the referrer's share, in basis points of whole base units.  The code    *)
(* computes with BigInt, so the integers have no width.                    *)
(***************************************************************************)
EXTENDS Integers, Sequences

CONSTANTS
  Addresses,   \* seller addresses, compared without regard to case
  Codes,       \* referral codes
  NoCode,      \* no referral code
  NoExpiry     \* a premium tier without an end

ASSUME NoCodeAssumption == NoCode \notin Codes
ASSUME NoExpiryAssumption == NoExpiry \notin Nat

BpsDenominator == 10000
Bps == 0..BpsDenominator

\* The configurations whose rates are fractions.
PremiumTier == [seller : Addresses, feeBps : Bps, expiresAt : Nat \cup {NoExpiry}]
Config == [platformFeeBps : Bps, developerShareBps : Bps,
           freeTierMonthlyUnits : Nat, premiumTiers : Seq(PremiumTier)]

\* Faulty variant: rounded up.
PortionRoundedUp(amount, bps) == (amount * bps + BpsDenominator - 1) \div BpsDenominator

\* A part of an amount, rounded down.
Portion(amount, bps) == (amount * bps) \div BpsDenominator

FreeTierApplied(cfg, volume) ==
  /\ cfg.freeTierMonthlyUnits > 0
  /\ volume < cfg.freeTierMonthlyUnits

TierLive(tier, seller, now) ==
  /\ tier.seller = seller
  /\ tier.expiresAt = NoExpiry \/ tier.expiresAt > now

\* Faulty variant: the seller's first tier decides, live or not.
FirstTierDecides(cfg, seller, now) ==
  LET own == {i \in DOMAIN cfg.premiumTiers : cfg.premiumTiers[i].seller = seller}
      first == CHOOSE i \in own : \A j \in own : i <= j
  IN IF own # {} /\ TierLive(cfg.premiumTiers[first], seller, now)
     THEN cfg.premiumTiers[first].feeBps
     ELSE cfg.platformFeeBps

\* The rate of the first premium tier that is live, else the platform's.
ResolveFeeBps(cfg, seller, now) ==
  LET live == {i \in DOMAIN cfg.premiumTiers : TierLive(cfg.premiumTiers[i], seller, now)}
  IN IF live = {}
     THEN cfg.platformFeeBps
     ELSE cfg.premiumTiers[CHOOSE i \in live : \A j \in live : i <= j].feeBps

PlatformFee(cfg, gross, seller, volume, now) ==
  IF FreeTierApplied(cfg, volume)
  THEN 0
  ELSE Portion(gross, ResolveFeeBps(cfg, seller, now))

\* Faulty variant: a share without a referrer.
ShareForNobody(cfg, gross, fee, code) == Portion(fee, cfg.developerShareBps)

DeveloperShare(cfg, gross, fee, code) ==
  IF code = NoCode THEN 0 ELSE Portion(fee, cfg.developerShareBps)

\* FeeEngine.compute.
Compute(cfg, gross, seller, code, volume, now) ==
  LET fee == PlatformFee(cfg, gross, seller, volume, now)
  IN [grossAmount |-> gross,
      platformFee |-> fee,
      developerShare |-> DeveloperShare(cfg, gross, fee, code),
      netToSeller |-> gross - fee,
      effectiveFeeBps |-> IF FreeTierApplied(cfg, volume)
                          THEN 0 ELSE ResolveFeeBps(cfg, seller, now),
      freeTierApplied |-> FreeTierApplied(cfg, volume),
      referralCode |-> code]
=============================================================================

\* The components that decide who a user is and what he may use.
CONSTANTS
  Parts = {"billing", "quota", "mail", "session", "onboarding", "chain", "planEditor",
           "checkout", "settings"}
  Users = {u1, u2}
  Payments = {pay1, pay2}
  SlotLimit = 1
  MaxRequests = 2
  MaxOthers = 1
  QuotaApps = {q1, q2}
  Friends = {f1}
  Quotas = {0, 1}
  Bonus = 1
  RequiredSends = 1
  MaxRewards = 1
  MaxFaults = 1
  MaxFriendSends = 2
  Senders = {m1, m2}
  MaxTokens = 2
  MaxAges = 2
  Identities = {i1, i2}
  NoIdentity = NoIdentity
  PageRequests = {o1, o2}
  MaxTurns = 1
  UserKeys = {k3, k4}
  NoUserKey = NoUserKey
  Secrets = {s1, s2}
  GoodSecrets = {s1}
  ChainRequests = {o1, o2}
  ChainOffset = 10
  MaxChainWrites = 2
  PlanIds = {p3, p4}
  FirstPlans = {p3}
  PlanFeatures = {g3}
  PriceIds = {h3, h4}
  Offers = {j1, j2, j3}
  BadOffers = {j3}
  NoOffer = NoOffer
  PlanEditors = {t3, t4}
  MaxPlanSaves = 2
  ShopPages = {k1, k2}
  PricingPages = {k1}
  MaxOrders = 2
  Deals <- TwoDeals
  Cuts = {"fixed"}
  CutPercent = 50
  CutPaise = 350
  MaxShopTurns = 2
  MaxSettlements = 2
  SwitchKeys = {paywall}
  TrialMode = trialMode
  TrialKeys = {trialDays}
  ReferralKeys = {reward}
  QuotaKeys = {sends}
  DetectionKeys = {score}
  SettingValues = {value1, value2}
  Default = value1
  BadValue = badValue
  SettingPages <- FourPages
  Lookups <- OneLookup
  MaxOpenPages = 2
  MaxSettingSteps = 3
  MaxLookups = 1
SPECIFICATION MCSafetySpec
INVARIANTS
  AccountsTypeOK
  CountIsBounded
  RenewalsAgree
  CredentialsAreSound
PROPERTIES
  BillingIsSound
  SalesAreSound
  SessionIsSound
  SettingsAreSound
  OnboardingIsSound
CHECK_DEADLOCK FALSE

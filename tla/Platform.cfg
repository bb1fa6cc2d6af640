\* The components beside the application lifecycle that carry events, texts and views.
CONSTANTS
  Parts = {"publish", "stream", "store", "tabs", "gateway", "resumes", "registry",
           "queries", "extension", "tracker", "composer", "page", "parsing", "drafts",
           "status", "posts", "certification", "promotion", "platformAi", "calls", "edits"}
  k1 = k1
  m3 = m3
  p1 = p1
  p2 = p2
  key3 = key3
  Applications = {a1, a2}
  Publishers = {p1, p2}
  MaxPending = 1
  MaxChanges = 2
  MaxEvents = 3
  MaxCuts = 1
  MaxReconnects = 1
  MaxBacklog = 1
  Retained = 1
  MaxVersion = 2
  MaxUserActions = 1
  MaxEarly = 1
  Tabs = {t1, t2}
  MaxCloses = 2
  Calls = {g1, g2}
  Chain <- OneCredential
  Threshold = 2
  Uploads = {j1, j2}
  Files = {h1, h2}
  NoUpload = nobody
  MaxLlmAttempts = 2
  BrowserTabs = {b1, b2}
  MaxStreams = 3
  Queries = {s1, s2}
  FailureThreshold = 3
  MaxTries = 3
  Fetches = {x1, x2}
  MaxSessions = 2
  MaxRenewals = 2
  TrackedApps = {l1}
  CustomStatuses = {c1, c2}
  Cells = {d1, d2}
  MaxEdits = 3
  Texts = {e1, e2}
  Styles = {y1, y2}
  MaxPastes = 2
  MaxPreviews = 3
  MaxChoices = 2
  MaxTroubles = 1
  Rows = {r1, r2}
  Views = {v1, v2}
  MaxRefreshes = 1
  MaxSwitches = 2
  MaxBulks = 2
  Samples = {{}, {"title", "alias", "sectionRole", "resumeMatch"}}
  MaxMore = 3
  Drafts = {{}, {"banned", "templated", "semicolons", "contrasts", "robotic", "buzzwords", "shouting"},
            {"roleLate", "companyLate", "greetingLine", "longSentences", "longAverage", "noShortSentence"},
            {"noRole", "companyLate", "longSentences", "longAverage"}}
  MaxTraits = 2
  Asks = {n1, n2}
  MaxModeChanges = 1
  Posts = {{}, {"email", "hiring", "row"}, {"email", "applying", "control"},
           {"blocked", "hiring", "applying", "row"}, {"email", "hiring", "applying"},
           {"email", "hiring", "long", "row"}}
  Buttons = {w1, w2}
  MaxTaps = 2
  ParsedResumes <- ThreeParses
  JudgeScores = {50, 80, 100}
  StepCosts = {0, 8}
  AttemptCount = 2
  PassThreshold = 80
  RecommendThreshold = 90
  CertRuns = {run1, run2}
  Candidates = {candidate}
  Desks = {desk1}
  CandidateOf <- CandidateOfRun
  DeskOf <- DeskOfRun
  NoRun = NoRun
  MaxDeskClicks = 2
  AiProviders = {p1, p2}
  CertModels = {m1, m3}
  PlatformKeys = {key1, key3}
  ModelOf <- ProviderOfModel
  KeyOf <- ProviderOfKey
  NoModel = NoModel
  NoProvider = NoProvider
  AiAdmins = {panelAdmin, otherAdmin}
  PanelAdmin = panelAdmin
  MaxAiChanges = 2
  Adapters = {"openai", "groq", "anthropic", "gemini", "local"}
  MaxWords = 2
  Letters = {letter1, letter2}
  NoLetter = NoLetter
  MaxSendOrders = 2
SPECIFICATION MCSafetySpec
INVARIANTS
  PlatformTypeOK
  AnsweredReplayHasNoGap
  LeadersAreKnown
  JobsAreServed
  NewestIsServed
  LabelsAreListed
  JudgementsAreFair
  BreakersAreSound
  VerdictsAgree
  PlatformAiIsSound
  MailedAsShown
PROPERTIES
  CommittedIsHandedOver
  RegistryIsSound
  ComposerIsSound
  DeletedStayGone
  ExtensionIsSound
CHECK_DEADLOCK FALSE

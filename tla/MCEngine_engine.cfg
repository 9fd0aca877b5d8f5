\* The engine's stages and the intake, each from every hand-over of MCEngine's constants.
\* Every stage ends, so a state without a successor is an end, not a deadlock.
SPECIFICATION EngineSpec
INVARIANTS
  EveryQuestionHandedOver
  NoQuestionLost
  BoughtOnce
  EveryQuestionGrouped
  DiscoveryAccounted
  TrimInOrder
  PaidResultsSurvive
  WitnessesKept
  VerdictsDecide
  DroppedLeavesNoTrace
  CitationsLead
  ProposalBoughtOnce
  ProbeIsAnswered
  OnePackPerValidation
  CursorNeverSkips
  FeedCatchesUp
  OneSearchAfterRefusal
  ShortfallIsTold
  ResultsFitThePlan
PROPERTIES
  FairShare
  NeverPaidTwice
CHECK_DEADLOCK FALSE

CONSTANTS
  \* workshop, before the loop: at most two sessions, one at a time, and a
  \* ceiling below the number of questions
  Briefs <- BriefsSeen
  LabelWith <- LabelText
  RowAnswers <- AnswersSeen
  MaxOriented = 2
  OrientSlots = 1
  MaxTurns = 2
  MaxPauses = 1
  MaxAspects = 1
  MaxCandidates = 1
  ClusterBlock = 2
  CandidateBatch = 2
  \* breaker: two sessions of two attempts that fail in two ways
  Session = {a, b}
  Signature = {x, y}
  Attempts = 2
  HardThreshold = 2
  OverloadThreshold = 2
  OpenFor = 1
  OpenForMax = 2
  MaxCalls = 4
  \* stage card: two rows, three changes, one write that does not land
  MaxItems = 2
  MaxChanges = 3
  MaxMissed = 1
  \* own researcher: two sessions of two turns, the last one forced, that share
  \* one search slot; one search that fails
  Researcher = {r, s}
  SessionTurns = 2
  SessionPauses = 1
  MaxSearches = 2
  MaxUses = 2
  SearchSlots = 1
  Strikes = 1
  MaxRefusals = 1
  \* research: two angles that corroborate each other, a fleet of two streams or
  \* of one, one stop of the engine and one failure of a provider
  Angles <- AnglePair
  Fleets <- FleetChoices
  Resumable = {"gemini", "openai"}
  Concurrency = 2
  Redispatch = TRUE
  MaxConnect = 2
  Plans = {1, 2}
  MaxStops = 1
  MaxFaults = 1
  \* loop: two questions, two candidates of stage A, two rounds of drafts
  LabelSeq <- TwoQuestions
  Disc = "disc"
  StageAPool <- TwoCandidates
  Drafts <- TwoRounds
  FloorPerQuestion = 1
  CrossSlots = 1
  MaxRounds = 2
  MinRounds = 2
  \* groups: three questions; two winners and one rider per group, three groups
  ClientSeq <- ThreeQuestions
  Discovery = "disc"
  Reworded = "sharp"
  Handovers <- WinnersHandedOver
  RawAnswers <- ProposedGroups
  MaxGroups = 3
  MaxSize = 2
  MaxRiders = 1
  DiscoverySlots = 3
  ParentCap = 2
  \* division: three streams, a ceiling of four angles and of three winners
  Workshops <- HandOvers
  Streams <- ThreeStreams
  StakesProvider <- ByStakes
  Redundancy = "claude"
  MaxAngles = 4
  MaxWinners = 3
  MinCorroboration = 2
  HighRanks = 1
  \* claims: lists of at most two facts and two gaps, chunks of one line, two
  \* units at a time
  Hauls <- HaulsSeen
  Norm <- NormText
  RetryLines <- SecondAnswers
  DistilledTexts <- TextsStated
  RetryProviders = {"gemini"}
  MaxFacts = 2
  MaxGaps = 2
  MaxNotFound = 2
  ChunkLines = 1
  DistillSlots = 2
  MaxDistilled = 2
  \* verification: three claims, two of them high-stakes, in batches of two
  N = 3
  HighStakes = {1, 3}
  FoundBy <- Providers
  SentenceOf <- Evidence
  ClusterBatch = 2
  SkepticConcurrency = 2
  PerClaim = 2
  MaxReentry = 1
  \* report: two claims, two prefixes; one area and two askers of a proposal
  Fact = {"p", "q"}
  SourcesOf <- ClaimSources
  SkepticSources <- SessionSources
  SkepticAsEvidence = TRUE
  Judged = {"p"}
  SourceRank <- UuidOrder
  Prefix = {"x", "y"}
  Area = {"a"}
  Asker = {"h", "i"}
  MaxExecutions = 2
  \* activity feed: pages and batches of one line, two executions, one death,
  \* failed batch or unread maximum
  Stages <- TwoStages
  RowsPerStage = 1
  QueueMax = 2
  Batch = 1
  PageLimit = 1
  MaxLines = 5
  MaxExecutionsOfRun = 2
  MaxLosses = 1
  \* intake: a form of two fields and an admin's, two of the six skills, two
  \* requests beside two skill runs, one death or failure
  Required = "goal"
  Proposal = "ideas"
  AdminKey = "notes"
  Batches <- SavedBatches
  Extractions <- Extracted
  Overrides = {"submitted", "validated_by_client"}
  Skills = {"context-pack", "structure-answers"}
  MaxRequests = 2
  MaxSkillRuns = 2
  MaxMishaps = 1
  \* the whole run: a workshop whose plan was trimmed, one that fell back; two
  \* executions and one trouble
  Workshopped <- WorkshopResults
  AngleNo = {1, 2}
  MaxStarts = 2
  MaxTroubles = 1

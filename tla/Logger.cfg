CONSTANTS
  root = root
  l1 = l1
  cout = cout
  file = file
  full = full
  short = short
  broken = broken
  Loggers <- TwoLoggers
  Root = root
  Appenders <- TwoAppenders
  Cout = cout
  Names <- TwoNames
  RootName = "root"
  Thresholds <- OneThreshold
  LogLevels <- OneLevel
  Formats <- ThreeFormats
  GivenFormats <- OneGiven
  DefaultFormat = full
  Erroneous <- OneErroneous
  ItemsOf <- Patterns
  NoLogger = NoLogger
  NoFormat = NoFormat
  NoEvent = NoEvent
  MaxListed = 2
SPECIFICATION Spec
INVARIANTS TypeOK AttachedCanPrint FormatInStep RegistrySound LineTruth PassedIsWritten

SPECIFICATION Spec
CONSTANTS
  Starts <- MCStarts
  Existing <- MCExisting
  MaxNamespaces = 2
  SecretsIn = "n1"
  Plugins <- MCPlugins
  HistorySize = 5
  MaxIssues = 4
  MaxEvents = 4
  MaxLines = 3
  MaxTotalChars = 8
INVARIANTS SummaryAgrees CorrelationComplete MutesHonoured TrendFollows TroubleshootAgrees ReportAgrees ContextFits
CHECK_DEADLOCK FALSE

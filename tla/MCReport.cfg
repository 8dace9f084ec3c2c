SPECIFICATION ReportSpec
CONSTANTS
  Milli = 2
  Codes = {0, 200, 500}
  Commands <- MCCommands
  FileLists <- MCFileLists
  Errors = {"none", "timeout", "500"}
INVARIANTS ReadComplete MetricsExact ExporterAgrees PageSound
PROPERTIES SignalReports

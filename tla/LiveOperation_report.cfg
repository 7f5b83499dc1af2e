SPECIFICATION Spec
CONSTANT MaxFailures = 1
INVARIANT CompleteIsReportable

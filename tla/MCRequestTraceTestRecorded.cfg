CONSTANTS
  Threads = {t1}
  Handles = {h1}
  NullRequest = NullRequest
  Language = "fortran"
  MaxCalls = 3
SPECIFICATION Spec
INVARIANT TestRecorded

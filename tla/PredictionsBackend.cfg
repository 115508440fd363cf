\* A text asked of one backend and then of another.
SPECIFICATION Spec
CONSTANTS
  Calls = {c1, c2}
  Texts = {t1, long}
  TooLong = {long}
  Backends = {mock, onnx}
  Ready = {mock, onnx}
  WholeResults = {mock}
  default_backend = mock
  redis_enabled = TRUE
  Outages = 1
  None = None
CHECK_DEADLOCK FALSE
INVARIANT
  AnswerIsFromBackend

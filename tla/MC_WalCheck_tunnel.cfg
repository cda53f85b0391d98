\* Minio storage whose port forward fails once.
CONSTANTS
  Minio = TRUE
  MaxSegments = 1
  PageSize = 2
  MaxPolls = 1
  MaxErrors = 0
  MaxTunnelErrors = 1
SPECIFICATION Spec
INVARIANT NoNilDereference
CHECK_DEADLOCK FALSE

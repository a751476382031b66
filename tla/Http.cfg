\* Two retries (three attempts per call), two calls, two claims; the
\* gateway answers OK, a retried 5xx or a 5xx that is not retried.
CONSTANTS
  RETRY_COUNT = 2
  MaxCalls = 2
  Statuses <- MCStatuses
  SUCCESS_CODE = OK
  RetryErrorCodes <- MCRetryErrorCodes
  Claims <- MCClaims
  NoClaim = NoClaim
  NoAnswer = NoAnswer
  OK = OK
  BAD_GATEWAY = BAD_GATEWAY
  INTERNAL_SERVER_ERROR = INTERNAL_SERVER_ERROR
  c1 = c1
  c2 = c2
SPECIFICATION Spec
INVARIANT TypeOK
INVARIANT AttemptBudget
PROPERTY CallsEnd
PROPERTY ContractRefinement
\* The committee makes MaxCalls calls and stops.
CHECK_DEADLOCK FALSE

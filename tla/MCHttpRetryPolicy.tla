------------------------- MODULE MCHttpRetryPolicy -------------------------
EXTENDS HttpRetryPolicy

CONSTANTS OK, BAD_GATEWAY, INTERNAL_SERVER_ERROR, c1, c2

\* One representative of retry_error_codes and one status that is neither
\* success_code nor retried.
MCStatuses == {OK, BAD_GATEWAY, INTERNAL_SERVER_ERROR}
MCRetryErrorCodes == {BAD_GATEWAY}
MCClaims == {c1, c2}

=============================================================================

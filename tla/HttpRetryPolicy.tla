-------------------------- MODULE HttpRetryPolicy --------------------------
(***************************************************************************)
(* HttpRetryPolicy.send_http_request (starkware_utils/http_handler.py) as  *)
(* AvailabilityGatewayClient uses it: the committee's calls, one at a time, *)
(* to get_batch_data (GET) and send_signature (POST), against a gateway    *)
(* that records the signatures POSTed to approve_new_roots.                *)
(*                                                                         *)
(* A call makes attempts 0 .. RETRY_COUNT - 1 in the `for` loop and one    *)
(* final attempt RETRY_COUNT.  Every attempt is a new request: requests of *)
(* earlier attempts and calls stay on the network until the gateway (or    *)
(* the proxy before it) handles them or they are lost, and an answer only  *)
(* reaches the attempt that is still waiting for it.                       *)
(***************************************************************************)
EXTENDS Naturals

CONSTANTS
  RETRY_COUNT,      \* retry_count (9 in AvailabilityGatewayClient)
  Statuses,         \* HTTP statuses the gateway or its proxy answer with
  SUCCESS_CODE,     \* success_code, HTTPStatus.OK
  RetryErrorCodes,  \* retry_error_codes: BAD_GATEWAY, SERVICE_UNAVAILABLE, GATEWAY_TIMEOUT
  Claims,           \* the claims send_signature POSTs
  NoClaim,          \* the body of a GET
  NoAnswer,         \* no answer has reached the waiting attempt
  MaxCalls          \* bound on the calls the committee makes

ASSUME RETRY_COUNT \in Nat
ASSUME SUCCESS_CODE \in Statuses /\ RetryErrorCodes \subseteq Statuses \ {SUCCESS_CODE}

Methods == {"GET", "POST"}
Request == [call : 1 .. MaxCalls, attempt : 0 .. RETRY_COUNT, method : Methods,
            claim : Claims \cup {NoClaim}]

VARIABLES
  call,      \* the current (or last) call: method, claim, attempt, pc, answer, error
  net,       \* requests sent and not yet handled or lost
  recorded,  \* the claims the gateway recorded
  calls,     \* number of calls made
  sends      \* history: requests the current call has sent

vars == <<call, net, recorded, calls, sends>>

\* The request of attempt a of the current call.
Req(n, a, c) == [call |-> n, attempt |-> a, method |-> c.method, claim |-> c.claim]

-----------------------------------------------------------------------------

Init ==
  /\ call = [method |-> "GET", claim |-> NoClaim, attempt |-> 0, pc |-> "idle",
             answer |-> NoAnswer, error |-> "none"]
  /\ net = {}
  /\ recorded = {}
  /\ calls = 0
  /\ sends = 0

\* send_http_request: the first attempt is sent.
Invoke(m, c) ==
  /\ call.pc # "waiting"
  /\ calls < MaxCalls
  /\ LET new == [method |-> m, claim |-> c, attempt |-> 0, pc |-> "waiting",
                 answer |-> NoAnswer, error |-> "none"]
     IN /\ call' = new
        /\ net' = net \cup {Req(calls + 1, 0, new)}
  /\ calls' = calls + 1
  /\ sends' = 1
  /\ UNCHANGED recorded

\* AvailabilityGatewayClient.send_signature and get_batch_data.
send_signature(c) == Invoke("POST", c)
get_batch_data == Invoke("GET", NoClaim)

\* retry_exception: BadHttpRequest with a retry code, or asyncio.TimeoutError.
RetryException(ex) == ex = "TimeoutError" \/ ex \in RetryErrorCodes

\* Mutant: the final attempt comes one loop iteration early.
FailOffByOne(ex) ==
  IF call.attempt + 1 = RETRY_COUNT
    THEN /\ call' = [call EXCEPT !.pc = "raised", !.error = "TooManyAttempts"]
         /\ UNCHANGED <<net, sends>>
  ELSE IF RetryException(ex)
    THEN /\ call' = [call EXCEPT !.attempt = @ + 1, !.answer = NoAnswer]
         /\ net' = net \cup {Req(calls, call.attempt + 1, call)}
         /\ sends' = sends + 1
    ELSE /\ call' = [call EXCEPT !.pc = "raised", !.error = "raised"]
         /\ UNCHANGED <<net, sends>>

\* Mutant: the loop has no final attempt and retries without bound.
FailUnbounded(ex) ==
  IF RetryException(ex)
    THEN /\ call' = [call EXCEPT !.attempt = @ + 1, !.answer = NoAnswer]
         /\ net' = net \cup {Req(calls, call.attempt + 1, call)}
         /\ sends' = sends + 1
    ELSE /\ call' = [call EXCEPT !.pc = "raised", !.error = "raised"]
         /\ UNCHANGED <<net, sends>>

\* An attempt raised ex.  In the loop: a retryable exception is logged,
\* timeout_gen(attempt) slept and the next attempt sent; any other is
\* re-raised.  On the final attempt any exception becomes TooManyAttempts.
Fail(ex) ==
  IF call.attempt = RETRY_COUNT
    THEN /\ call' = [call EXCEPT !.pc = "raised", !.error = "TooManyAttempts"]
         /\ UNCHANGED <<net, sends>>
  ELSE IF RetryException(ex)
    THEN /\ call' = [call EXCEPT !.attempt = @ + 1, !.answer = NoAnswer]
         /\ net' = net \cup {Req(calls, call.attempt + 1, call)}
         /\ sends' = sends + 1
    ELSE /\ call' = [call EXCEPT !.pc = "raised", !.error = "raised"]
         /\ UNCHANGED <<net, sends>>

\* Mutant: the status code is not compared with success_code.
ReceiveAnyStatus ==
  /\ call.pc = "waiting"
  /\ call.answer # NoAnswer
  /\ call' = [call EXCEPT !.pc = "returned"]
  /\ UNCHANGED <<net, recorded, calls, sends>>

\* _send_single_http_request gets the answer: success_code returns the text
\* (send_signature then finds "signature accepted"), any other status
\* raises BadHttpRequest.
Receive ==
  /\ call.pc = "waiting"
  /\ call.answer # NoAnswer
  /\ IF call.answer = SUCCESS_CODE
       THEN /\ call' = [call EXCEPT !.pc = "returned"]
            /\ UNCHANGED <<net, sends>>
       ELSE Fail(call.answer)
  /\ UNCHANGED <<recorded, calls>>

\* Mutant: the session has no request timeout.
TimeoutNever == FALSE

\* No answer within http_request_timeout: asyncio.TimeoutError.  The request
\* may still be on its way to the gateway.
Timeout ==
  /\ call.pc = "waiting"
  /\ call.answer = NoAnswer
  /\ Fail("TimeoutError")
  /\ UNCHANGED <<recorded, calls>>

\* Any other exception of the request (aiohttp.ClientError: connection
\* refused or reset) is not retried, even if the request got through.
ConnectionError ==
  /\ call.pc = "waiting"
  /\ call.answer = NoAnswer
  /\ Fail("ClientError")
  /\ UNCHANGED <<recorded, calls>>

\* The gateway handles (or the network loses) request r: a POST it applies
\* records its claim; it answers status (success_code only if applied); the
\* answer reaches the client only if r is the attempt still waiting and
\* the answer is not lost.
Handle(r, applied, status, delivered) ==
  /\ r \in net
  /\ status = SUCCESS_CODE => applied
  /\ net' = net \ {r}
  /\ recorded' = IF applied /\ r.method = "POST" THEN recorded \cup {r.claim} ELSE recorded
  /\ call' = IF delivered /\ call.pc = "waiting" /\ r.call = calls /\ r.attempt = call.attempt
               THEN [call EXCEPT !.answer = status] ELSE call
  /\ UNCHANGED <<calls, sends>>

Next ==
  \/ \E c \in Claims : send_signature(c)
  \/ get_batch_data
  \/ Receive
  \/ Timeout
  \/ ConnectionError
  \/ \E r \in net, applied \in BOOLEAN, status \in Statuses, delivered \in BOOLEAN :
       Handle(r, applied, status, delivered)

\* The client is weakly fair: an answer that arrived is read, and an attempt
\* without one times out after http_request_timeout.  The gateway and the
\* network are not fair.
Fairness == WF_vars(Receive \/ Timeout)

Spec == Init /\ [][Next]_vars /\ Fairness

-----------------------------------------------------------------------------
(* Properties *)

TypeOK ==
  /\ call \in [method : Methods, claim : Claims \cup {NoClaim}, attempt : 0 .. RETRY_COUNT,
               pc : {"idle", "waiting", "returned", "raised"},
               answer : Statuses \cup {NoAnswer}, error : {"none", "raised", "TooManyAttempts"}]
  /\ net \subseteq Request
  /\ recorded \subseteq Claims
  /\ calls \in 0 .. MaxCalls
  /\ sends \in 0 .. RETRY_COUNT + 1

\* Retries are exhausted: a call raises TooManyAttempts only after it sent
\* all retry_count + 1 requests (TypeOK bounds sends by the same number).
AttemptBudget ==
  call.error = "TooManyAttempts" => sends = RETRY_COUNT + 1

\* Every call of send_http_request returns or raises, whatever the gateway
\* answers and whichever requests and answers are lost.
CallsEnd ==
  call.pc = "waiting" ~> call.pc \in {"returned", "raised"}

\* The contract of GatewayContract, seen through the call and the requests
\* still on the network.
Contract == INSTANCE GatewayContract WITH
  status <- IF call.pc = "waiting" THEN "running" ELSE call.pc,
  method <- call.method,
  claim <- call.claim,
  pending <- {r.claim : r \in {q \in net : q.method = "POST"}}
               \cup (IF call.pc = "waiting" /\ call.method = "POST" THEN {call.claim} ELSE {}),
  approved <- recorded

\* send_signature, with retries after timeouts and answers that arrive late
\* or never, implements the contract: a signature it reports as sent was
\* recorded, and only signatures sent are recorded, possibly after a raise.
ContractRefinement == Contract!Spec

=============================================================================

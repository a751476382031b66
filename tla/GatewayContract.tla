-------------------------- MODULE GatewayContract --------------------------
(***************************************************************************)
(* What AvailabilityGatewayClient promises the committee loop, one call at *)
(* a time: a call either returns or raises; a POSTed signature that        *)
(* returned normally has been recorded by the gateway; the gateway records *)
(* only signatures that were sent and may still record one (pending) after *)
(* the call that sent it has raised.                                       *)
(***************************************************************************)
CONSTANTS
  Claims,   \* the signed availability claims a POST carries
  NoClaim   \* the body of a GET

Methods == {"GET", "POST"}

VARIABLES
  status,    \* "idle", "running", "returned" or "raised"
  method,    \* the method of the current (or last) call
  claim,     \* its claim
  pending,   \* claims sent that the gateway may still record
  approved   \* claims the gateway recorded

avars == <<status, method, claim, pending, approved>>

Init ==
  /\ status = "idle"
  /\ method = "GET"
  /\ claim = NoClaim
  /\ pending = {}
  /\ approved = {}

Call(m, c) ==
  /\ status # "running"
  /\ status' = "running"
  /\ method' = m
  /\ claim' = c
  /\ pending' = IF m = "POST" THEN pending \cup {c} ELSE pending
  /\ UNCHANGED approved

\* The gateway records a pending claim; any pending request may be used up.
Record(c) ==
  /\ c \in pending
  /\ approved' = approved \cup {c}
  /\ pending' \subseteq pending
  /\ UNCHANGED <<status, method, claim>>

\* Requests are lost.
Forget ==
  /\ pending' \subseteq pending
  /\ UNCHANGED <<status, method, claim, approved>>

\* A POST returns normally only once its claim is recorded.
Return ==
  /\ status = "running"
  /\ method = "POST" => claim \in approved
  /\ status' = "returned"
  /\ pending' \subseteq pending
  /\ UNCHANGED <<method, claim, approved>>

Raise ==
  /\ status = "running"
  /\ status' = "raised"
  /\ pending' \subseteq pending
  /\ UNCHANGED <<method, claim, approved>>

Next ==
  \/ \E m \in Methods, c \in Claims \cup {NoClaim} : Call(m, c)
  \/ \E c \in Claims : Record(c)
  \/ Forget
  \/ Return
  \/ Raise

Spec == Init /\ [][Next]_avars

=============================================================================

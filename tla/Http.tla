-------------------------------- MODULE Http --------------------------------
(***************************************************************************)
(* kst::http::get: one blocking transfer.  libcurl and the servers are       *)
(* external: they redirect, answer, send, stall and break as they like; what *)
(* the code adds are the limits it sets, the sink, and its reading of how     *)
(* the transfer ended.  Sizes are in pieces as write_cb is handed them.      *)
(***************************************************************************)
EXTENDS Integers

CONSTANTS max_response_bytes, max_redirects,  \* http::Limits
          MaxSent                             \* bound on what a server sends

ASSUME HttpAssumption == {max_response_bytes, max_redirects, MaxSent} \subseteq Nat

VARIABLES
    transfer,   \* "connecting", "receiving", "answered", or the error returned
    status,     \* the last response's, 0 before
    redirects,  \* followed so far
    sent,       \* history: what the server that answered has sent
    sink        \* the size of sink.body

http == <<transfer, status, redirects, sent, sink>>

Underway == {"connecting", "receiving"}

HttpInit ==
    /\ transfer = "connecting"
    /\ status = 0
    /\ redirects = 0
    /\ sent = 0
    /\ sink = 0

\* The handle and the sink go when get returns.
HttpLeft ==
    /\ transfer' = "connecting"
    /\ status' = 0
    /\ redirects' = 0
    /\ sent' = 0
    /\ sink' = 0

\* Bounded, and never off HTTPS.
Redirect(scheme) ==
    /\ transfer = "connecting"
    /\ IF scheme # "https" \/ redirects = max_redirects
         THEN transfer' = "redirect" /\ UNCHANGED redirects
         ELSE redirects' = redirects + 1 /\ UNCHANGED transfer
    /\ UNCHANGED <<status, sent, sink>>

Respond(code) ==
    /\ transfer = "connecting"
    /\ transfer' = "receiving"
    /\ status' = code
    /\ UNCHANGED <<redirects, sent, sink>>

\* Refusing a piece aborts the transfer; an error's body is measured as well.
write_cb(n) ==
    /\ transfer = "receiving" /\ status # 204
    /\ sent + n <= MaxSent
    /\ sent' = sent + n
    /\ IF sink + n > max_response_bytes
         THEN transfer' = "overflow" /\ UNCHANGED sink
         ELSE sink' = sink + n /\ UNCHANGED transfer
    /\ UNCHANGED <<status, redirects>>

\* Anything up to a timeout, at any moment.
TransferFails ==
    /\ transfer \in Underway
    /\ transfer' = "transfer"
    /\ UNCHANGED <<status, redirects, sent, sink>>

TransferEnds ==
    /\ transfer = "receiving"
    /\ transfer' = IF status < 200 \/ status >= 300 THEN "status" ELSE "answered"
    /\ UNCHANGED <<status, redirects, sent, sink>>

HttpNext ==
    \/ \E scheme \in {"https", "http"} : Redirect(scheme)
    \/ \E code \in {200, 204, 503} : Respond(code)
    \/ \E n \in {1, 2} : write_cb(n)
    \/ TransferFails
    \/ TransferEnds
=============================================================================

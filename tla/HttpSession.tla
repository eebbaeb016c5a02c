------------------------------ MODULE HttpSession ------------------------------
(* An HTTP request on its own connection (http::Session and http::Response of *)
(* net/HttpRequest.hpp): how it gets connected, is written, answered, timed   *)
(* out or cut off, and when its owner is told that it has finished.           *)

NoSession ==
  [phase |-> "none", state |-> "New", sent |-> FALSE]

Sessions ==
  [phase : {"none", "connecting", "failed", "connected", "closed"},
   state : {"New", "Incomplete", "Complete", "Timeout", "Error"},
   sent : BOOLEAN]

(* The request is set up and the connection is made in another thread.        *)
AsyncRequest == [phase |-> "connecting", state |-> "New", sent |-> FALSE]

(* Only a handler for failed connections is told of it: the response is not   *)
(* finished, and what is not polled has no timeout.                           *)
AsyncConnectFailed(h) == [h EXCEPT !.phase = "failed"]

AsyncConnectSuccess(h) == [h EXCEPT !.phase = "connected"]

PerformWrites(h) == [h EXCEPT !.sent = TRUE]

Done(h) == h.state \in {"Complete", "Timeout", "Error"}

(* The owner is told once, when the response gets its final state.            *)
Finish(h, state) == IF Done(h) THEN h ELSE [h EXCEPT !.state = state]

OnDisconnect(h) == [Finish(h, "Error") EXCEPT !.phase = "closed"]

CheckTimeout(h) == OnDisconnect(Finish(h, "Timeout"))

(* A part of the response: more is expected, it is the last, or it cannot be  *)
(* parsed.                                                                    *)
ReadData(h, part) ==
  LET reading == [h EXCEPT !.state = "Incomplete"]
  IN  CASE part = "some" -> reading
        [] part = "last" -> [Finish(reading, "Complete") EXCEPT !.phase = "closed"]
        [] part = "malformed" -> OnDisconnect(reading)
=============================================================================

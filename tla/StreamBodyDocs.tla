--------------------------- MODULE StreamBodyDocs ---------------------------
(***************************************************************************)
(* A sentence about the total timeout that counts it from the headers.     *)
(* age is the time since the headers of the running attempt, counted up to *)
(* the total timeout.                                                      *)
(***************************************************************************)
EXTENDS StreamBody

VARIABLE age

dvars == <<vars, age>>

DInit == Init /\ age = 0

\* The steps of an attempt, the clock, and what happens around it.
DNext ==
    \/ /\ \/ Request \/ Headers \/ NoHeaders \/ SendFails
          \/ Poll \/ CloseFailed \/ HangUp
       /\ age' = IF pc' = "idle" THEN 0 ELSE age
    \/ /\ StopReading \/ ReadAgain \/ Send \/ Finish \/ Stall
       /\ UNCHANGED age
    \/ /\ Tick
       /\ age' = IF Streaming /\ age < total THEN age + 1 ELSE age

DSpec == DInit /\ [][DNext]_dvars

\* What the comment on stream_timeout_secs says: "Max total time for the
\* response body after headers (seconds)".  The deadline is counted from the
\* sending of the request, so that a late answer leaves its body less.
TotalAfterHeaders == error = "total" => age >= total
=============================================================================

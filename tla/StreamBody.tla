----------------------------- MODULE StreamBody -----------------------------
(***************************************************************************)
(* One attempt of forward_once from the sending of the request to the end  *)
(* of the body (src/proxy.rs 303-433), in discrete time: the wait for the  *)
(* headers, and the generator the server polls for the body, with its idle *)
(* timeout and its total deadline.                                         *)
(*                                                                         *)
(* Time is kept as what is left of each limit, which makes it finite       *)
(* without a bound: a tick takes one unit off every running clock.  Ticks  *)
(* come at any moment, also between two lines of the generator, so that    *)
(* nothing here rests on a task being woken in time.                       *)
(*                                                                         *)
(* The server polls the body while the client reads.  A client that stops  *)
(* reading leaves the generator where it is, its timers unread.            *)
(***************************************************************************)
EXTENDS Integers

CONSTANTS IdleSecs,      \* values of stream_idle_timeout_secs to configure
          TotalSecs,     \* values of stream_timeout_secs to configure
          HeaderTimeout, \* timeout_secs
          Window         \* chunks the transport buffers for the proxy

ASSUME LimitAssumption ==
    /\ IdleSecs \subseteq Nat
    /\ TotalSecs \subseteq Nat
    /\ HeaderTimeout \in Nat \ {0}
    /\ Window \in Nat \ {0}

VARIABLES idle,     \* the idle timeout, or None
          total,    \* the total timeout, or None
          pc,       \* where the attempt is
          left,     \* time left until the deadline, or None
          timer,    \* time left of the wait that is armed, or None
          polling,  \* the client reads, so the server polls the body
          buffered, \* chunks that arrived and were not passed on
          fate,     \* how the upstream's stream went on: open, end, error
          mute,     \* the upstream has stalled for good
          silent,   \* time since something arrived, counted up to idle
          late,     \* chunks passed on after the deadline
          error     \* the error the body ended with

config == <<idle, total>>
upstream == <<buffered, fate, mute>>
vars == <<config, pc, left, timer, polling, upstream, silent, late, error>>

None == -1

\* 0 disables a limit.
Limit(secs) == IF secs > 0 THEN secs ELSE None

\* A deadline that keeps running after it has passed, as a plain difference of
\* two instants would.
Dec_unsaturated(t) == IF t # None THEN t - 1 ELSE None

\* One unit of time off a clock; None and an expired clock stay as they are.
Dec(t) == IF t > 0 THEN t - 1 ELSE t

Streaming == pc \in {"resumed", "checked", "waiting", "failed"}

Init ==
    /\ \E secs \in IdleSecs : idle = Limit(secs)
    /\ \E secs \in TotalSecs : total = Limit(secs)
    /\ pc = "idle"
    /\ left = None /\ timer = None
    /\ polling = TRUE
    /\ buffered = 0 /\ fate = "open" /\ mute = FALSE
    /\ silent = 0 /\ late = 0
    /\ error = "none"

-----------------------------------------------------------------------------
(* Up to the headers.                                                      *)

\* The request is sent without the header timeout around it.
Request_untimed ==
    /\ pc = "idle"
    /\ pc' = "headers"
    /\ left' = total /\ timer' = None
    /\ UNCHANGED <<config, polling, upstream, silent, late, error>>

\* The request is sent: this is the moment the deadline counts from.
Request ==
    /\ pc = "idle"
    /\ pc' = "headers"
    /\ left' = total /\ timer' = HeaderTimeout
    /\ UNCHANGED <<config, polling, upstream, silent, late, error>>

Headers ==
    /\ pc = "headers" /\ ~mute
    /\ pc' = "resumed"
    /\ timer' = None
    /\ UNCHANGED <<config, left, polling, upstream, silent, late, error>>

\* The attempt is over, in whatever way, and all of its state gone.
Over ==
    /\ pc' = "idle"
    /\ left' = None /\ timer' = None
    /\ polling' = TRUE
    /\ buffered' = 0 /\ fate' = "open" /\ mute' = FALSE
    /\ silent' = 0 /\ late' = 0
    /\ error' = "none"
    /\ UNCHANGED config

NoHeaders == pc = "headers" /\ timer = 0 /\ Over

\* The request cannot be sent, or the connection breaks before the headers.
SendFails == pc = "headers" /\ Over

-----------------------------------------------------------------------------
(* The generator.  After an error the server does not poll it again, so    *)
(* that its last lines run only when the upstream's stream has ended.      *)

YieldError(kind) ==
    /\ pc' = "failed"
    /\ error' = kind
    /\ timer' = None
    /\ UNCHANGED <<config, left, polling, upstream, silent, late>>

\* The deadline is enforced by the timer of the wait alone.
PastDeadline_unchecked == FALSE

PastDeadline == left = 0

\* A limit holds only when both are configured.
Shorter_both(a, b) ==
    IF a = None \/ (b # None /\ a <= b) THEN a ELSE b

\* The smaller of two limits either of which may be absent.
Shorter(a, b) ==
    IF a = None \/ (b # None /\ b <= a) THEN b ELSE a

\* The loop begins when the server polls: for the first time, or after a chunk.
Check ==
    /\ pc = "resumed" /\ polling
    /\ IF PastDeadline
       THEN YieldError("total")
       ELSE /\ pc' = "checked"
            /\ UNCHANGED <<config, left, timer, polling, upstream, silent,
                           late, error>>

\* The wait is computed from another reading of the clock than the check.
Arm ==
    /\ pc = "checked"
    /\ IF PastDeadline
       THEN YieldError("total")
       ELSE /\ pc' = "waiting"
            /\ timer' = Shorter(idle, left)
            /\ UNCHANGED <<config, left, polling, upstream, silent, late,
                           error>>

\* What arrived is taken first, even when the timer has expired meanwhile.
PassOn ==
    /\ pc = "waiting" /\ polling /\ buffered > 0
    /\ pc' = "resumed"
    /\ buffered' = buffered - 1
    /\ timer' = None
    /\ late' = IF left = 0 THEN late + 1 ELSE late
    /\ UNCHANGED <<config, left, polling, fate, mute, silent, error>>

End ==
    /\ pc = "waiting" /\ polling /\ buffered = 0 /\ fate = "end"
    /\ Over

UpstreamError ==
    /\ pc = "waiting" /\ polling /\ buffered = 0 /\ fate = "error"
    /\ YieldError("upstream")

TimeoutKind == IF left = 0 THEN "total" ELSE "idle"

\* The timer looked at before the stream.
Expire_biased ==
    /\ pc = "waiting" /\ polling /\ timer = 0
    /\ YieldError(TimeoutKind)

Expire ==
    /\ pc = "waiting" /\ polling /\ timer = 0
    /\ buffered = 0 /\ fate = "open"
    /\ YieldError(TimeoutKind)

Poll == Check \/ Arm \/ PassOn \/ End \/ UpstreamError \/ Expire

\* The server closes the connection of a body that reported an error.
CloseFailed == pc = "failed" /\ Over

-----------------------------------------------------------------------------
(* The client, the upstream, and time.                                     *)

\* The handler's future, or the body, is dropped.
HangUp == pc \notin {"idle", "failed"} /\ Over

StopReading ==
    /\ pc \in {"resumed", "waiting"} /\ polling
    /\ polling' = FALSE
    /\ UNCHANGED <<config, pc, left, timer, upstream, silent, late, error>>

ReadAgain ==
    /\ ~polling /\ Streaming
    /\ polling' = TRUE
    /\ UNCHANGED <<config, pc, left, timer, upstream, silent, late, error>>

Live == Streaming /\ error = "none" /\ fate = "open"

Send ==
    /\ Live /\ ~mute /\ buffered < Window
    /\ buffered' = buffered + 1
    /\ silent' = 0
    /\ UNCHANGED <<config, pc, left, timer, polling, fate, mute, late, error>>

\* The upstream's stream ends, or its connection breaks.
Finish ==
    /\ Live
    /\ \/ fate' = "end" /\ ~mute
       \/ fate' = "error"
    /\ UNCHANGED <<config, pc, left, timer, polling, buffered, mute, silent,
                   late, error>>

Stall ==
    /\ pc = "headers" \/ Live
    /\ ~mute
    /\ mute' = TRUE
    /\ UNCHANGED <<config, pc, left, timer, polling, buffered, fate, silent,
                   late, error>>

Tick ==
    /\ pc # "idle"
    /\ left' = Dec(left)
    /\ timer' = Dec(timer)
    /\ silent' = IF Streaming /\ silent < idle THEN silent + 1 ELSE silent
    /\ UNCHANGED <<config, pc, polling, upstream, late, error>>

Next ==
    \/ Request \/ Headers \/ NoHeaders \/ SendFails
    \/ Poll \/ CloseFailed
    \/ HangUp \/ StopReading \/ ReadAgain
    \/ Send \/ Finish \/ Stall
    \/ Tick

Spec == Init /\ [][Next]_vars

\* Time passes, a polled task is run, an expired header timeout wakes the
\* handler, and the server closes what failed.  Nothing is assumed of the
\* client or of the upstream.
FairSpec ==
    /\ Spec
    /\ WF_vars(Tick) /\ WF_vars(Poll)
    /\ WF_vars(NoHeaders) /\ WF_vars(CloseFailed)

-----------------------------------------------------------------------------
\* Types; in particular no clock runs below zero, and there is a deadline just
\* when one is configured.
TypeOK ==
    /\ idle \in Nat \cup {None} /\ idle # 0
    /\ total \in Nat \cup {None} /\ total # 0
    /\ pc \in {"idle", "headers", "resumed", "checked", "waiting", "failed"}
    /\ left \in Nat \cup {None}
    /\ timer \in Nat \cup {None}
    /\ pc # "idle" => (left = None <=> total = None)
    /\ polling \in BOOLEAN
    /\ buffered \in 0..Window
    /\ fate \in {"open", "end", "error"}
    /\ mute \in BOOLEAN
    /\ silent \in Nat
    /\ late \in Nat
    /\ error \in {"none", "idle", "total", "upstream"}

\* However long the client pauses and however much has arrived meanwhile, at
\* most one chunk is passed on after the deadline: the one a wait was already
\* armed for when the deadline passed.
AtMostOneLate == late <= 1

\* An idle timeout means that the upstream was silent for the whole idle time.
\* A client that pauses never causes one: what arrived during the pause is
\* passed on first, and the next wait begins anew.
IdleMeansSilence == error = "idle" => idle # None /\ silent >= idle

\* The wait for headers ends, whatever the upstream does.  (Proxy assumes it.)
HeaderWaitEnds == pc = "headers" ~> pc # "headers"

\* A body with a total timeout ends if the client goes on reading, also when
\* the upstream sends for ever.
DeadlineEnds ==
    <>[]polling => [](Streaming /\ total # None => <>(~Streaming))

\* A body with an idle timeout ends if the client goes on reading and the
\* upstream has stalled.
SilenceEnds ==
    <>[]polling => [](Streaming /\ idle # None /\ mute => <>(~Streaming))
=============================================================================

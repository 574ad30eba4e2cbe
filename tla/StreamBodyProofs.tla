-------------------------- MODULE StreamBodyProofs --------------------------
(***************************************************************************)
(* StreamBody for all limits and every window: at most one chunk passes    *)
(* after the deadline, and an idle timeout means silence.                  *)
(***************************************************************************)
EXTENDS StreamBody, TLAPS

\* An error is there just while the body has failed, and nothing is counted
\* late before the streaming begins.
FailedInv ==
    /\ error # "none" <=> pc = "failed"
    /\ error # "none" => error \in {"idle", "total", "upstream"}

\* After a late chunk the next look at the clock ends the body.
LateInv == late = 0 \/ (late = 1 /\ pc \in {"resumed", "failed"} /\ left = 0)

\* An armed wait runs out with the deadline, or it cannot run out before the
\* upstream has been silent for the idle time, unless a chunk has arrived.
ByDeadline == left # None /\ timer = left
BySilence == idle # None /\ (buffered = 0 => silent + timer >= idle)
TimerInv == pc = "waiting" /\ timer # None => ByDeadline \/ BySilence

Inv == TypeOK /\ FailedInv /\ LateInv /\ TimerInv /\ IdleMeansSilence

-----------------------------------------------------------------------------
\* Of two limits the shorter is one of them, and there is one if either is.
LEMMA ShorterIsOne ==
    ASSUME NEW a \in Nat \cup {None}, NEW b \in Nat \cup {None}
    PROVE  /\ Shorter(a, b) \in Nat \cup {None}
           /\ Shorter(a, b) \in {a, b}
           /\ Shorter(a, b) # None => (a = None => Shorter(a, b) = b)
    BY DEF Shorter, None

\* A clock never runs below zero, and none stays none.
LEMMA DecType ==
    ASSUME NEW t \in Nat \cup {None}
    PROVE  /\ Dec(t) \in Nat \cup {None}
           /\ Dec(t) = None <=> t = None
           /\ t # None => Dec(t) <= t /\ Dec(t) + 1 >= t
           /\ t = 0 => Dec(t) = 0
    BY DEF Dec, None

\* A configured limit is never 0.
LEMMA LimitType ==
    ASSUME NEW secs \in Nat
    PROVE  Limit(secs) \in Nat \cup {None} /\ Limit(secs) # 0
    BY DEF Limit, None

LEMMA InitInv == Init => Inv
<1> SUFFICES ASSUME Init PROVE Inv
    OBVIOUS
<1>1. /\ idle \in Nat \cup {None} /\ idle # 0
      /\ total \in Nat \cup {None} /\ total # 0
    BY LimitAssumption, LimitType DEF Init
<1>2. buffered \in 0..Window
    BY LimitAssumption DEF Init
<1>3. TypeOK
    BY <1>1, <1>2 DEF Init, TypeOK, None
<1> QED BY <1>3 DEF Init, Inv, FailedInv, LateInv, TimerInv, IdleMeansSilence

\* What is gone with an attempt leaves the invariant for the next one.
LEMMA OverStep == Inv /\ Over => Inv'
<1> SUFFICES ASSUME Inv, Over PROVE Inv'
    OBVIOUS
<1>1. buffered' \in 0..Window
    BY LimitAssumption DEF Over
<1>2. TypeOK'
    BY <1>1 DEF Inv, Over, TypeOK, config, None
<1> QED BY <1>2 DEF Over, Inv, FailedInv, LateInv, TimerInv, IdleMeansSilence,
                    config

\* A reported error keeps the invariant when an idle timeout is justified.
LEMMA YieldStep ==
    ASSUME Inv, NEW kind \in {"idle", "total", "upstream"}, YieldError(kind),
           pc \notin {"idle", "failed"},
           kind = "idle" => idle # None /\ silent >= idle,
           late = 0 \/ left = 0
    PROVE  Inv'
<1>1. TypeOK'
    BY DEF Inv, YieldError, TypeOK, config, upstream, None
<1>2. FailedInv' /\ LateInv' /\ TimerInv' /\ IdleMeansSilence'
    BY DEF Inv, YieldError, FailedInv, LateInv, TimerInv, IdleMeansSilence,
           TypeOK, config, upstream
<1> QED BY <1>1, <1>2 DEF Inv

-----------------------------------------------------------------------------
\* The inductive step.
LEMMA InvStep == Inv /\ [Next]_vars => Inv'
<1> SUFFICES ASSUME Inv, [Next]_vars
             PROVE  Inv'
    OBVIOUS
<1> USE DEF config, upstream
<1>0. TypeOK /\ FailedInv /\ LateInv /\ TimerInv /\ IdleMeansSilence
    BY DEF Inv
<1>1. CASE Request
    <2>1. TypeOK'
        BY <1>0, <1>1, LimitAssumption DEF Request, TypeOK, None
    <2> QED BY <1>0, <1>1, <2>1 DEF Request, Inv, FailedInv, LateInv, TimerInv,
                                    IdleMeansSilence
<1>2. CASE Headers
    <2>1. TypeOK'
        BY <1>0, <1>2 DEF Headers, TypeOK, None
    <2> QED BY <1>0, <1>2, <2>1 DEF Headers, Inv, FailedInv, LateInv, TimerInv,
                                    IdleMeansSilence
<1>3. CASE NoHeaders \/ SendFails \/ End \/ CloseFailed \/ HangUp
    BY <1>3, OverStep DEF NoHeaders, SendFails, End, CloseFailed, HangUp
<1>4. CASE Check
    <2>1. CASE PastDeadline
        BY <1>0, <1>4, <2>1, YieldStep DEF Check, PastDeadline
    <2>2. CASE ~PastDeadline
        <3>1. TypeOK'
            BY <1>0, <1>4, <2>2 DEF Check, TypeOK, None
        <3> QED BY <1>0, <1>4, <2>2, <3>1
                DEF Check, PastDeadline, Inv, FailedInv, LateInv, TimerInv,
                    IdleMeansSilence
    <2> QED BY <2>1, <2>2
<1>5. CASE Arm
    <2>1. CASE PastDeadline
        BY <1>0, <1>5, <2>1, YieldStep DEF Arm, PastDeadline
    <2>2. CASE ~PastDeadline
        <3>1. /\ timer' = Shorter(idle, left)
              /\ pc' = "waiting" /\ pc = "checked"
              /\ UNCHANGED <<config, left, polling, upstream, silent, late,
                             error>>
            BY <1>5, <2>2 DEF Arm
        <3>2. /\ timer' \in Nat \cup {None}
              /\ timer' \in {idle, left}
              /\ timer' # None /\ idle = None => timer' = left
            BY <1>0, <3>1, ShorterIsOne DEF TypeOK
        <3>3. TypeOK'
            BY <1>0, <3>1, <3>2 DEF TypeOK
        <3>4. TimerInv'
            BY <1>0, <3>1, <3>2 DEF TypeOK, TimerInv, ByDeadline, BySilence,
                                    None
        <3> QED BY <1>0, <3>1, <3>3, <3>4
                DEF Inv, FailedInv, LateInv, IdleMeansSilence
    <2> QED BY <2>1, <2>2
<1>6. CASE PassOn
    <2>1. TypeOK'
        BY <1>0, <1>6, LimitAssumption DEF PassOn, TypeOK, None
    <2> QED BY <1>0, <1>6, <2>1 DEF PassOn, Inv, FailedInv, LateInv, TimerInv,
                                    IdleMeansSilence
<1>7. CASE UpstreamError
    BY <1>0, <1>7, YieldStep DEF UpstreamError, LateInv
<1>8. CASE Expire
    <2>1. pc = "waiting" /\ timer = 0 /\ buffered = 0 /\ YieldError(TimeoutKind)
        BY <1>8 DEF Expire
    <2>2. left # 0 => idle # None /\ silent >= idle
        BY <1>0, <2>1 DEF TimerInv, ByDeadline, BySilence, TypeOK, None
    <2> QED BY <1>0, <2>1, <2>2, YieldStep DEF TimeoutKind, LateInv
<1>9. CASE StopReading \/ ReadAgain
    <2>1. TypeOK'
        BY <1>0, <1>9 DEF StopReading, ReadAgain, TypeOK
    <2> QED BY <1>0, <1>9, <2>1
            DEF StopReading, ReadAgain, Inv, FailedInv, LateInv, TimerInv,
                ByDeadline, BySilence, IdleMeansSilence
<1>10. CASE Send
    <2>1. TypeOK'
        BY <1>0, <1>10, LimitAssumption DEF Send, TypeOK
    <2>2. TimerInv'
        BY <1>0, <1>10 DEF Send, TypeOK, TimerInv, ByDeadline, BySilence
    <2> QED BY <1>0, <1>10, <2>1, <2>2
            DEF Send, Live, Inv, FailedInv, LateInv, IdleMeansSilence
<1>11. CASE Finish \/ Stall
    <2>1. TypeOK'
        BY <1>0, <1>11 DEF Finish, Stall, TypeOK
    <2> QED BY <1>0, <1>11, <2>1
            DEF Finish, Stall, Inv, FailedInv, LateInv, TimerInv, ByDeadline,
                BySilence, IdleMeansSilence
<1>12. CASE Tick
    <2>1. /\ left' = Dec(left) /\ timer' = Dec(timer)
          /\ silent' \in {silent, silent + 1}
          /\ Streaming /\ silent < idle => silent' = silent + 1
          /\ UNCHANGED <<config, pc, polling, upstream, late, error>>
        BY <1>12 DEF Tick
    <2>2. TypeOK'
        BY <1>0, <2>1, DecType DEF TypeOK
    <2>3. LateInv'
        BY <1>0, <2>1, DecType DEF LateInv, TypeOK
    <2>4. ASSUME pc = "waiting", timer # None
          PROVE  ByDeadline' \/ BySilence'
        <3>1. CASE ByDeadline
            BY <1>0, <2>1, <3>1, DecType DEF ByDeadline, TypeOK
        <3>2. CASE BySilence
            <4>1. timer \in Nat /\ Dec(timer) \in Nat /\ Dec(timer) + 1 >= timer
                BY <1>0, <2>4, DecType DEF TypeOK, None
            <4>2. silent < idle => silent' = silent + 1
                BY <2>1, <2>4 DEF Streaming
            <4>3. idle \in Nat /\ silent \in Nat /\ silent' \in Nat
                BY <1>0, <2>2, <3>2 DEF BySilence, TypeOK
            <4>4. buffered = 0 => silent' + Dec(timer) >= idle
                BY <2>1, <3>2, <4>1, <4>2, <4>3 DEF BySilence
            <4> QED BY <2>1, <3>2, <4>4 DEF BySilence
        <3> QED BY <1>0, <2>4, <3>1, <3>2 DEF TimerInv
    <2>5. TimerInv'
        BY <1>0, <2>1, <2>4, DecType DEF TimerInv, TypeOK
    <2>6. FailedInv' /\ IdleMeansSilence'
        BY <1>0, <2>1 DEF FailedInv, IdleMeansSilence, TypeOK
    <2> QED BY <2>2, <2>3, <2>5, <2>6 DEF Inv
<1>13. CASE UNCHANGED vars
    BY <1>0, <1>13 DEF vars, Inv, TypeOK, FailedInv, LateInv, TimerInv,
                       ByDeadline, BySilence, IdleMeansSilence
<1> QED BY <1>1, <1>2, <1>3, <1>4, <1>5, <1>6, <1>7, <1>8, <1>9, <1>10, <1>11,
           <1>12, <1>13 DEF Next, Poll

\* Inv holds in every state.
THEOREM Invariance == Spec => []Inv
    BY InitInv, InvStep, PTL DEF Spec

\* All state keeps its type, and no clock runs below zero.
THEOREM TypeCorrect == Spec => []TypeOK
<1>1. Inv => TypeOK
    BY DEF Inv
<1> QED BY <1>1, Invariance, PTL

\* At most one chunk is passed on after the deadline, whatever the limits and
\* however long the client pauses.
THEOREM OneLateAtMost == Spec => []AtMostOneLate
<1>1. Inv => AtMostOneLate
    BY DEF Inv, LateInv, AtMostOneLate
<1> QED BY <1>1, Invariance, PTL

\* An idle timeout means that the upstream was silent for the idle time,
\* whatever the limits.
THEOREM IdleIsSilence == Spec => []IdleMeansSilence
<1>1. Inv => IdleMeansSilence
    BY DEF Inv
<1> QED BY <1>1, Invariance, PTL
=============================================================================

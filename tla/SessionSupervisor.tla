------------------------- MODULE SessionSupervisor -------------------------
(***************************************************************************)
(* The per-session reconnect loop of ConnectionManager                     *)
(* (src/src/connection_manager.rs): manage_symbol_session drives one       *)
(* attempt after another of connect_to_symbol_session, emits a             *)
(* ConnectionStatus event (send_connection_event) at each step it reports, *)
(* sleeps calculate_backoff_delay between attempts and gives up after      *)
(* MAX_RETRY_COUNT failed attempts.  ConnectionManager::run spawns one     *)
(* such task per configured session and returns once all of them have     *)
(* returned; main then ends the process.  Without a symbol configuration   *)
(* run spawns manage_exchange_connection per enabled exchange instead: the *)
(* same loop without any ConnectionStatus event.                           *)
(*                                                                         *)
(* Frames that do not change the supervisor's state (Text/Binary frames    *)
(* handed to the pipeline, Pong, raw Frame, a Ping answered successfully)  *)
(* are left to the Feeder module, which composes this loop with the        *)
(* packet pipeline.                                                        *)
(***************************************************************************)
EXTENDS Integers, Sequences, SequencesExt

CONSTANTS
    Sessions,       \* the configured (exchange, symbol group) sessions
    MaxRetry,       \* MAX_RETRY_COUNT in manage_symbol_session
    Args            \* command lines the process may be started with

ASSUME Sessions # {} /\ MaxRetry \in Nat \ {0}

\* ConnectionStatus codes of events.rs.
DISCONNECTED == 0
CONNECTING   == 1
CONNECTED    == 2
RECONNECTING == 3
FAILED       == 4

\* The payload of a ConnectionStatus event, as send_connection_event fills
\* it (exchange_id and error_code are constant per session and left out).
Event(prev, cur, rc) == [prev |-> prev, cur |-> cur, retry |-> rc]

VARIABLES
    phase,      \* where each session task is in its loop
    retry,      \* retry_count of manage_symbol_session
    events,     \* ConnectionStatus events each session has emitted, in order
    sleeps,     \* the backoff delays (ms) each session has slept, in order
    attempts,   \* history: for each finished attempt, whether the handshake
                \* had succeeded before it ended
    exitCode,   \* Running until main returns, then the process exit status
    exitBy,     \* which arm of async_main's select! ended it, once it ended
    args,       \* std::env::args() of the process
    symbolConfig \* whether run found a symbol configuration (per-session loop)

vars == <<phase, retry, events, sleeps, attempts, exitCode, exitBy, args, symbolConfig>>

Phases == {"Start", "Connecting", "Streaming", "Backoff", "Failed"}

\* exitCode while the process has not exited.
Running == -1

-----------------------------------------------------------------------------
MinNat(a, b) == IF a < b THEN a ELSE b

\* Mutation: the 60 s ceiling of the delay is forgotten.
BackoffDelayNoCap(k) == IF k = 0 THEN 1000 ELSE 1000 * 2 ^ MinNat(k, 6)

\* calculate_backoff_delay(retry_count): the delay in milliseconds.
BackoffDelay(k) == IF k = 0 THEN 1000 ELSE MinNat(1000 * 2 ^ MinNat(k, 6), 60000)

\* Mutation: the give-up test is `retry_count > MAX_RETRY_COUNT`.
GivesUpLate(rc) == rc > MaxRetry

\* The give-up test `retry_count >= MAX_RETRY_COUNT`.
GivesUp(rc) == rc >= MaxRetry

\* Mutation: the backoff delay is slept before the exhaustion test.
AttemptFailedSleepsFirst(s, pre) ==
    LET rc == retry[s] + 1
        Reported(evs) == IF symbolConfig THEN evs ELSE <<>>
    IN
    /\ retry' = [retry EXCEPT ![s] = rc]
    /\ attempts' = [attempts EXCEPT ![s] = Append(@, phase[s] = "Streaming")]
    /\ sleeps' = [sleeps EXCEPT ![s] = Append(@, BackoffDelay(rc - 1))]
    /\ IF GivesUp(rc)
       THEN /\ events' = [events EXCEPT ![s] = @ \o Reported(pre \o <<Event(RECONNECTING, FAILED, rc)>>)]
            /\ phase' = [phase EXCEPT ![s] = "Failed"]
       ELSE /\ events' = [events EXCEPT ![s] = @ \o Reported(pre \o <<Event(CONNECTED, RECONNECTING, rc)>>)]
            /\ phase' = [phase EXCEPT ![s] = "Backoff"]
    /\ UNCHANGED <<exitCode, exitBy, args, symbolConfig>>

\* The Err arm of manage_symbol_session, entered with the events `pre` that
\* connect_to_symbol_session emitted on its way out.  retry_count is
\* incremented; on exhaustion a FAILED event is sent and the task returns,
\* otherwise a RECONNECTING event is sent and the task sleeps.  The Err arm
\* of manage_exchange_connection is the same without the events.
AttemptFailed(s, pre) ==
    LET rc == retry[s] + 1
        Reported(evs) == IF symbolConfig THEN evs ELSE <<>>
    IN
    /\ retry' = [retry EXCEPT ![s] = rc]
    /\ attempts' = [attempts EXCEPT ![s] = Append(@, phase[s] = "Streaming")]
    /\ IF GivesUp(rc)
       THEN /\ events' = [events EXCEPT ![s] = @ \o Reported(pre \o <<Event(RECONNECTING, FAILED, rc)>>)]
            /\ phase' = [phase EXCEPT ![s] = "Failed"]
            /\ UNCHANGED sleeps
       ELSE /\ events' = [events EXCEPT ![s] = @ \o Reported(pre \o <<Event(CONNECTED, RECONNECTING, rc)>>)]
            /\ sleeps' = [sleeps EXCEPT ![s] = Append(@, BackoffDelay(rc - 1))]
            /\ phase' = [phase EXCEPT ![s] = "Backoff"]
    /\ UNCHANGED <<exitCode, exitBy, args, symbolConfig>>

\* parse_timeout_arg (main.rs): the first argument after the program
\* name, parsed as u64 (an optional '+', then ASCII digits; the command
\* lines checked carry no value near 2^64), is the run duration in
\* seconds when it is positive; otherwise there is no timer.
NoTimeout == -1

Digits == "0123456789"
IsDigit(c) == \E i \in 1..10 : SubSeq(Digits, i, i) = c
DigitValue(c) == CHOOSE v \in 0..9 : SubSeq(Digits, v + 1, v + 1) = c

RECURSIVE DecimalValue(_)
DecimalValue(str) ==
    IF str = "" THEN 0
    ELSE 10 * DecimalValue(SubSeq(str, 1, Len(str) - 1)) + DigitValue(SubSeq(str, Len(str), Len(str)))

Unsigned(str) == IF Len(str) > 0 /\ SubSeq(str, 1, 1) = "+" THEN SubSeq(str, 2, Len(str)) ELSE str
ParsesAsU64(str) == Len(Unsigned(str)) > 0 /\ \A i \in 1..Len(Unsigned(str)) : IsDigit(SubSeq(Unsigned(str), i, i))

ParseTimeoutArg(a) ==
    IF Len(a) >= 2 /\ ParsesAsU64(a[2]) /\ DecimalValue(Unsigned(a[2])) > 0
    THEN DecimalValue(Unsigned(a[2])) ELSE NoTimeout

-----------------------------------------------------------------------------
Init ==
    /\ phase = [s \in Sessions |-> "Start"]
    /\ retry = [s \in Sessions |-> 0]
    /\ events = [s \in Sessions |-> <<>>]
    /\ sleeps = [s \in Sessions |-> <<>>]
    /\ attempts = [s \in Sessions |-> <<>>]
    /\ exitCode = Running
    /\ exitBy = "none"
    /\ args \in Args
    /\ symbolConfig \in BOOLEAN

\* Top of the loop, first time or after the backoff sleep has elapsed: a
\* CONNECTING event is sent and connect_to_symbol_session is entered.
Attempt(s) ==
    /\ symbolConfig
    /\ phase[s] \in {"Start", "Backoff"}
    /\ events' = [events EXCEPT ![s] = Append(@, Event(DISCONNECTED, CONNECTING, retry[s]))]
    /\ phase' = [phase EXCEPT ![s] = "Connecting"]
    /\ UNCHANGED <<retry, sleeps, attempts, exitCode, exitBy, args, symbolConfig>>

\* Top of the loop of manage_exchange_connection: connect_to_exchange is
\* entered without any event.
LegacyAttempt(s) ==
    /\ ~symbolConfig
    /\ phase[s] \in {"Start", "Backoff"}
    /\ phase' = [phase EXCEPT ![s] = "Connecting"]
    /\ UNCHANGED <<retry, events, sleeps, attempts, exitCode, exitBy, args, symbolConfig>>

\* connect_async completes; build_subscription_message yields None for
\* every venue, so the receive loop starts at once.  Nothing is emitted.
HandshakeOk(s) ==
    /\ phase[s] = "Connecting"
    /\ phase' = [phase EXCEPT ![s] = "Streaming"]
    /\ UNCHANGED <<retry, events, sleeps, attempts, exitCode, exitBy, args, symbolConfig>>

\* Mutation: a failed handshake is reported as a disconnection.
HandshakeFailReportsDisconnect(s) ==
    /\ phase[s] = "Connecting"
    /\ AttemptFailed(s, <<Event(CONNECTED, DISCONNECTED, 0)>>)

\* The endpoint is disabled, the URL does not parse, or connect_async
\* fails: connect_to_symbol_session returns Err before the receive loop.
HandshakeFail(s) ==
    /\ phase[s] = "Connecting"
    /\ AttemptFailed(s, <<>>)

\* A Close frame, or an Err from the stream: a DISCONNECTED event with
\* retry 0 is sent and the attempt ends with Err.
CloseOrReadError(s) ==
    /\ symbolConfig
    /\ phase[s] = "Streaming"
    /\ AttemptFailed(s, <<Event(CONNECTED, DISCONNECTED, 0)>>)

\* Answering a Ping fails: `?` returns Err without any event.
PongFailed(s) ==
    /\ symbolConfig
    /\ phase[s] = "Streaming"
    /\ AttemptFailed(s, <<>>)

\* The stream yields None: the loop ends and the function returns Err.
StreamEnded(s) ==
    /\ symbolConfig
    /\ phase[s] = "Streaming"
    /\ AttemptFailed(s, <<>>)

\* connect_to_exchange: a failed Pong, a Close frame, a stream error and
\* the end of the stream all leave the receive loop, and the function
\* returns Err without any event.
LegacyConnectionEnds(s) ==
    /\ ~symbolConfig
    /\ phase[s] = "Streaming"
    /\ AttemptFailed(s, <<>>)

\* Every session task has returned: ConnectionManager::run returns Ok(()),
\* the select! in async_main takes the connection_handle arm and main
\* returns Ok(()), i.e. exit status 0.
ManagerReturns ==
    /\ exitCode = Running
    /\ symbolConfig \in BOOLEAN
    /\ \A s \in Sessions : phase[s] = "Failed"
    /\ exitCode' = 0
    /\ exitBy' = "manager"
    /\ UNCHANGED <<phase, retry, events, sleeps, attempts, args, symbolConfig>>

\* The ctrl_c arm of the select!: main returns Ok(()) and the runtime is
\* dropped, which ends every session task wherever it is.
CtrlC ==
    /\ exitCode = Running
    /\ exitCode' = 0
    /\ exitBy' = "signal"
    /\ UNCHANGED <<phase, retry, events, sleeps, attempts, args, symbolConfig>>

\* The sleep arm, present only when parse_timeout_arg gave a duration.
TimerExpires ==
    /\ exitCode = Running
    /\ ParseTimeoutArg(args) # NoTimeout
    /\ exitCode' = 0
    /\ exitBy' = "timer"
    /\ UNCHANGED <<phase, retry, events, sleeps, attempts, args, symbolConfig>>

Next ==
    \/ exitCode = Running /\ \E s \in Sessions :
          \/ Attempt(s)
          \/ LegacyAttempt(s)
          \/ HandshakeOk(s)
          \/ HandshakeFail(s)
          \/ CloseOrReadError(s)
          \/ PongFailed(s)
          \/ StreamEnded(s)
          \/ LegacyConnectionEnds(s)
    \/ ManagerReturns
    \/ CtrlC
    \/ TimerExpires

\* The backoff sleep and the run-duration sleep always end (tokio timers)
\* and a returned task is always joined; the handshake, the stream and the
\* interrupt are left unconstrained.
Fairness ==
    /\ \A s \in Sessions : WF_vars(exitCode = Running /\ Attempt(s))
                       /\ WF_vars(exitCode = Running /\ LegacyAttempt(s))
    /\ WF_vars(ManagerReturns)
    /\ WF_vars(TimerExpires)

Spec == Init /\ [][Next]_vars /\ Fairness

-----------------------------------------------------------------------------
EventRec == [prev : 0..4, cur : 0..4, retry : 0..MaxRetry]

TypeOK ==
    /\ phase \in [Sessions -> Phases]
    /\ retry \in [Sessions -> 0..MaxRetry]
    /\ events \in [Sessions -> Seq(EventRec)]
    /\ sleeps \in [Sessions -> Seq(Nat)]
    /\ attempts \in [Sessions -> Seq(BOOLEAN)]
    /\ exitCode \in {Running, 0, 1}
    /\ exitBy \in {"none", "manager", "signal", "timer"}
    /\ args \in Args
    /\ symbolConfig \in BOOLEAN

\* The spec's schedule (P10): delays, in seconds, for retries 0, 1, 2, ...
SpecSchedule == <<1, 2, 4, 8, 16, 32, 60, 60, 60, 60, 60>>

\* Backoff: the delays a session sleeps between attempts are, in order, the
\* schedule the spec fixes for calculate_backoff_delay (1 s doubling to a
\* 60 s ceiling).  It takes seven failed attempts in a row to reach the
\* ceiling.
BackoffFollowsSchedule ==
    \A s \in Sessions :
        \A i \in 1..Len(sleeps[s]) : sleeps[s][i] = 1000 * SpecSchedule[i]

\* Give-up: a session gives up (a FAILED event, the task returns) exactly
\* when it has made MAX_RETRY_COUNT attempts; the FAILED event is its last
\* event and carries that count, and it never slept after its last attempt.
GivesUpAfterMaxAttempts ==
    \A s \in Sessions :
        /\ phase[s] = "Failed" <=> Len(attempts[s]) = MaxRetry
        /\ phase[s] = "Failed" =>
              /\ symbolConfig => Last(events[s]) = Event(RECONNECTING, FAILED, MaxRetry)
              /\ Len(sleeps[s]) = MaxRetry - 1

\* The statuses that may follow a status in one session's event stream.
NextStatus ==
    [c \in {CONNECTING, DISCONNECTED, RECONNECTING, FAILED} |->
        CASE c = CONNECTING -> {DISCONNECTED, RECONNECTING, FAILED}
          [] c = DISCONNECTED -> {RECONNECTING, FAILED}
          [] c = RECONNECTING -> {CONNECTING}
          [] c = FAILED -> {}]

\* The CONNECTING event that opened the attempt event i (not itself a
\* CONNECTING) belongs to: the one before it, or before its DISCONNECTED.
OpeningEvent(e, i) == IF e[i - 1].cur = CONNECTING THEN e[i - 1] ELSE e[i - 2]

\* Status stream (events.rs ConnectionStatus as manage_symbol_session and
\* connect_to_symbol_session emit it): reading only current_status and
\* retry_count, a consumer sees every attempt open with CONNECTING carrying
\* the number of earlier failed attempts, a DISCONNECTED only for an
\* attempt whose handshake had completed, and the attempt closed by
\* RECONNECTING or, last of all, FAILED carrying the attempt's number.
\* (previous_status does not follow the stream; see PROJECT.json.)
StatusStream ==
    \A s \in Sessions :
        LET e == events[s] IN
        /\ Len(e) > 0 => e[1].cur = CONNECTING
        /\ \A i \in 1..(Len(e) - 1) : e[i + 1].cur \in NextStatus[e[i].cur]
        /\ \A i \in 2..Len(e) :
              IF e[i].cur = CONNECTING THEN e[i].retry = e[i - 1].retry
              ELSE LET k == OpeningEvent(e, i).retry + 1 IN
                   /\ e[i].cur \in {RECONNECTING, FAILED} => e[i].retry = k
                   /\ e[i].cur = DISCONNECTED => attempts[s][k]
        /\ Len(e) > 0 => e[1].retry = 0

\* Exit status (spec section 6): when the process ends because every
\* session has given up, not by an interrupt or the timer, it exits with a
\* nonzero status.
ExitStatusReportsFailure ==
    exitBy = "manager" => exitCode # 0

\* Retry reset (spec 4.1: the retry count is reset by a successful
\* connection): a session only gives up when its last MAX_RETRY_COUNT
\* attempts all failed before the handshake completed.
GivesUpOnlyAfterConsecutiveFailures ==
    \A s \in Sessions :
        phase[s] = "Failed" =>
            \A i \in 1..Len(attempts[s]) :
                i > Len(attempts[s]) - MaxRetry => ~attempts[s][i]
=============================================================================

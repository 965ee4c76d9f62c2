------------------------------- MODULE Polling -------------------------------
(***************************************************************************)
(* How cli/src/environment.rs waits for a target: the readiness checks     *)
(* (run_http_readiness_check, run_tcp_readiness_check) and the wait_for of *)
(* a container (wait_for_http, wait_for_tcp, wait_for_log_message). One    *)
(* check is under way at a time. Its clock counts ticks from its start.    *)
(*                                                                         *)
(* The target is external: at every tick it may come up or go down, and a  *)
(* log line that was written stays written.                                *)
(***************************************************************************)
EXTENDS Naturals

CONSTANTS
    Timeout,    \* timeout_ms, in ticks
    Interval,   \* interval_ms, in ticks
    Slow        \* an answer, or a line of a log, comes within this many ticks

ASSUME TimesAssumption ==
    /\ {Timeout, Interval} \subseteq Nat
    /\ Slow \in Nat \ {0}

VARIABLE
    poll        \* the check: where it is, its kind, its clock, and until when it
                \* may stay there; whether the target is `up`, and if so since
                \* when; `met`, the values of `up` during this attempt

Places == {"idle", "attempt", "hung", "sleep", "passed", "failed"}

Kinds == {"none", "http", "tcp", "log"}

Checks == [at : Places, kind : Kinds, clock : Nat, until : Nat, up : BOOLEAN, since : Nat,
           met : SUBSET BOOLEAN]

Idle == [at |-> "idle", kind |-> "none", clock |-> 0, until |-> 0, up |-> FALSE, since |-> 0,
         met |-> {}]

\* Mutation: an attempt that could not be followed by another is not made.
AgainIfRoom(check) ==
    IF check.clock + Interval >= Timeout THEN [check EXCEPT !.at = "failed"]
    ELSE [check EXCEPT !.at = "attempt", !.met = {check.up},
                       !.until = IF check.kind = "log" THEN Timeout ELSE check.clock + Slow]

\* The loop: another attempt, or the time is up. A log is followed until then.
Again(check) ==
    IF check.clock >= Timeout THEN [check EXCEPT !.at = "failed"]
    ELSE [check EXCEPT !.at = "attempt", !.met = {check.up},
                       !.until = IF check.kind = "log" THEN Timeout ELSE check.clock + Slow]

StartPoll(kinds) ==
    /\ poll.at = "idle"
    /\ \E kind \in kinds, up \in BOOLEAN :
        poll' = Again([Idle EXCEPT !.kind = kind, !.up = up])

Tick ==
    /\ poll.at \in {"attempt", "sleep"} /\ poll.clock < poll.until
    /\ \E up \in BOOLEAN :
        /\ poll.kind = "log" /\ poll.up => up /\ poll.clock < poll.since + Slow
        /\ poll' = [poll EXCEPT
                        !.clock = @ + 1,
                        !.up = up, !.met = @ \cup {up},
                        !.since = IF up /\ ~poll.up THEN poll.clock + 1
                                  ELSE IF up THEN @ ELSE 0]

\* The target answers as expected: the port is open, the status is the one, the
\* line matches. It is an answer of some moment of the attempt.
Succeed ==
    /\ poll.at = "attempt" /\ TRUE \in poll.met
    /\ poll' = [poll EXCEPT !.at = "passed"]

\* Another status, or no connection.
Retry ==
    /\ poll.at = "attempt" /\ poll.kind # "log" /\ FALSE \in poll.met
    /\ poll' = [poll EXCEPT !.at = "sleep", !.until = poll.clock + Interval]

\* The client of an HTTP check has no timeout: a server that takes the request
\* and does not answer holds the check.
Hang ==
    /\ poll.at = "attempt" /\ poll.kind = "http" /\ FALSE \in poll.met
    /\ poll' = [poll EXCEPT !.at = "hung"]

WakeUp ==
    /\ poll.at = "sleep" /\ poll.clock = poll.until
    /\ poll' = Again(poll)

\* wait_for_log_message: no time remains. The line may be on its way by now.
LogTimesOut ==
    /\ poll.at = "attempt" /\ poll.kind = "log" /\ poll.clock = Timeout
    /\ poll' = [poll EXCEPT !.at = "failed"]

PollStep == Tick \/ Succeed \/ Retry \/ Hang \/ WakeUp \/ LogTimesOut

\* A check that gives up was right to: its time is over, by one interval and one
\* slow attempt at most, and a target that came up that long before the timeout,
\* and stayed up, would have been found, wherever the attempts and sleeps fall
\* (run_http_readiness_check, wait_for_http and the like). A log line needs only
\* to come before the timeout.
GivesUpForAReason ==
    poll.at = "failed" =>
        /\ poll.clock >= Timeout
        /\ poll.clock < Timeout + Interval + Slow \/ Timeout = 0
        /\ poll.up => IF poll.kind = "log" THEN poll.since + Slow >= Timeout
                      ELSE poll.since + Interval + Slow > Timeout
==============================================================================

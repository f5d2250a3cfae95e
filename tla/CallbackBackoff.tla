--------------------------- MODULE CallbackBackoff ---------------------------
(***************************************************************************)
(* When a wakeup that was not taken is posted again (callback.go:191-247,  *)
(* lifecycle_store.go:656-710): the schedule, its jitter, Retry-After, the *)
(* due time in the row and the claims of several dispatchers.  It follows  *)
(* one event of CallbackDispatcher and gives its due flag a clock.         *)
(*                                                                         *)
(* Durations are integers of a fixed width, as in the code; a second is    *)
(* Second of their units.  One clock serves the database, the dispatchers  *)
(* and the receiver.                                                       *)
(***************************************************************************)
EXTENDS Integers, Sequences

CONSTANTS
    Dispatchers, NoDispatcher,
    Second,         \* units of a time.Duration in a second
    Limit,          \* durations and parsed integers are below Limit, 2^63
    Schedule,       \* the first delays, in seconds
    LastDelay,      \* the delay after the schedule, in seconds
    Lease,          \* how long a claim lasts, in seconds
    Headers,        \* numbers of seconds and dates a receiver may send
    MaxClaims       \* bound on the claims of the event

\* The jitter is 0.8 to 1.2: a unit that 5 divides keeps its bounds exact.
ASSUME TimeAssumption ==
    /\ Second \in Nat \ {0} /\ Second % 5 = 0
    /\ Limit \in Nat /\ Limit > 2 * Lease * Second /\ Limit > 2 * LastDelay * Second
    /\ Lease \in Nat \ {0} /\ LastDelay \in Nat \ {0}
    /\ Schedule \in Seq(1..LastDelay)
    /\ Headers \subseteq Nat
ASSUME BackoffAssumption == NoDispatcher \notin Dispatchers /\ MaxClaims \in Nat

VARIABLES
    clock,      \* now(), in units since the event was armed
    state,      \* callback_state
    attempt,    \* callback_attempt
    due,        \* callback_next_at
    holder,     \* the dispatcher whose token the row has
    expires,    \* callback_lease_expires_at
    work,       \* what each dispatcher does with which attempt, and what the
                \* receiver asked of it
    claims,     \* claims so far
    quiet       \* instant before which the receiver of the last recorded
                \* failure wanted no more posts (history)

vars == <<clock, state, attempt, due, holder, expires, work, claims, quiet>>

Idle == [doing |-> "poll", attempt |-> 0, wait |-> 0, until |-> 0]

Init ==
    /\ clock = 0 /\ state = "pending" /\ attempt = 0 /\ due = 0
    /\ holder = NoDispatcher /\ expires = 0 /\ claims = 0 /\ quiet = 0
    /\ work = [d \in Dispatchers |-> Idle]

\* Time passes up to a moment at which a claim may become possible.
Pass ==
    /\ \E t \in {due, expires} : t > clock /\ clock' = t
    /\ UNCHANGED <<state, attempt, due, holder, expires, work, claims, quiet>>

-----------------------------------------------------------------------------
(* Delays.                                                                 *)

\* The unjittered delay after n recorded attempts.
Scheduled(n) ==
    Second * (IF n < Len(Schedule) THEN Schedule[n + 1] ELSE LastDelay)

\* callbackRetryDelay.
RetryDelays(n) == {(Scheduled(n) * j) \div 5 : j \in 4..6}

\* A product of two durations keeps its low bits.
Wrap(n) == ((n + Limit) % (2 * Limit)) - Limit

\* retryAfter of a number of seconds: one too large to parse counts as none.
SecondsAfter(n) == IF n < Limit THEN Wrap(n * Second) ELSE 0

\* retryAfter of a date: the difference of two instants saturates.
DateAfter(t) ==
    IF t <= clock THEN 0 ELSE IF t - clock < Limit THEN t - clock ELSE Limit - 1

\* Wrong on purpose: what the receiver asks for replaces the schedule.
DelayAsAsked(scheduled, asked) == IF asked # 0 THEN asked ELSE scheduled

\* retry: the longer of the two delays.
Delay(scheduled, asked) == IF asked > scheduled THEN asked ELSE scheduled

-----------------------------------------------------------------------------
(* Claims and deliveries.                                                  *)

\* Wrong on purpose: the due time is not looked at.
MayClaimEarly ==
    /\ state \in {"pending", "retry", "delivering"}
    /\ holder = NoDispatcher \/ expires <= clock

MayClaim ==
    /\ state \in {"pending", "retry", "delivering"}
    /\ due <= clock
    /\ holder = NoDispatcher \/ expires <= clock

\* ClaimNextCallback.
Claim(d) ==
    /\ work[d].doing = "poll" /\ MayClaim
    /\ claims < MaxClaims /\ claims' = claims + 1
    /\ state' = "delivering" /\ holder' = d /\ expires' = clock + Lease * Second
    /\ work' = [work EXCEPT ![d] = [Idle EXCEPT !.doing = "post", !.attempt = attempt]]
    /\ UNCHANGED <<clock, attempt, due, quiet>>

Answered(d, doing, wait, until) ==
    /\ work[d].doing = "post"
    /\ work' = [work EXCEPT ![d].doing = doing, ![d].wait = wait, ![d].until = until]
    /\ UNCHANGED <<clock, state, attempt, due, holder, expires, claims, quiet>>

\* deliver: 202, a status that is not retried, or an answer that asks to wait
\* for some seconds, until a date or not at all.  A number of seconds that no
\* duration holds is not a wait this code can keep.
Post(d) ==
    \/ Answered(d, "succeeded", 0, 0)
    \/ Answered(d, "config", 0, 0)
    \/ Answered(d, "retry", 0, 0)
    \/ \E n \in Headers :
         \/ Answered(d, "retry", SecondsAfter(n), IF n * Second < Limit THEN clock + n * Second ELSE 0)
         \/ Answered(d, "retry", DateAfter(n * Second), IF n * Second - clock < Limit THEN n * Second ELSE 0)

\* CallbackSucceeded, CallbackFailed and CallbackConfigurationFailed, fenced by
\* the token alone; a refused UPDATE is only logged.
Record(d) ==
    /\ work[d].doing \in {"succeeded", "config", "retry"}
    /\ work' = [work EXCEPT ![d] = Idle]
    /\ IF state = "delivering" /\ holder = d
       THEN /\ attempt' = attempt + 1
            /\ holder' = NoDispatcher /\ expires' = 0
            /\ state' = CASE work[d].doing = "succeeded" -> "delivered"
                          [] work[d].doing = "config" -> "configuration_failed"
                          [] OTHER -> "retry"
            /\ IF work[d].doing = "retry"
               THEN /\ \E s \in RetryDelays(work[d].attempt) :
                         due' = clock + Delay(s, work[d].wait)
                    /\ quiet' = work[d].until
               ELSE UNCHANGED <<due, quiet>>
       ELSE UNCHANGED <<state, attempt, due, holder, expires, quiet>>
    /\ UNCHANGED <<clock, claims>>

\* The process of a dispatcher stops; its claim stays until it expires.
Stop(d) ==
    /\ work[d].doing # "poll"
    /\ work' = [work EXCEPT ![d] = Idle]
    /\ UNCHANGED <<clock, state, attempt, due, holder, expires, claims, quiet>>

Next == Pass \/ \E d \in Dispatchers : Claim(d) \/ Post(d) \/ Record(d) \/ Stop(d)

Spec == Init /\ [][Next]_vars

-----------------------------------------------------------------------------
(* Properties.                                                             *)

Durations == -Limit..(Limit - 1)

\* The clock, the row and the dispatchers' work keep their types; every delay
\* is a duration.
TypeOK ==
    /\ clock \in Nat /\ attempt \in Nat /\ claims \in Nat /\ due \in Nat /\ expires \in Nat /\ quiet \in Nat
    /\ state \in {"pending", "delivering", "retry", "delivered", "configuration_failed"}
    /\ holder \in Dispatchers \union {NoDispatcher}
    /\ work \in [Dispatchers -> [doing: {"poll", "post", "succeeded", "config", "retry"},
                                 attempt: Nat, wait: Durations, until: Nat]]

\* The least time the first n failures take, whatever the jitter.
Spent[n \in Nat] == IF n = 0 THEN 0 ELSE Spent[n - 1] + (4 * Scheduled(n - 1)) \div 5

\* A receiver that refuses every wakeup is never posted to faster than the
\* schedule: no Retry-After, not one whose product with time.Second wraps to a
\* negative or tiny delay (callback.go:236), no expired claim and no stopped
\* dispatcher shortens the sum of the delays.
ScheduleIsKept == state = "delivering" => clock >= Spent[attempt]

\* Once a failure is recorded, nobody claims the event before the time its
\* receiver asked for (callback.go:185, 193), if a duration can hold that wait.
QuietIsKept == [][claims' # claims => clock >= quiet]_vars

=============================================================================

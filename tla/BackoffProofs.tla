---------------------------- MODULE BackoffProofs ----------------------------
(***************************************************************************)
(* Theorems about CallbackBackoff, for any width of a duration, schedule   *)
(* and number of dispatchers.                                              *)
(***************************************************************************)
EXTENDS CallbackBackoff, FiniteSetTheorems, WellFoundedInduction, TLAPS

----------------------------------------------------------------------------
(* Arithmetic of the delays *)

LEMMA NaturalProduct ==
    ASSUME NEW m \in Nat, NEW n \in Nat PROVE m * n \in Nat
OBVIOUS

LEMMA ProductBound ==
    ASSUME NEW n \in Nat, NEW s \in Nat \ {0}, NEW l \in Nat, n * s < l
    PROVE  n < l
OBVIOUS

LEMMA QuotientIsNatural ==
    ASSUME NEW n \in Nat PROVE n \div 5 \in Nat
OBVIOUS

LEMMA WrapRange ==
    ASSUME NEW n \in Int, NEW l \in Nat \ {0}
    PROVE  ((n + l) % (2 * l)) - l \in -l..(l - 1)
OBVIOUS

LEMMA WrapIdentity ==
    ASSUME NEW n \in Nat, NEW l \in Nat, n < l
    PROVE  ((n + l) % (2 * l)) - l = n
OBVIOUS

LEMMA LimitIsPositive == Limit \in Nat \ {0}
<1>1. 2 * LastDelay * Second \in Nat
    BY NaturalProduct, TimeAssumption
<1> QED
    BY <1>1, TimeAssumption

LEMMA ScheduledDelays ==
    ASSUME NEW n \in Nat, NEW s \in RetryDelays(n) PROVE s \in Nat
<1>1. (IF n < Len(Schedule) THEN Schedule[n + 1] ELSE LastDelay) \in Nat
    BY TimeAssumption
<1>2. Scheduled(n) \in Nat
    BY <1>1, NaturalProduct, TimeAssumption DEF Scheduled
<1>3. PICK j \in 4..6 : s = (Scheduled(n) * j) \div 5
    BY DEF RetryDelays
<1>4. Scheduled(n) * j \in Nat
    BY <1>2, NaturalProduct
<1> QED
    BY <1>3, <1>4, QuotientIsNatural

\* What a header of n seconds, or a date n seconds after the event was armed,
\* makes the dispatcher wait.
LEMMA SecondsRange ==
    ASSUME NEW n \in Headers
    PROVE  /\ SecondsAfter(n) \in Durations
           /\ n * Second \in Nat
           /\ n * Second < Limit => SecondsAfter(n) = n * Second
<1>1. n \in Nat /\ n * Second \in Nat
    BY NaturalProduct, TimeAssumption
<1>2. Wrap(n * Second) \in Durations
    BY <1>1, WrapRange, LimitIsPositive DEF Wrap, Durations
<1>3. ASSUME n * Second < Limit PROVE n < Limit /\ Wrap(n * Second) = n * Second
    BY <1>1, <1>3, ProductBound, WrapIdentity, TimeAssumption DEF Wrap
<1> QED
    BY <1>1, <1>2, <1>3, LimitIsPositive DEF SecondsAfter, Durations

LEMMA DateRange ==
    ASSUME NEW t \in Nat, clock \in Nat
    PROVE  /\ DateAfter(t) \in Durations
           /\ t - clock < Limit => t <= clock + DateAfter(t)
BY LimitIsPositive DEF DateAfter, Durations

----------------------------------------------------------------------------
(* Recursion over the naturals.  Induction is the existence of a least        *)
(* counterexample, which the well-founded order of finite sets gives.         *)

LEMMA LeastNat ==
    ASSUME NEW S \in SUBSET Nat, S # {}
    PROVE  \E n \in S : \A m \in S : n <= m
<1> DEFINE Below == {0..n : n \in S}
<1>1. Below # {} /\ Below \subseteq FiniteSubsetsOf(Nat)
  <2>1. ASSUME NEW n \in S PROVE 0..n \in FiniteSubsetsOf(Nat)
    <3>1. IsFiniteSet(0..n)
        BY FS_Interval
    <3> QED
        BY <3>1 DEF FiniteSubsetsOf
  <2> QED
      BY <2>1
<1>2. PICK x \in Below : \A y \in Below : ~(<<y, x>> \in StrictSubsetOrdering(Nat))
  <2> HIDE DEF Below
  <2> QED
      BY <1>1, FS_StrictSubsetOrderingWellFounded, WFMin
<1>3. PICK n \in S : x = 0..n
    OBVIOUS
<1>4. ASSUME NEW m \in S PROVE n <= m
  <2>1. 0..m \in SUBSET Nat /\ 0..n \in SUBSET Nat
      OBVIOUS
  <2>2. ~(0..m \subseteq 0..n /\ 0..m # 0..n)
      BY <1>2, <1>3, <2>1 DEF StrictSubsetOrdering
  <2>3. m < n => 0..m \subseteq 0..n /\ n \in 0..n /\ n \notin 0..m
      OBVIOUS
  <2> QED
      BY <2>2, <2>3
<1> QED
    BY <1>4

\* The first n + 1 sums of the numbers c[0], c[1], ...
Sums(c, n) ==
    {g \in [0..n -> Nat] : g[0] = 0 /\ \A k \in 1..n : g[k] = g[k - 1] + c[k - 1]}

LEMMA SumsExist ==
    ASSUME NEW c \in [Nat -> Nat], NEW n \in Nat
    PROVE  Sums(c, n) # {}
<1> DEFINE Bad == {m \in Nat : Sums(c, m) = {}}
<1> SUFFICES ASSUME Bad # {} PROVE FALSE
    OBVIOUS
<1>1. PICK m \in Bad : \A k \in Bad : m <= k
    BY LeastNat
<1>2. m # 0
  <2>1. [k \in 0..0 |-> 0] \in Sums(c, 0)
      BY DEF Sums
  <2> QED
      BY <2>1
<1>3. PICK g : g \in Sums(c, m - 1)
  <2>1. m - 1 \in Nat /\ ~(m <= m - 1)
      BY <1>1, <1>2
  <2>2. m - 1 \notin Bad
      BY <1>1, <2>1
  <2> QED
      BY <2>1, <2>2
<1> DEFINE h == [k \in 0..m |-> IF k < m THEN g[k] ELSE g[m - 1] + c[m - 1]]
<1>4. /\ m - 1 \in Nat /\ m - 1 \in 0..(m - 1) /\ m \in Nat
      /\ \A k \in 0..m : k < m => k \in 0..(m - 1)
    BY <1>1, <1>2
<1>5. /\ g \in [0..(m - 1) -> Nat] /\ g[0] = 0
      /\ \A k \in 1..(m - 1) : g[k] = g[k - 1] + c[k - 1]
    BY <1>3 DEF Sums
<1>6. \A k \in 0..m : h[k] = IF k < m THEN g[k] ELSE g[m - 1] + c[m - 1]
    OBVIOUS
<1>7. h \in [0..m -> Nat]
  <2>1. g[m - 1] + c[m - 1] \in Nat
      BY <1>4, <1>5
  <2>2. \A k \in 0..m : k < m => g[k] \in Nat
      BY <1>4, <1>5
  <2>3. \A k \in 0..m : (IF k < m THEN g[k] ELSE g[m - 1] + c[m - 1]) \in Nat
      BY <2>1, <2>2
  <2> QED
      BY <2>3
<1>8. h[0] = 0
    BY <1>2, <1>4, <1>5, <1>6
<1>9. ASSUME NEW k \in 1..m PROVE h[k] = h[k - 1] + c[k - 1]
  <2>1. k - 1 \in 0..m /\ k - 1 < m /\ k \in 0..m
      BY <1>4
  <2>2. h[k - 1] = g[k - 1]
      BY <1>6, <2>1
  <2> HIDE DEF h
  <2>3. CASE k < m
    <3>1. k \in 1..(m - 1)
        BY <1>4, <2>3
    <3> QED
        BY <1>5, <1>6, <2>1, <2>2, <2>3, <3>1
  <2>4. CASE ~(k < m)
    <3>1. k = m
        BY <1>4, <2>4
    <3> QED
        BY <1>6, <2>1, <2>2, <3>1
  <2> QED
      BY <2>3, <2>4
<1>10. h \in Sums(c, m)
    BY <1>7, <1>8, <1>9 DEF Sums
<1> QED
    BY <1>1, <1>10

LEMMA SumsAgree ==
    ASSUME NEW c \in [Nat -> Nat], NEW m \in Nat, NEW n \in Nat,
           NEW g \in Sums(c, m), NEW h \in Sums(c, n), NEW k \in Nat, k <= m, k <= n
    PROVE  g[k] = h[k]
<1> DEFINE Bad == {j \in Nat : j <= m /\ j <= n /\ g[j] # h[j]}
<1> SUFFICES ASSUME Bad # {} PROVE FALSE
    OBVIOUS
<1>1. PICK j \in Bad : \A i \in Bad : j <= i
    BY LeastNat
<1>2. j # 0
    BY <1>1 DEF Sums
<1>3. j - 1 \in Nat /\ j \in 1..m /\ j \in 1..n /\ j - 1 \notin Bad
    BY <1>1, <1>2
<1>4. g[j - 1] = h[j - 1]
    BY <1>1, <1>3
<1>5. g[j] = h[j]
    BY <1>3, <1>4 DEF Sums
<1> QED
    BY <1>1, <1>5

\* There is a function that sums them all.
LEMMA EverySum ==
    ASSUME NEW c \in [Nat -> Nat]
    PROVE  \E f \in [Nat -> Nat] : f[0] = 0 /\ \A n \in Nat \ {0} : f[n] = f[n - 1] + c[n - 1]
<1> DEFINE G(n) == CHOOSE g : g \in Sums(c, n)
           F == [n \in Nat |-> G(n)[n]]
<1>1. \A n \in Nat : G(n) \in Sums(c, n)
    BY SumsExist
<1> HIDE DEF G
<1>2. \A n \in Nat : G(n)[n] \in Nat
    BY <1>1 DEF Sums
<1>3. F \in [Nat -> Nat]
    BY <1>2
<1>4. F[0] = 0
    BY <1>1 DEF Sums
<1>5. ASSUME NEW n \in Nat \ {0} PROVE F[n] = F[n - 1] + c[n - 1]
  <2>1. n - 1 \in Nat /\ n \in 1..n /\ n - 1 <= n
      OBVIOUS
  <2>2. G(n)[n] = G(n)[n - 1] + c[n - 1]
      BY <1>1, <2>1 DEF Sums
  <2>3. G(n)[n - 1] = G(n - 1)[n - 1]
      BY <1>1, <2>1, SumsAgree
  <2> QED
      BY <2>1, <2>2, <2>3
<1> QED
    BY <1>3, <1>4, <1>5

\* The shortest delay after n failures.
LEMMA ShortestDelay ==
    ASSUME NEW n \in Nat
    PROVE  /\ (4 * Scheduled(n)) \div 5 \in Nat
           /\ \A s \in RetryDelays(n) : s \in Nat /\ s >= (4 * Scheduled(n)) \div 5
<1>1. (IF n < Len(Schedule) THEN Schedule[n + 1] ELSE LastDelay) \in Nat
    BY TimeAssumption
<1>2. PICK x \in Nat : x = Scheduled(n)
    BY <1>1, NaturalProduct, TimeAssumption DEF Scheduled
<1>3. /\ (4 * x) \div 5 \in Nat
      /\ \A j \in 4..6 : (x * j) \div 5 \in Nat /\ (x * j) \div 5 >= (4 * x) \div 5
    OBVIOUS
<1> QED
    BY <1>2, <1>3 DEF RetryDelays

\* Spent is what its defining equation says.
LEMMA SpentUnfolds ==
    /\ Spent \in [Nat -> Nat]
    /\ Spent[0] = 0
    /\ \A n \in Nat : Spent[n + 1] = Spent[n] + (4 * Scheduled(n)) \div 5
<1> DEFINE delay == [n \in Nat |-> (4 * Scheduled(n)) \div 5]
           Solves(g) ==
               g = [n \in Nat |-> IF n = 0 THEN 0
                                  ELSE g[n - 1] + (4 * Scheduled(n - 1)) \div 5]
<1>1. delay \in [Nat -> Nat]
    BY ShortestDelay
<1>2. PICK f \in [Nat -> Nat] :
          f[0] = 0 /\ \A n \in Nat \ {0} : f[n] = f[n - 1] + delay[n - 1]
    BY <1>1, EverySum
<1>3. Solves(f)
  <2>1. ASSUME NEW n \in Nat
        PROVE  f[n] = IF n = 0 THEN 0 ELSE f[n - 1] + (4 * Scheduled(n - 1)) \div 5
    <3>1. CASE n = 0
        BY <1>2, <3>1
    <3>2. CASE n # 0
      <4>1. n - 1 \in Nat
          BY <3>2
      <4>2. delay[n - 1] = (4 * Scheduled(n - 1)) \div 5
          BY <4>1
      <4> QED
          BY <1>2, <3>2, <4>2
    <3> QED
        BY <3>1, <3>2
  <2> QED
      BY <2>1
<1>4. Solves(Spent)
  <2>1. Spent = CHOOSE g : Solves(g)
      BY DEF Spent
  <2> HIDE DEF Solves
  <2> QED
      BY <1>3, <2>1
<1>5. \A n \in Nat : Spent[n] = IF n = 0 THEN 0 ELSE Spent[n - 1] + (4 * Scheduled(n - 1)) \div 5
    BY <1>4
<1>6. DOMAIN Spent = Nat
    BY <1>4
<1>7. \A n \in Nat : Spent[n] = f[n]
  <2> DEFINE Bad == {n \in Nat : Spent[n] # f[n]}
  <2> SUFFICES ASSUME Bad # {} PROVE FALSE
      OBVIOUS
  <2>1. PICK n \in Bad : \A m \in Bad : n <= m
      BY LeastNat
  <2>2. n # 0
      BY <1>2, <1>5, <2>1
  <2>3. n - 1 \in Nat /\ Spent[n - 1] = f[n - 1]
      BY <2>1, <2>2
  <2>4. Spent[n] = f[n]
      BY <1>2, <1>5, <2>1, <2>2, <2>3
  <2> QED
      BY <2>1, <2>4
<1>8. Spent = [n \in Nat |-> Spent[n]]
    BY <1>4
<1>9. Spent \in [Nat -> Nat]
    BY <1>2, <1>7, <1>8
<1>10. ASSUME NEW n \in Nat PROVE Spent[n + 1] = Spent[n] + (4 * Scheduled(n)) \div 5
  <2>1. n + 1 \in Nat /\ n + 1 # 0 /\ (n + 1) - 1 = n
      OBVIOUS
  <2> QED
      BY <1>5, <2>1
<1> QED
    BY <1>5, <1>9, <1>10

----------------------------------------------------------------------------
(* The inductive invariant *)

\* The next claim and every wait still to be recorded respect what was asked.
BackoffInv ==
    /\ TypeOK
    /\ quiet <= due
    /\ \A d \in Dispatchers : work[d].doing = "retry" =>
         work[d].until = 0 \/ work[d].until <= clock + work[d].wait

LEMMA InitBackoffInv == Init => BackoffInv
BY LimitIsPositive, BackoffAssumption DEF Init, BackoffInv, TypeOK, Idle, Durations

LEMMA AnsweredInv ==
    ASSUME BackoffInv, NEW d \in Dispatchers,
           NEW doing \in {"succeeded", "config", "retry"},
           NEW wait \in Durations, NEW until \in Nat,
           until = 0 \/ until <= clock + wait,
           Answered(d, doing, wait, until)
    PROVE  BackoffInv'
<1>1. work[d] \in [doing: {"poll", "post", "succeeded", "config", "retry"},
                   attempt: Nat, wait: Durations, until: Nat]
    BY DEF BackoffInv, TypeOK
<1>2. [work[d] EXCEPT !.doing = doing, !.wait = wait, !.until = until] \in
        [doing: {"poll", "post", "succeeded", "config", "retry"},
         attempt: Nat, wait: Durations, until: Nat]
    BY <1>1
<1>3. TypeOK'
    BY <1>1, <1>2 DEF Answered, BackoffInv, TypeOK
<1> QED
    BY <1>1, <1>3 DEF Answered, BackoffInv, TypeOK

LEMMA PostInv ==
    ASSUME BackoffInv, NEW d \in Dispatchers, Post(d) PROVE BackoffInv'
<1>1. 0 \in Durations /\ clock \in Nat
    BY LimitIsPositive DEF Durations, BackoffInv, TypeOK
<1>2. CASE \E doing \in {"succeeded", "config", "retry"} : Answered(d, doing, 0, 0)
    BY <1>1, <1>2, AnsweredInv
<1>3. ASSUME NEW n \in Headers,
             Answered(d, "retry", SecondsAfter(n),
                      IF n * Second < Limit THEN clock + n * Second ELSE 0)
      PROVE  BackoffInv'
  <2> DEFINE until == IF n * Second < Limit THEN clock + n * Second ELSE 0
  <2>1. until \in Nat /\ SecondsAfter(n) \in Durations
      BY <1>1, SecondsRange
  <2>2. until = 0 \/ until <= clock + SecondsAfter(n)
      BY <1>1, SecondsRange
  <2>3. Answered(d, "retry", SecondsAfter(n), until)
      BY <1>3
  <2> HIDE DEF until
  <2> QED
      BY <2>1, <2>2, <2>3, AnsweredInv
<1>4. ASSUME NEW n \in Headers,
             Answered(d, "retry", DateAfter(n * Second),
                      IF n * Second - clock < Limit THEN n * Second ELSE 0)
      PROVE  BackoffInv'
  <2> DEFINE until == IF n * Second - clock < Limit THEN n * Second ELSE 0
  <2>0. n * Second \in Nat
      BY SecondsRange
  <2>1. until \in Nat /\ DateAfter(n * Second) \in Durations
      BY <1>1, <2>0, DateRange
  <2>2. until = 0 \/ until <= clock + DateAfter(n * Second)
      BY <1>1, <2>0, DateRange
  <2>3. Answered(d, "retry", DateAfter(n * Second), until)
      BY <1>4
  <2> HIDE DEF until
  <2> QED
      BY <2>1, <2>2, <2>3, AnsweredInv
<1> QED
    BY <1>2, <1>3, <1>4 DEF Post

LEMMA RecordInv ==
    ASSUME BackoffInv, NEW d \in Dispatchers, Record(d) PROVE BackoffInv'
<1> USE DEF BackoffInv, TypeOK
<1>1. /\ work[d].attempt \in Nat /\ work[d].wait \in Durations /\ work[d].until \in Nat
      /\ \A s \in RetryDelays(work[d].attempt) : s \in Nat
    BY ScheduledDelays
<1>2. \A e \in Dispatchers : work'[e] = work[e] \/ work'[e] = Idle
    BY DEF Record
<1>3. Idle \in [doing: {"poll", "post", "succeeded", "config", "retry"},
                attempt: Nat, wait: Durations, until: Nat]
    BY LimitIsPositive DEF Idle, Durations
<1>4. work' \in [Dispatchers -> [doing: {"poll", "post", "succeeded", "config", "retry"},
                                 attempt: Nat, wait: Durations, until: Nat]]
    BY <1>3 DEF Record
<1>5. due' \in Nat /\ quiet' \in Nat /\ quiet' <= due'
  <2>1. CASE UNCHANGED <<due, quiet>>
      BY <2>1
  <2>2. CASE work[d].doing = "retry" /\ quiet' = work[d].until
             /\ \E s \in RetryDelays(work[d].attempt) : due' = clock + Delay(s, work[d].wait)
      BY <1>1, <2>2, LimitIsPositive DEF Delay, Durations
  <2> QED
      BY <2>1, <2>2 DEF Record
<1>6. TypeOK'
    BY <1>4, <1>5 DEF Record
<1> QED
    BY <1>2, <1>5, <1>6 DEF Record, Idle

LEMMA NextBackoffInv == BackoffInv /\ [Next]_vars => BackoffInv'
<1> SUFFICES ASSUME BackoffInv, [Next]_vars PROVE BackoffInv'
    OBVIOUS
<1>1. CASE Pass
    BY <1>1, LimitIsPositive DEF Pass, BackoffInv, TypeOK, Durations
<1>2. ASSUME NEW d \in Dispatchers, Claim(d) PROVE BackoffInv'
  <2>1. Lease * Second \in Nat
      BY NaturalProduct, TimeAssumption
  <2>2. [Idle EXCEPT !.doing = "post", !.attempt = attempt] \in
          [doing: {"poll", "post", "succeeded", "config", "retry"},
           attempt: Nat, wait: Durations, until: Nat]
    <3>1. 0 \in Durations /\ attempt \in Nat
        BY LimitIsPositive DEF Durations, BackoffInv, TypeOK
    <3> QED
        BY <3>1 DEF Idle
  <2>3. TypeOK'
      BY <1>2, <2>1, <2>2 DEF Claim, BackoffInv, TypeOK
  <2>4. work'[d].doing = "post" /\ \A e \in Dispatchers : e # d => work'[e] = work[e]
      BY <1>2 DEF Claim, BackoffInv, TypeOK, Idle
  <2>5. clock' = clock /\ quiet' = quiet /\ due' = due
      BY <1>2 DEF Claim
  <2> QED
      BY <2>3, <2>4, <2>5 DEF BackoffInv
<1>3. ASSUME NEW d \in Dispatchers, Post(d) PROVE BackoffInv'
    BY <1>3, PostInv
<1>4. ASSUME NEW d \in Dispatchers, Record(d) PROVE BackoffInv'
    BY <1>4, RecordInv
<1>5. ASSUME NEW d \in Dispatchers, Stop(d) PROVE BackoffInv'
    BY <1>5, LimitIsPositive DEF Stop, BackoffInv, TypeOK, Idle, Durations
<1>6. CASE UNCHANGED vars
    BY <1>6 DEF vars, BackoffInv, TypeOK
<1> QED
    BY <1>1, <1>2, <1>3, <1>4, <1>5, <1>6 DEF Next

----------------------------------------------------------------------------
(* The schedule *)

\* The row is not due before the schedule allows, and a dispatcher that works
\* under the claim in the row will record the attempt the row counts.
ScheduleInv ==
    /\ BackoffInv
    /\ state \in {"pending", "retry", "delivering"} => due >= Spent[attempt]
    /\ state = "delivering" => clock >= due
    /\ \A d \in Dispatchers :
         state = "delivering" /\ holder = d /\ work[d].doing # "poll"
            => work[d].attempt = attempt

LEMMA InitScheduleInv == Init => ScheduleInv
BY InitBackoffInv, SpentUnfolds DEF Init, ScheduleInv

LEMMA RecordKeepsSchedule ==
    ASSUME ScheduleInv, NEW d \in Dispatchers, Record(d) PROVE ScheduleInv'
<1>1. BackoffInv'
    BY RecordInv DEF ScheduleInv
<1>2. /\ clock \in Nat /\ attempt \in Nat /\ due \in Nat
      /\ work \in [Dispatchers -> [doing: {"poll", "post", "succeeded", "config", "retry"},
                                   attempt: Nat, wait: Durations, until: Nat]]
    BY DEF ScheduleInv, BackoffInv, TypeOK
<1>3. CASE state = "delivering" /\ holder = d
  <2>1. /\ attempt' = attempt + 1 /\ clock' = clock /\ state' # "delivering"
        /\ state' \in {"pending", "retry", "delivering"} => work[d].doing = "retry"
      BY <1>3 DEF Record
  <2>2. ASSUME work[d].doing = "retry" PROVE due' >= Spent[attempt']
    <3>1. PICK s \in RetryDelays(work[d].attempt) : due' = clock + Delay(s, work[d].wait)
        BY <1>3, <2>2 DEF Record
    <3>2. work[d].attempt = attempt /\ work[d].wait \in Int
        BY <1>2, <1>3, <2>2, LimitIsPositive DEF ScheduleInv, Durations
    <3>3. PICK least \in Nat : least = (4 * Scheduled(attempt)) \div 5
        BY <1>2, ShortestDelay
    <3>4. s \in Nat /\ s >= least
        BY <1>2, <3>2, <3>3, ShortestDelay
    <3>5. Delay(s, work[d].wait) \in Int /\ Delay(s, work[d].wait) >= least
        BY <3>2, <3>3, <3>4 DEF Delay
    <3>6. Spent[attempt'] = Spent[attempt] + least /\ Spent[attempt] \in Nat
        BY <1>2, <2>1, <3>3, SpentUnfolds
    <3>7. clock >= Spent[attempt]
        BY <1>2, <1>3, <3>6 DEF ScheduleInv
    <3> QED
        BY <1>2, <3>1, <3>3, <3>5, <3>6, <3>7
  <2> QED
      BY <1>1, <2>1, <2>2 DEF ScheduleInv
<1>4. CASE ~(state = "delivering" /\ holder = d)
  <2>1. UNCHANGED <<clock, state, attempt, due, holder>>
      BY <1>4 DEF Record
  <2>2. \A e \in Dispatchers : work'[e] = work[e] \/ work'[e].doing = "poll"
      BY <1>2 DEF Record, Idle
  <2> QED
      BY <1>1, <2>1, <2>2 DEF ScheduleInv
<1> QED
    BY <1>3, <1>4

LEMMA NextScheduleInv == ScheduleInv /\ [Next]_vars => ScheduleInv'
<1> SUFFICES ASSUME ScheduleInv, [Next]_vars PROVE ScheduleInv'
    OBVIOUS
<1>0. BackoffInv'
    BY NextBackoffInv DEF ScheduleInv
<1>1. CASE Pass
  <2>1. clock' >= clock /\ clock \in Nat /\ clock' \in Nat /\ due \in Nat
      BY <1>0, <1>1 DEF Pass, ScheduleInv, BackoffInv, TypeOK
  <2> QED
      BY <1>0, <1>1, <2>1 DEF Pass, ScheduleInv
<1>2. ASSUME NEW d \in Dispatchers, Claim(d) PROVE ScheduleInv'
  <2>1. /\ MayClaim /\ UNCHANGED <<clock, attempt, due>> /\ state' = "delivering" /\ holder' = d
        /\ work' = [work EXCEPT ![d] = [Idle EXCEPT !.doing = "post", !.attempt = attempt]]
      BY <1>2 DEF Claim
  <2>2. work'[d].attempt = attempt
      BY <1>2, <2>1 DEF ScheduleInv, BackoffInv, TypeOK, Idle
  <2>3. due >= Spent[attempt] /\ clock >= due
      BY <2>1 DEF MayClaim, ScheduleInv, BackoffInv, TypeOK
  <2> QED
      BY <1>0, <2>1, <2>2, <2>3 DEF ScheduleInv
<1>3. ASSUME NEW d \in Dispatchers, Post(d) PROVE ScheduleInv'
  <2>1. PICK doing, wait, until : Answered(d, doing, wait, until)
      BY <1>3 DEF Post
  <2>2. /\ UNCHANGED <<clock, state, attempt, due, holder>> /\ work[d].doing = "post"
        /\ work' = [work EXCEPT ![d] = [work[d] EXCEPT !.doing = doing, !.wait = wait,
                                                        !.until = until]]
      BY <2>1 DEF Answered, ScheduleInv, BackoffInv, TypeOK
  <2>3. \A e \in Dispatchers : work'[e].attempt = work[e].attempt
                               /\ (e # d => work'[e] = work[e])
      BY <2>2 DEF ScheduleInv, BackoffInv, TypeOK
  <2> QED
      BY <1>0, <2>2, <2>3 DEF ScheduleInv
<1>4. ASSUME NEW d \in Dispatchers, Record(d) PROVE ScheduleInv'
    BY <1>4, RecordKeepsSchedule
<1>5. ASSUME NEW d \in Dispatchers, Stop(d) PROVE ScheduleInv'
  <2>1. \A e \in Dispatchers : work'[e] = work[e] \/ work'[e].doing = "poll"
      BY <1>5 DEF Stop, Idle, ScheduleInv, BackoffInv, TypeOK
  <2> QED
      BY <1>0, <1>5, <2>1 DEF Stop, ScheduleInv
<1>6. CASE UNCHANGED vars
    BY <1>0, <1>6 DEF vars, ScheduleInv
<1> QED
    BY <1>1, <1>2, <1>3, <1>4, <1>5, <1>6 DEF Next

----------------------------------------------------------------------------
(* The theorems *)

\* No claim can precede what the receiver of the last recorded failure asked
\* for: the due time in the row is not before it, and an answer not yet
\* recorded will put the due time after what it asked for.
THEOREM BackoffInvariance == Spec => []BackoffInv
BY InitBackoffInv, NextBackoffInv, PTL DEF Spec

\* Every instant in the row is one the database can hold and every delay fits
\* a time.Duration, whatever number of seconds a receiver sends
\* (callback.go:230-243).
THEOREM BackoffTypeCorrect == Spec => []TypeOK
<1>1. BackoffInv => TypeOK
    BY DEF BackoffInv
<1> QED
    BY <1>1, BackoffInvariance, PTL

\* A receiver that asks for a pause a duration can hold gets it: no dispatcher
\* claims the event before the pause is over (callback.go:185, 193).
THEOREM PausesAreKept == Spec => QuietIsKept
<1>1. BackoffInv /\ [Next]_vars => [claims' # claims => clock >= quiet]_vars
  <2> SUFFICES ASSUME BackoffInv, Next PROVE claims' # claims => clock >= quiet
      OBVIOUS
  <2>1. ASSUME NEW d \in Dispatchers, Claim(d) PROVE clock >= quiet
      BY <2>1 DEF Claim, MayClaim, BackoffInv, TypeOK
  <2>2. CASE \A d \in Dispatchers : ~Claim(d)
      BY <2>2 DEF Next, Pass, Post, Answered, Record, Stop
  <2> QED
      BY <2>1, <2>2
<1> QED
    BY <1>1, BackoffInvariance, PTL DEF Spec, QuietIsKept

\* A receiver that refuses every wakeup is posted to no faster than the
\* schedule: no claim of the event with n recorded attempts precedes the sum of
\* the n shortest delays, whatever the receiver sends, whoever claims and
\* whichever dispatcher stops (callback.go:191-247, lifecycle_store.go:656-710).
THEOREM ScheduleIsKeptHolds == Spec => []ScheduleIsKept
<1>1. ScheduleInv => ScheduleIsKept
  <2> SUFFICES ASSUME ScheduleInv, state = "delivering" PROVE clock >= Spent[attempt]
      BY DEF ScheduleIsKept
  <2>1. /\ clock \in Nat /\ due \in Nat /\ attempt \in Nat
        /\ clock >= due /\ due >= Spent[attempt]
      BY DEF ScheduleInv, BackoffInv, TypeOK
  <2>2. Spent[attempt] \in Nat
      BY <2>1, SpentUnfolds
  <2> QED
      BY <2>1, <2>2
<1> QED
    BY InitScheduleInv, NextScheduleInv, <1>1, PTL DEF Spec
=============================================================================

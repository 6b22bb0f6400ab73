-------------------------- MODULE NodeTimerProofs --------------------------
(***************************************************************************)
(* The timers of a mesh node are right for every turn of millis(): for any *)
(* period, grace and wrap, however often the clock wraps.                  *)
(***************************************************************************)
EXTENDS NodeTimer, Integers, TLAPS

----------------------------------------------------------------------------
(* The difference of two readings of a clock that wraps.                   *)

\* What % means, for divisors that are not numerals.
LEMMA Remainder ==
  ASSUME NEW n \in Nat, NEW d \in Nat \ {0}
  PROVE  /\ n % d \in 0 .. d - 1
         /\ n \div d \in Nat
         /\ n = d * (n \div d) + (n % d)
  OBVIOUS

\* Up to twice the divisor the remainder takes no multiplication.
LEMMA SmallRemainder ==
  ASSUME NEW n \in Nat, NEW d \in Nat \ {0}, n < 2 * d
  PROVE  n % d = IF n < d THEN n ELSE n - d
  OBVIOUS

LEMMA Multiples ==
  ASSUME NEW d \in Nat \ {0}, NEW k \in Int, d * k > - d, d * k < 2 * d
  PROVE  d * k = 0 \/ d * k = d
<1>1. CASE k < 0
  <2>1. d * k <= d * (-1)
    BY <1>1
  <2> QED
    BY <2>1
<1>2. CASE k = 0 \/ k = 1
  BY <1>2
<1>3. CASE k > 1
  <2>1. d * k >= d * 2
    BY <1>3
  <2> QED
    BY <2>1
<1> QED
  BY <1>1, <1>2, <1>3

\* The difference of two uint32_t is the time between two readings of the
\* clock, if that is less than one turn of it; and never more than that.
LEMMA Difference ==
  ASSUME NEW w \in Nat \ {0}, NEW t \in Nat, NEW n \in Nat, t <= n
  PROVE  /\ n - t < w => ((n % w) + w - (t % w)) % w = n - t
         /\ ((n % w) + w - (t % w)) % w <= n - t
<1> DEFINE a == n % w
           b == t % w
           p == n \div w
           q == t \div w
           x == a + w - b
<1>1. a \in 0 .. w - 1 /\ p \in Nat /\ n = w * p + a
  BY Remainder
<1>2. b \in 0 .. w - 1 /\ q \in Nat /\ t = w * q + b
  BY Remainder
<1> HIDE DEF a, b, p, q
<1>3. x \in Nat /\ x < 2 * w
  BY <1>1, <1>2
<1>4. x % w = IF x < w THEN x ELSE x - w
  BY <1>3, SmallRemainder
<1>5. ASSUME n - t < w
      PROVE  x % w = n - t
  <2>1. w * (p - q) = (n - t) - (a - b)
    BY <1>1, <1>2
  <2>2. w * (p - q) > - w /\ w * (p - q) < 2 * w /\ p - q \in Int
    BY <1>1, <1>2, <1>5, <2>1
  <2>3. w * (p - q) = 0 \/ w * (p - q) = w
    BY <2>2, Multiples
  <2>4. n - t = a - b \/ n - t = a - b + w
    BY <1>1, <1>2, <2>1, <2>3
  <2> QED
    BY <1>1, <1>2, <1>4, <1>5, <2>4
<1>6. x % w <= n - t
  <2>1. x % w < w
    BY <1>1, <1>2, <1>4
  <2>2. x % w \in Nat
    BY <1>1, <1>2, <1>3, <1>4
  <2> QED
    BY <1>5, <2>1, <2>2
<1> QED
  BY <1>5, <1>6 DEF a, b
----------------------------------------------------------------------------

Typed ==
  /\ pc \in {"gps", "timer", "send", "listen"}
  /\ now \in Nat /\ pass \in 0 .. MaxPass
  /\ valid \in BOOLEAN
  /\ decided \in 0 .. now /\ lastFix \in 0 .. now

\* The variables of the program are the times they stand for, less the turns
\* of the clock.
Readings ==
  /\ lastBroadcast = decided % Wrap
  /\ ~ valid => gpsLastValidTime = lastFix % Wrap /\ lastFix <= MaxPass

\* How long ago the timer ran out at most, at each place of the loop: less
\* than the period and what loop() has taken since it tested the timer.
Lag ==
  now - decided <
    pass + CASE pc = "send"   -> 1
             [] pc = "listen" -> Period
             [] pc = "gps"    -> Period + MaxPass
             [] pc = "timer"  -> Period + 2 * MaxPass

\* Punctual is not inductive: what bounds the time to the next test is where
\* the program is, and that the test itself is right.
IInv == Typed /\ Readings /\ Lag

----------------------------------------------------------------------------

\* While the timer is punctual the difference is the time since it ran out.
LEMMA SinceIs ==
  ASSUME IInv
  PROVE  since(lastBroadcast) = now - decided
<1>1. /\ {Period, MaxPass, Wrap} \subseteq Nat \ {0}
      /\ Period + 3 * MaxPass < Wrap
  BY TimesAssumption
<1>2. now - decided < Wrap
  BY <1>1 DEF IInv, Typed, Lag
<1>3. now \in Nat /\ decided \in Nat /\ decided <= now /\ lastBroadcast = decided % Wrap
  BY DEF IInv, Typed, Readings
<1> QED
  BY <1>1, <1>2, <1>3, Difference DEF since, millis

\* The time since the last fix may be many turns of the clock, and is never
\* taken for more than it is.
LEMMA SinceAtMost ==
  ASSUME IInv, ~ valid
  PROVE  since(gpsLastValidTime) <= now - lastFix
<1>1. Wrap \in Nat \ {0}
  BY TimesAssumption
<1>2. now \in Nat /\ lastFix \in Nat /\ lastFix <= now /\ gpsLastValidTime = lastFix % Wrap
  BY DEF IInv, Typed, Readings
<1> QED
  BY <1>1, <1>2, Difference DEF since, millis

LEMMA InitIInv == Init => IInv
<1> SUFFICES ASSUME Init
             PROVE  IInv
  OBVIOUS
<1>1. {Period, MaxPass, Wrap} \subseteq Nat \ {0} /\ MaxPass < Wrap
  BY TimesAssumption
<1>2. 0 % Wrap = 0
  BY <1>1, SmallRemainder
<1>3. /\ pc = "gps" /\ now \in 0 .. MaxPass /\ pass = 0 /\ valid = FALSE
      /\ decided = 0 /\ lastFix = now /\ lastBroadcast = 0
      /\ gpsLastValidTime = now % Wrap
  BY DEF Init, millis
<1>4. Typed
  <2>1. valid \in BOOLEAN
    BY <1>3
  <2>2. now \in Nat /\ pass \in 0 .. MaxPass /\ decided \in 0 .. now /\ lastFix \in 0 .. now
    BY <1>1, <1>3
  <2> QED
    BY <1>3, <2>1, <2>2 DEF Typed
<1>5. Lag
  BY <1>1, <1>3 DEF Lag
<1>6. Readings
  BY <1>1, <1>2, <1>3 DEF Readings
<1> QED
  BY <1>4, <1>5, <1>6 DEF IInv

\* The timer goes on running.
LEMMA TimerRunsIInv == IInv /\ TimerRuns => IInv'
<1> SUFFICES ASSUME IInv, TimerRuns
             PROVE  IInv'
  OBVIOUS
<1>1. {Period, MaxPass} \subseteq Nat \ {0}
  BY TimesAssumption
<1>2. now - decided < Period
  <2>1. ~ (since(lastBroadcast) >= Period) /\ since(lastBroadcast) = now - decided
    BY SinceIs DEF TimerRuns, TimerRunOut
  <2> QED
    BY <1>1, <2>1 DEF IInv, Typed
<1>3. /\ pc' = "listen" /\ pass' = 0 /\ now' = now /\ valid' = valid
      /\ decided' = decided /\ lastFix' = lastFix
      /\ lastBroadcast' = lastBroadcast /\ gpsLastValidTime' = gpsLastValidTime
  BY DEF TimerRuns, Goto, history
<1> QED
  BY <1>1, <1>2, <1>3 DEF IInv, Typed, Readings, Lag

\* The timer has run out, and is started again.
LEMMA RestartIInv == IInv /\ (SendFix \/ SendFake \/ SkipBroadcast) => IInv'
<1> SUFFICES ASSUME IInv, SendFix \/ SendFake \/ SkipBroadcast
             PROVE  IInv'
  OBVIOUS
<1>1. {Period, MaxPass} \subseteq Nat \ {0}
  BY TimesAssumption
<1>2. /\ pc' \in {"send", "gps"} /\ pass' = 0 /\ now' = now /\ valid' = valid
      /\ lastBroadcast' = now % Wrap /\ decided' = now
      /\ lastFix' = lastFix /\ gpsLastValidTime' = gpsLastValidTime
  BY DEF SendFix, SendFake, SkipBroadcast, RestartTimer, Send, Goto, millis
<1> QED
  BY <1>1, <1>2 DEF IInv, Typed, Readings, Lag

LEMMA ReadGPSIInv == IInv /\ ReadGPS => IInv'
<1> SUFFICES ASSUME IInv, ReadGPS
             PROVE  IInv'
  OBVIOUS
<1>1. {Period, MaxPass} \subseteq Nat \ {0}
  BY TimesAssumption
<1>2. /\ pc = "gps" /\ pc' = "timer" /\ pass' = 0 /\ now' = now
      /\ decided' = decided /\ lastBroadcast' = lastBroadcast
  BY DEF ReadGPS, Goto
<1>3. /\ valid' \in BOOLEAN /\ lastFix' \in 0 .. now
      /\ ~ valid' => ~ valid /\ lastFix' = lastFix /\ gpsLastValidTime' = gpsLastValidTime
  <2>1. CASE Commits
    BY <2>1 DEF Commits, IInv, Typed
  <2>2. CASE UNCHANGED <<valid, lastFix>>
    <3>1. ~ valid => gpsLastValidTime' = gpsLastValidTime
      BY <2>2 DEF ReadGPS, NoteValid
    <3> QED
      BY <2>2, <3>1 DEF IInv, Typed
  <2> QED
    BY <2>1, <2>2 DEF ReadGPS
<1>4. Typed' /\ Readings'
  BY <1>1, <1>2, <1>3 DEF IInv, Typed, Readings
<1>5. Lag'
  BY <1>1, <1>2 DEF IInv, Typed, Lag
<1> QED
  BY <1>4, <1>5 DEF IInv

LEMMA NextIInv == IInv /\ [Next]_vars => IInv'
<1> SUFFICES ASSUME IInv, [Next]_vars
             PROVE  IInv'
  OBVIOUS
<1>1. {Period, MaxPass} \subseteq Nat \ {0} /\ MaxPass < Period
  BY TimesAssumption
<1>2. CASE Tick
  <2>1. /\ now' = now + 1 /\ pass' = pass + 1 /\ pass < MaxPass
        /\ pc' = pc /\ valid' = valid /\ decided' = decided /\ lastFix' = lastFix
        /\ lastBroadcast' = lastBroadcast /\ gpsLastValidTime' = gpsLastValidTime
    BY <1>2 DEF Tick, program, history
  <2>2. Typed' /\ Readings'
    BY <1>1, <2>1 DEF IInv, Typed, Readings
  <2>3. Lag'
    BY <1>1, <2>1 DEF IInv, Typed, Lag
  <2> QED
    BY <2>2, <2>3 DEF IInv
<1>3. CASE FixChanges
  BY <1>3 DEF FixChanges, program, history, IInv, Typed, Readings, Lag
<1>4. CASE ReadGPS
  BY <1>4, ReadGPSIInv
<1>5. CASE TimerRuns
  BY <1>5, TimerRunsIInv
<1>6. CASE SendFix \/ SendFake \/ SkipBroadcast
  BY <1>6, RestartIInv
<1>7. CASE Sent
  BY <1>1, <1>7 DEF Sent, Goto, history, IInv, Typed, Readings, Lag
<1>8. CASE Listened
  BY <1>1, <1>8 DEF Listened, Goto, history, IInv, Typed, Readings, Lag
<1>9. CASE UNCHANGED vars
  BY <1>9 DEF vars, program, history, IInv, Typed, Readings, Lag
<1> QED
  BY <1>2, <1>3, <1>4, <1>5, <1>6, <1>7, <1>8, <1>9 DEF Next

----------------------------------------------------------------------------

\* The timer never runs out late, for any period, and any turn of millis().
THEOREM TimerIsPunctual == Spec => []Punctual
<1>1. IInv => Punctual
  <2>1. {Period, MaxPass} \subseteq Nat \ {0}
    BY TimesAssumption
  <2> QED
    BY <2>1 DEF IInv, Typed, Lag, Punctual
<1> QED
  BY <1>1, InitIInv, NextIInv, PTL DEF Spec

\* Nor does it ever run out early.
THEOREM BroadcastsAreSpaced == Spec => Spaced
<1>1. IInv /\ [Next]_vars => [SpacedStep]_vars
  <2> SUFFICES ASSUME IInv, Next
               PROVE  SpacedStep
    BY DEF SpacedStep, vars, history
  <2>1. CASE SendFix \/ SendFake \/ SkipBroadcast
    <3>1. TimerRunOut /\ decided' = now
      BY <2>1 DEF SendFix, SendFake, SkipBroadcast, RestartTimer
    <3> QED
      BY <3>1, SinceIs DEF TimerRunOut, SpacedStep
  <2>2. CASE \/ Tick \/ FixChanges \/ ReadGPS \/ TimerRuns \/ Sent \/ Listened
    BY <2>2 DEF Tick, FixChanges, ReadGPS, TimerRuns, Sent, Listened, history, SpacedStep
  <2> QED
    BY <2>1, <2>2 DEF Next
<1> QED
  BY <1>1, InitIInv, NextIInv, PTL DEF Spec, Spaced

\* A fake place is sent only by a node that never had a fix, and not before
\* the grace period is over.
THEOREM FakesNeedGrace == Spec => FakeOnlyWithoutFix
<1>1. IInv /\ [Next]_vars => [FakeStep]_vars
  <2> SUFFICES ASSUME IInv, Next
               PROVE  FakeStep
    BY DEF FakeStep, vars, history
  <2>1. CASE SendFake
    <3>1. ~ valid /\ since(gpsLastValidTime) >= Grace /\ now' = now /\ lastFix' = lastFix
      BY <2>1 DEF SendFake, GraceOver
    <3>2. since(gpsLastValidTime) <= now - lastFix /\ lastFix <= MaxPass
      BY <3>1, SinceAtMost DEF IInv, Readings
    <3>3. since(gpsLastValidTime) \in Nat /\ Grace \in Nat
      <4>1. Wrap \in Nat \ {0} /\ Grace \in Nat
        BY TimesAssumption
      <4>2. millis \in Nat /\ gpsLastValidTime \in 0 .. Wrap - 1
        BY <3>1, <4>1, Remainder DEF millis, IInv, Typed, Readings
      <4>3. millis + Wrap - gpsLastValidTime \in Nat
        BY <4>1, <4>2
      <4>4. ASSUME NEW x \in Nat
            PROVE  x % Wrap \in Nat
        BY <4>1, Remainder
      <4> QED
        BY <4>1, <4>3, <4>4 DEF since
    <3> QED
      BY <3>1, <3>2, <3>3 DEF FakeStep, IInv, Typed
  <2>2. CASE SendFix
    BY <2>2 DEF SendFix, Send, FakeStep
  <2>3. CASE \/ Tick \/ FixChanges \/ ReadGPS \/ TimerRuns \/ SkipBroadcast
             \/ Sent \/ Listened
    BY <2>3 DEF Tick, FixChanges, ReadGPS, TimerRuns, SkipBroadcast, Sent,
                Listened, history, FakeStep
  <2> QED
    BY <2>1, <2>2, <2>3 DEF Next
<1> QED
  BY <1>1, InitIInv, NextIInv, PTL DEF Spec, FakeOnlyWithoutFix

----------------------------------------------------------------------------
(* The silence of a node without a fix.                                    *)

\* The longest time from one test of a timer that ran out to the next.
Round == Period + 3 * MaxPass

\* How much of the grace period was over when the last broadcast was skipped,
\* as the program took it: less, by some turns of millis(), than the time
\* since the last fix.
Elapsed == (decided - lastFix) % Wrap

\* While broadcasts are skipped the time since the last one is what the
\* program takes the grace period to have run for, and one round before it.
Silence ==
  /\ sentAt \in 0 .. decided
  /\ decided # sentAt =>
       /\ decided - sentAt < Grace + Round
       /\ ~ valid => /\ lastFix <= decided
                     /\ Elapsed < Grace
                     /\ decided - sentAt < Elapsed + Round

\* Within one turn of the clock a remainder grows as the number does.
LEMMA RemainderGrows ==
  ASSUME NEW d \in Nat \ {0}, NEW n \in Nat, NEW k \in Nat, (n % d) + k < d
  PROVE  (n + k) % d = (n % d) + k
<1> DEFINE q == n \div d
           r == n % d
           p == (n + k) \div d
           s == (n + k) % d
<1>1. r \in 0 .. d - 1 /\ q \in Nat /\ n = d * q + r
  BY Remainder
<1>2. s \in 0 .. d - 1 /\ p \in Nat /\ n + k = d * p + s
  <2>1. n + k \in Nat
    OBVIOUS
  <2> QED
    BY <2>1, Remainder
<1>3. r + k < d
  OBVIOUS
<1> HIDE DEF q, r, p, s
<1>4. d * (p - q) = r + k - s /\ p - q \in Int
  BY <1>1, <1>2
<1>5. d * (p - q) > - d /\ d * (p - q) < d
  BY <1>1, <1>2, <1>3, <1>4
<1>6. d * (p - q) = 0
  <2>1. d * (p - q) = 0 \/ d * (p - q) = d
    BY <1>4, <1>5, Multiples
  <2> QED
    BY <1>4, <1>5, <2>1
<1>7. s = r + k
  BY <1>1, <1>2, <1>4, <1>6
<1> QED
  BY <1>7 DEF r, s

\* The difference of two uint32_t is the time between them, up to whole turns.
LEMMA DifferenceIs ==
  ASSUME NEW w \in Nat \ {0}, NEW t \in Nat, NEW n \in Nat, t <= n
  PROVE  ((n % w) + w - (t % w)) % w = (n - t) % w
<1> DEFINE a == n % w
           b == t % w
           p == n \div w
           q == t \div w
           c == (n - t) % w
           m == (n - t) \div w
           x == a + w - b
<1>1. a \in 0 .. w - 1 /\ p \in Nat /\ n = w * p + a
  BY Remainder
<1>2. b \in 0 .. w - 1 /\ q \in Nat /\ t = w * q + b
  BY Remainder
<1>3. c \in 0 .. w - 1 /\ m \in Nat /\ n - t = w * m + c
  <2>1. n - t \in Nat
    OBVIOUS
  <2> QED
    BY <2>1, Remainder
<1> HIDE DEF a, b, c, p, q, m
<1>4. x \in Nat /\ x < 2 * w
  BY <1>1, <1>2
<1>5. x % w = IF x < w THEN x ELSE x - w
  BY <1>4, SmallRemainder
<1>6. w * (p - q - m) = c - (a - b) /\ p - q - m \in Int
  BY <1>1, <1>2, <1>3
<1>7. w * (p - q - m) > - w /\ w * (p - q - m) < 2 * w
  BY <1>1, <1>2, <1>3, <1>6
<1>8. w * (p - q - m) = 0 \/ w * (p - q - m) = w
  BY <1>6, <1>7, Multiples
<1>9. x % w = c
  BY <1>1, <1>2, <1>3, <1>5, <1>6, <1>8
<1> QED
  BY <1>9 DEF a, b, c

\* A broadcast is skipped: the silence has lasted as long as the part of the
\* grace period that the program takes to be over, and a round at most.
LEMMA SkipSilence ==
  ASSUME Grace + Round <= Wrap, IInv, Silence, SkipBroadcast
  PROVE  Silence'
<1>1. {Period, MaxPass, Wrap, Grace} \subseteq Nat \ {0} /\ Round \in Nat
  BY TimesAssumption DEF Round
<1>2. /\ pc = "timer" /\ ~ valid /\ valid' = valid /\ decided' = now
      /\ lastFix' = lastFix /\ sentAt' = sentAt
      /\ ~ (since(gpsLastValidTime) >= Grace)
  BY DEF SkipBroadcast, Goto, RestartTimer, GraceOver
<1>3. /\ now \in Nat /\ decided \in 0 .. now /\ lastFix \in 0 .. now
      /\ now - decided < Round
  BY <1>1, <1>2 DEF IInv, Typed, Lag, Round
<1>4. since(gpsLastValidTime) = (now - lastFix) % Wrap
  <2>1. Wrap \in Nat \ {0} /\ now \in Nat /\ lastFix \in Nat /\ lastFix <= now
    BY <1>1, <1>3
  <2>2. gpsLastValidTime = lastFix % Wrap
    BY <1>2 DEF IInv, Readings
  <2> QED
    BY <2>1, <2>2, DifferenceIs DEF since, millis
<1>5. (now - lastFix) % Wrap \in Nat /\ (now - lastFix) % Wrap < Grace
  <2>1. now - lastFix \in Nat
    BY <1>3
  <2>2. (now - lastFix) % Wrap \in 0 .. Wrap - 1
    BY <1>1, <2>1, Remainder
  <2> QED
    BY <1>1, <1>2, <1>4, <2>2
<1>6. sentAt \in 0 .. decided
  BY DEF Silence
<1>7. now - sentAt < ((now - lastFix) % Wrap) + Round
  <2>1. CASE decided = sentAt
    BY <1>1, <1>3, <1>5, <2>1
  <2>2. CASE decided # sentAt
    <3>1. /\ lastFix <= decided /\ Elapsed < Grace
          /\ decided - sentAt < Elapsed + Round
      BY <1>2, <2>2 DEF Silence
    <3>2. decided - lastFix \in Nat /\ now - decided \in Nat
      BY <1>3, <3>1
    <3>3. Elapsed \in 0 .. Wrap - 1
      BY <1>1, <3>2, Remainder DEF Elapsed
    <3>4. Elapsed + (now - decided) < Wrap
      BY <1>1, <1>3, <3>1, <3>3
    <3>5. ((decided - lastFix) + (now - decided)) % Wrap = Elapsed + (now - decided)
      BY <1>1, <3>2, <3>4, RemainderGrows DEF Elapsed
    <3>6. (decided - lastFix) + (now - decided) = now - lastFix
      BY <1>3
    <3>7. (now - lastFix) % Wrap = Elapsed + (now - decided)
      BY <3>5, <3>6
    <3> QED
      BY <1>1, <1>3, <1>6, <3>1, <3>3, <3>7
  <2> QED
    BY <2>1, <2>2
<1>8. now - sentAt < Grace + Round
  BY <1>1, <1>3, <1>5, <1>6, <1>7
<1> QED
  BY <1>2, <1>3, <1>5, <1>6, <1>7, <1>8 DEF Silence, Elapsed

LEMMA NextSilence ==
  ASSUME Grace + Round <= Wrap, IInv, Silence, [Next]_vars
  PROVE  Silence'
<1>1. CASE SkipBroadcast
  BY <1>1, SkipSilence
<1>2. CASE SendFix \/ SendFake
  <2>1. sentAt' = now /\ decided' = now
    BY <1>2 DEF SendFix, SendFake, Send, RestartTimer
  <2> QED
    BY <2>1 DEF Silence, IInv, Typed
<1>3. CASE ReadGPS
  <2>1. decided' = decided /\ sentAt' = sentAt
    BY <1>3 DEF ReadGPS
  <2>2. ~ valid' => ~ valid /\ lastFix' = lastFix
    BY <1>3 DEF ReadGPS, Commits
  <2> QED
    BY <2>1, <2>2 DEF Silence, Elapsed
<1>4. CASE \/ Tick \/ FixChanges \/ TimerRuns \/ Sent \/ Listened
           \/ UNCHANGED vars
  <2>1. UNCHANGED <<valid, history>>
    BY <1>4 DEF Tick, FixChanges, TimerRuns, Sent, Listened, vars, program
  <2> QED
    BY <2>1 DEF Silence, Elapsed, history
<1> QED
  BY <1>1, <1>2, <1>3, <1>4 DEF Next

----------------------------------------------------------------------------

\* A node falls silent for the grace period and two rounds of its timer at
\* most, also when millis() has come round to gpsLastValidTime: as long as one
\* turn of millis() has room for the grace period and a round (in the source,
\* 49.7 days for 10 s and 5 s).
THEOREM SilenceIsBounded ==
  ASSUME Grace + Period + 3 * MaxPass <= Wrap
  PROVE  Spec => []NeverSilentForLong
<1>1. {Period, MaxPass, Grace} \subseteq Nat \ {0} /\ Grace + Round <= Wrap
  BY TimesAssumption DEF Round
<1>2. Init => Silence
  BY DEF Init, Silence
<1>3. IInv /\ Silence /\ [Next]_vars => Silence'
  BY <1>1, NextSilence
<1>4. IInv /\ Silence => NeverSilentForLong
  <2> SUFFICES ASSUME IInv, Silence
               PROVE  NeverSilentForLong
    OBVIOUS
  <2>1. /\ now \in Nat /\ decided \in 0 .. now /\ sentAt \in 0 .. decided
        /\ now - decided < Round /\ Round \in Nat
    BY <1>1 DEF IInv, Typed, Lag, Silence, Round
  <2>2. decided - sentAt < Grace + Round
    BY <1>1, <2>1 DEF Silence, Round
  <2>3. now - sentAt < Grace + 2 * Round
    BY <1>1, <2>1, <2>2
  <2> QED
    BY <2>3 DEF NeverSilentForLong, Round
<1> QED
  BY <1>2, <1>3, <1>4, InitIInv, NextIInv, PTL DEF Spec
=============================================================================

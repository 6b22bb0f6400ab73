----------------------------- MODULE NodeTimer -----------------------------
(***************************************************************************)
(* When a mesh node broadcasts, and what: the timers of loop() and the     *)
(* validity of the GPS fix, over millis(), which wraps around (after 49.7  *)
(* days in the source, after Wrap ticks here).                             *)
(***************************************************************************)
EXTENDS Naturals

CONSTANTS
  Period,   \* 5000 ms
  Grace,    \* 10000 ms
  Wrap,     \* 2^32 ms
  MaxPass,  \* the longest time from one reading of the clock to the next
  MaxTime   \* bound on the clock

ASSUME TimesAssumption ==
  /\ {Period, Grace, Wrap, MaxPass, MaxTime} \subseteq Nat \ {0}
  /\ MaxPass < Period
  /\ Period + 3 * MaxPass < Wrap /\ Grace + MaxPass < Wrap

VARIABLES
  pc,                \* where loop() is
  now,               \* the time since the node was switched on
  pass,              \* how long loop() has been at pc
  fix,               \* the GPS receiver has a fix and says so
  valid,             \* gps.location.isValid() && gps.altitude.isValid()
  gpsLastValidTime,
  lastBroadcast,
  lastFix,           \* when the GPS receiver was last heard to have a fix
  decided,           \* when the broadcast timer last ran out
  sentAt,            \* when a broadcast was last sent
  content            \* what was last sent: "nothing", a "real" or "fake" place

program == <<pc, valid, gpsLastValidTime, lastBroadcast>>
history == <<lastFix, decided, sentAt, content>>
vars == <<program, history, now, pass, fix>>

millis == now % Wrap

\* Subtraction of uint32_t.
since(t) == (millis + Wrap - t) % Wrap

\* loop() is called for the first time: gpsLastValidTime is initialised.
Init ==
  /\ pc = "gps"
  /\ now \in 0 .. MaxPass
  /\ pass = 0
  /\ fix \in BOOLEAN
  /\ valid = FALSE
  /\ gpsLastValidTime = millis
  /\ lastBroadcast = 0
  /\ lastFix = now
  /\ decided = 0
  /\ sentAt = 0
  /\ content = "nothing"

Tick ==
  /\ now < MaxTime
  /\ pass < MaxPass
  /\ now' = now + 1
  /\ pass' = pass + 1
  /\ UNCHANGED <<program, history, fix>>

\* The receiver finds or loses the sky.
FixChanges == fix' = ~ fix /\ UNCHANGED <<program, history, now, pass>>

Goto(from, to) == pc = from /\ pc' = to /\ pass' = 0

----------------------------------------------------------------------------
(* gps.encode and the two isValid.  The library commits a position only of *)
(* a sentence with a fix, and never takes its validity back.               *)

Commits == valid' = TRUE /\ lastFix' = now

NoteValid ==
  gpsLastValidTime' = IF valid' THEN millis ELSE gpsLastValidTime

ReadGPS ==
  /\ Goto("gps", "timer")
  /\ \/ fix /\ Commits
     \/ UNCHANGED <<valid, lastFix>>
  /\ NoteValid
  /\ UNCHANGED <<lastBroadcast, decided, sentAt, content, now, fix>>

----------------------------------------------------------------------------
(* The broadcast.                                                          *)

\* Mutant: the sum of two uint32_t is compared, and wraps.
TimerRunOutBySum == millis >= (lastBroadcast + Period) % Wrap

TimerRunOut == since(lastBroadcast) >= Period

\* Mutant: the wrong constant.
GraceOverAfterPeriod == since(gpsLastValidTime) >= Period

\* Mutant: the grace period is counted from the last broadcast.
GraceOverSinceBroadcast == since(lastBroadcast) >= Grace

GraceOver == since(gpsLastValidTime) >= Grace

\* Mutant: lastBroadcast is moved on by the period instead of set to now.
RestartTimerByPeriod ==
  /\ lastBroadcast' = (lastBroadcast + Period) % Wrap
  /\ decided' = now

RestartTimer == lastBroadcast' = millis /\ decided' = now

Send(what) ==
  /\ Goto("timer", "send")
  /\ content' = what
  /\ sentAt' = now

TimerRuns ==
  /\ ~ TimerRunOut
  /\ Goto("timer", "listen")
  /\ UNCHANGED <<valid, gpsLastValidTime, lastBroadcast, history, now, fix>>

SendFix ==
  /\ TimerRunOut
  /\ valid
  /\ RestartTimer
  /\ Send("real")
  /\ UNCHANGED <<valid, gpsLastValidTime, lastFix, now, fix>>

SendFake ==
  /\ TimerRunOut
  /\ ~ valid
  /\ GraceOver
  /\ RestartTimer
  /\ Send("fake")
  /\ UNCHANGED <<valid, gpsLastValidTime, lastFix, now, fix>>

\* Within the grace period: return.
SkipBroadcast ==
  /\ TimerRunOut
  /\ ~ valid
  /\ ~ GraceOver
  /\ RestartTimer
  /\ Goto("timer", "gps")
  /\ UNCHANGED <<valid, gpsLastValidTime, lastFix, sentAt, content, now, fix>>

\* send, waitPacketSent and delay(100) are over.
Sent ==
  /\ Goto("send", "listen")
  /\ UNCHANGED <<valid, gpsLastValidTime, lastBroadcast, history, now, fix>>

\* A packet was received and relayed, or none was.
Listened ==
  /\ Goto("listen", "gps")
  /\ UNCHANGED <<valid, gpsLastValidTime, lastBroadcast, history, now, fix>>

Next ==
  \/ Tick \/ FixChanges
  \/ ReadGPS \/ TimerRuns \/ SendFix \/ SendFake \/ SkipBroadcast
  \/ Sent \/ Listened

Spec == Init /\ [][Next]_vars

----------------------------------------------------------------------------

TypeOK ==
  /\ pc \in {"gps", "timer", "send", "listen"}
  /\ now \in Nat /\ pass \in 0 .. MaxPass
  /\ {fix, valid} \subseteq BOOLEAN
  /\ gpsLastValidTime \in 0 .. Wrap - 1 /\ lastBroadcast \in 0 .. Wrap - 1
  /\ {lastFix, decided, sentAt} \subseteq 0 .. now
  /\ content \in {"nothing", "real", "fake"}

\* The timer never runs out early, the wrap of millis() included: between two
\* readings that are broadcast or skipped 5 s pass.
SpacedStep == decided' # decided => decided' - decided >= Period

Spaced == [][SpacedStep]_vars

\* Nor does it run out late by a turn of the loop: the three stretches
\* of program between two tests of the timer.
Punctual == now - decided < Period + 3 * MaxPass

\* The place that is sent is a fake one only if the receiver had no fix since
\* the node was switched on, and for 10 s at least.
FakeStep ==
  content' = "fake" /\ sentAt' # sentAt =>
    lastFix <= MaxPass /\ now - lastFix >= Grace

FakeOnlyWithoutFix == [][FakeStep]_vars

\* A node is never silent for longer than the grace period and two rounds of
\* the timer, though each time millis() comes round to gpsLastValidTime a node
\* without a fix falls silent for the grace period once more.
NeverSilentForLong == now - sentAt < Grace + 2 * (Period + 3 * MaxPass)

----------------------------------------------------------------------------

\* "GPS invalid for 10+ seconds, send fake coordinates" (line 133): what is
\* sent after 10 s or more without a fix is a fake place.  It is not, for the
\* validity of a place is never taken back.
FakeAfterGraceStep ==
  sentAt' # sentAt /\ ~ fix /\ now - lastFix >= Grace => content' = "fake"

FakeAfterGrace == [][FakeAfterGraceStep]_vars
=============================================================================

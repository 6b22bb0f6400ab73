------------------------------ MODULE BaudScan ------------------------------
(***************************************************************************)
(* NMEAdiagnostic.ino: the scan for the baud rate of a GPS receiver.  It   *)
(* listens at one rate after another until sentences arrive or all rates   *)
(* were tried, and then hangs.                                             *)
(*                                                                         *)
(* A tick is half a second.  The receiver sends in the first Burst ticks   *)
(* of every Period; in a tick there is time for many turns of loop().      *)
(***************************************************************************)
EXTENDS Naturals

CONSTANTS
  num_bauds, INITIAL_BAUD_INDEX,
  Period, Burst,  \* of the receiver
  Wait,           \* 1000 ms
  Long,           \* 3000 ms
  Delay,          \* delay(2000)
  Wrap,           \* 2^32 ms
  MAX_SAMPLE,     \* the characters kept, counted in ticks of sending
  Enough,         \* 20 sentences, counted in ticks of sending
  Silent          \* the rate of a receiver that sends no sentences

ASSUME BaudsAssumption ==
  /\ num_bauds \in Nat /\ INITIAL_BAUD_INDEX \in 0 .. num_bauds - 1
  /\ Silent \notin 0 .. num_bauds - 1
ASSUME TimesAssumption ==
  /\ {Period, Burst, Wait, Long, Delay, Wrap, MAX_SAMPLE, Enough} \subseteq Nat
  /\ 0 < Burst /\ Burst <= Period
  /\ Wrap > Long + Delay + Period /\ Wrap % Period = 0

VARIABLES
  rate,                     \* the receiver's rate
  on,                       \* the receiver sends
  now,                      \* millis()
  ran,                      \* loop() ran since the last tick
  port,                     \* what there is to read: "none", "chars" or a
                            \* "sentence" among them
  last_rx,
  valid_sentence_received,  \* when, 0 for never
  baudStartTime,
  baud_index,
  tries,
  someCharsIndex,
  sentences_printed,
  outcome                   \* "scanning", and in hang(): "found" by GPSloop,
                            \* "late" by listenForSomething, or "all tried"

receiver == <<rate, on>>
scan == <<baud_index, baudStartTime>>
counts == <<tries, someCharsIndex, sentences_printed>>
scanVars == <<receiver, now, ran, port, last_rx, valid_sentence_received,
              scan, counts, outcome>>

Bauds == 0 .. num_bauds - 1

since(t) == (now + Wrap - t) % Wrap

\* setup() is over: tryBaud() was called with the initial rate.
ScanInit ==
  /\ rate \in Bauds \union {Silent}
  /\ on \in BOOLEAN
  /\ now \in 1 .. Period
  /\ ran = FALSE
  /\ port = "none"
  /\ last_rx = 0
  /\ valid_sentence_received = 0
  /\ baudStartTime = now
  /\ baud_index = INITIAL_BAUD_INDEX
  /\ tries = 1
  /\ someCharsIndex = 0
  /\ sentences_printed = 0
  /\ outcome = "scanning"

----------------------------------------------------------------------------
(* The receiver.                                                           *)

SendsAt(time) == on /\ time % Period < Burst

\* At the right rate whole sentences arrive; at a wrong one characters of
\* some kind, or none.
ScanTick ==
  /\ outcome = "scanning" /\ ran
  /\ now' = (now + 1) % Wrap
  /\ ran' = FALSE
  /\ IF SendsAt(now')
     THEN IF rate = baud_index THEN port' = "sentence"
                               ELSE port' \in {"chars", "none"}
     ELSE UNCHANGED port
  /\ UNCHANGED <<receiver, last_rx, valid_sentence_received, scan, counts,
                 outcome>>

\* The receiver is disconnected.
Unplug ==
  /\ on
  /\ on' = FALSE
  /\ UNCHANGED <<rate, now, ran, port, last_rx, valid_sentence_received, scan,
                 counts, outcome>>

----------------------------------------------------------------------------
(* GPSloop                                                                 *)

Loop == outcome = "scanning" /\ ran' = TRUE /\ UNCHANGED <<receiver, now>>

Keep == someCharsIndex' =
          IF someCharsIndex < MAX_SAMPLE THEN someCharsIndex + 1
                                         ELSE someCharsIndex

\* Characters without a sentence.
ReadChars ==
  /\ Loop
  /\ port = "chars"
  /\ port' = "none"
  /\ last_rx' = now
  /\ Keep
  /\ UNCHANGED <<valid_sentence_received, scan, tries, sentences_printed,
                 outcome>>

LongEnough == since(baudStartTime) > Long

\* displaySentences() dumps the characters.
ReadSentence ==
  /\ Loop
  /\ port = "sentence"
  /\ port' = "none"
  /\ last_rx' = now
  /\ valid_sentence_received' = now
  /\ IF LongEnough \/ (sentences_printed >= Enough
                       /\ someCharsIndex >= MAX_SAMPLE)
     THEN outcome' = "found" /\ someCharsIndex' = 0
     ELSE UNCHANGED outcome /\ Keep
  /\ sentences_printed' = IF LongEnough THEN sentences_printed
                          ELSE (sentences_printed + 1) % 256
  /\ UNCHANGED <<scan, tries>>

----------------------------------------------------------------------------
(* listenForSomething                                                      *)

\* A tick without a character is longer than 5 ms.
Quiet == port = "none" /\ since(last_rx) > 0

WaitedLongEnough == since(baudStartTime) > Wait

Listens ==
  /\ Loop
  /\ \/ valid_sentence_received = 0
     \/ since(valid_sentence_received) > Long
  /\ Quiet
  /\ WaitedLongEnough
  /\ UNCHANGED <<last_rx, sentences_printed>>

\* Mutant: the time is not taken anew.
StartAtStale(baud, time) ==
  /\ baud_index' = baud
  /\ UNCHANGED baudStartTime

\* tryBaud()
StartAt(baud, time) ==
  /\ baud_index' = baud
  /\ baudStartTime' = time

NextBaud ==
  IF baud_index = INITIAL_BAUD_INDEX THEN 0
  ELSE IF baud_index + 1 = INITIAL_BAUD_INDEX THEN baud_index + 2
  ELSE baud_index + 1

\* tryAnotherBaudRate(), after which valid_sentence_received is reset.
TryAnother(time) ==
  /\ port' = "none"
  /\ tries' = 1
  /\ IF NextBaud >= num_bauds
     THEN /\ outcome' = "all tried"
          /\ baud_index' = INITIAL_BAUD_INDEX
          /\ UNCHANGED <<baudStartTime, valid_sentence_received>>
     ELSE /\ StartAt(NextBaud, time)
          /\ valid_sentence_received' = 0
          /\ UNCHANGED outcome

NoDataYet ==
  /\ Listens
  /\ someCharsIndex = 0
  /\ tries < 3
  /\ tries' = tries + 1
  /\ UNCHANGED <<port, valid_sentence_received, scan, someCharsIndex, outcome>>

NoData ==
  /\ Listens
  /\ someCharsIndex = 0
  /\ tries >= 3
  /\ TryAnother(now)
  /\ UNCHANGED <<someCharsIndex>>

\* (What is printed as the time that has passed since is the time of
\* valid_sentence_received itself.)
FoundLate ==
  /\ Listens
  /\ someCharsIndex > 0
  /\ valid_sentence_received # 0
  /\ someCharsIndex' = 0
  /\ outcome' = "late"
  /\ UNCHANGED <<port, valid_sentence_received, scan, tries>>

Later(time) == (time + Delay) % Wrap

\* dumpSomeChars(), delay(2000).  What arrives meanwhile is discarded.
NoSentences ==
  /\ outcome = "scanning" /\ ran' = TRUE /\ UNCHANGED receiver
  /\ valid_sentence_received = 0
  /\ Quiet /\ WaitedLongEnough
  /\ someCharsIndex > 0
  /\ someCharsIndex' = 0
  /\ now' = Later(now)
  /\ TryAnother(now')
  /\ UNCHANGED <<last_rx, sentences_printed>>

\* Nothing to read, and nothing to say about it.
Idle ==
  /\ Loop
  /\ port = "none"
  /\ ~ (Quiet /\ WaitedLongEnough
        /\ (valid_sentence_received = 0 \/ since(valid_sentence_received) > Long))
  /\ UNCHANGED <<port, last_rx, valid_sentence_received, scan, counts, outcome>>

GPSloop ==
  \/ ReadChars \/ ReadSentence
  \/ NoDataYet \/ NoData \/ FoundLate \/ NoSentences \/ Idle

\* hang(): for (;;) ;
Hang == outcome # "scanning" /\ UNCHANGED scanVars

ScanNext == ScanTick \/ Unplug \/ GPSloop \/ Hang

\* Time passes, and loop() is called again and again.
ScanSpec ==
  /\ ScanInit /\ [][ScanNext]_scanVars
  /\ WF_scanVars(ScanTick) /\ WF_scanVars(GPSloop)

----------------------------------------------------------------------------

ScanTypeOK ==
  /\ rate \in Bauds \union {Silent} /\ {on, ran} \subseteq BOOLEAN
  /\ {now, last_rx, valid_sentence_received, baudStartTime}
       \subseteq 0 .. Wrap - 1
  /\ port \in {"none", "chars", "sentence"}
  /\ baud_index \in Bauds
  /\ tries \in 1 .. 3
  /\ someCharsIndex \in 0 .. MAX_SAMPLE
  /\ sentences_printed \in 0 .. 255
  /\ outcome \in {"scanning", "found", "late", "all tried"}

\* "This program tries different baud rates until valid NMEA sentences are
\* detected": whatever the rate of the receiver and wherever in its period the
\* scan comes to it, the second it waits at each rate is enough, and no rate
\* of the table is left out.
Detects == []on /\ rate # Silent => <>(outcome = "found")
=============================================================================

------------------------- MODULE GatewayStoreProofs -------------------------
(***************************************************************************)
(* The frame counter of the sensor packets goes on after every restart     *)
(* with a counter in the file, for every width of the counter and every    *)
(* interval between two savings that the margin covers; and no log file is *)
(* removed before as many newer ones were written as are to stay.          *)
(***************************************************************************)
EXTENDS GatewayStore, FiniteSetTheorems, TLAPS

Places == {"off", "setup", "loop", "built", "save", "send"}

Typed ==
  /\ file \in Config /\ gwayConfig \in Config
  /\ frameCount \in Counter
  /\ pc \in Places

\* How far counter m is further on than n, around the width.
Ahead(m, n) == IF n <= m THEN m - n ELSE m + Width - n

\* What is saved is never so far behind that the margin does not make up for
\* it: while the program runs by how far the counter has come since it was at
\* a multiple of Interval, and while it does not by the margin itself.
Behind ==
  CASE pc = "off"   -> IF file.fcnt # 0
                       THEN Ahead(frameCount, file.fcnt) <= Margin
                       ELSE frameCount <= Interval \/ file = Blank
    [] pc = "setup" -> IF file.fcnt # 0
                       THEN Ahead(frameCount, file.fcnt) = Margin
                       ELSE frameCount = 0
    [] pc = "save"  -> Ahead(frameCount, file.fcnt) <= Interval
    [] OTHER        -> Ahead(frameCount, file.fcnt) <= frameCount % Interval

\* RestartStep needs an invariant: what the counter starts from after a restart
\* is in the file, and whether that is enough depends on when it was saved.
IInv ==
  /\ Typed
  /\ pc # "off" => gwayConfig.fcnt = file.fcnt
  /\ Behind

----------------------------------------------------------------------------

\* What % means, for divisors that are not numerals.
LEMMA Remainder ==
  ASSUME NEW n \in Nat, NEW d \in Nat \ {0}
  PROVE  /\ n % d \in 0 .. d - 1
         /\ n \div d \in Nat
         /\ n = d * (n \div d) + (n % d)
  OBVIOUS

LEMMA Multiples ==
  ASSUME NEW d \in Nat \ {0}, NEW k \in Int, NEW r \in 0 .. d,
         d * k = r
  PROVE  r = 0 \/ r = d
<1>1. CASE k <= 0
  <2>1. d * k <= 0
    BY <1>1
  <2> QED
    BY <2>1
<1>2. CASE k = 1
  BY <1>2
<1>3. CASE k >= 2
  <2>1. d * k >= d * 2
    BY <1>3
  <2> QED
    BY <2>1
<1> QED
  BY <1>1, <1>2, <1>3

\* Counting on, the remainder grows by one, but at the multiples.
LEMMA NextRemainder ==
  ASSUME NEW n \in Nat, NEW d \in Nat \ {0}, (n + 1) % d # 0
  PROVE  (n % d) + 1 <= (n + 1) % d
<1> DEFINE q == n \div d
           p == (n + 1) \div d
           r == n % d
           s == (n + 1) % d
<1>1. r \in 0 .. d - 1 /\ q \in Nat /\ n = d * q + r
  BY Remainder
<1>2. s \in 0 .. d - 1 /\ p \in Nat /\ n + 1 = d * p + s
  <2>1. n + 1 \in Nat
    OBVIOUS
  <2> QED
    BY <2>1, Remainder
<1>3. s # 0
  OBVIOUS
<1> HIDE DEF q, p, r, s
<1>4. SUFFICES ASSUME s < r + 1
               PROVE  FALSE
  BY <1>1, <1>2 DEF r, s
<1>5. d * (p - q) = r + 1 - s
  BY <1>1, <1>2
<1>6. r + 1 - s \in 0 .. d /\ p - q \in Int
  BY <1>1, <1>2, <1>4
<1>7. r + 1 - s = 0 \/ r + 1 - s = d
  BY <1>5, <1>6, Multiples
<1> QED
  BY <1>1, <1>2, <1>3, <1>4, <1>7
\* 0 is a multiple.
LEMMA Turn0 ==
  ASSUME NEW d \in Nat \ {0}
  PROVE  0 % d = 0
BY SMT

----------------------------------------------------------------------------

LEMMA Constants ==
  /\ Interval \in Nat \ {0} /\ Margin \in Nat \ {0} /\ Width \in Nat \ {0}
  /\ Interval <= Margin /\ Margin < Width
BY CountersAssumption

\* One turn around the width.
LEMMA Turn ==
  ASSUME NEW n \in Counter, NEW k \in Counter
  PROVE  (n + k) % Width = IF n + k < Width THEN n + k ELSE n + k - Width
BY Constants, SMT DEF Counter

LEMMA InitIInv == Init => IInv
<1> SUFFICES ASSUME Init
             PROVE  IInv
  OBVIOUS
<1>1. 0 \in Counter
  BY Constants DEF Counter
<1>2. Blank \in Config /\ Blank.fcnt = 0
  BY <1>1 DEF Blank, Config
<1> QED
  BY <1>1, <1>2, Constants DEF Init, IInv, Typed, Behind, Places

\* The same file and counters, at a place of the program where as much is
\* asked of them.
LEMMA FileUntouched ==
  ASSUME IInv,
         pc \in {"loop", "built", "send"}, pc' \in {"loop", "built", "send"},
         file' = file, frameCount' = frameCount, gwayConfig' \in Config,
         gwayConfig'.fcnt = gwayConfig.fcnt
  PROVE  IInv'
BY DEF IInv, Typed, Behind, Places

\* After writeGwayCfg nothing is behind.
LEMMA FileWritten ==
  ASSUME IInv, writeGwayCfg, pc # "off", pc' \in {"loop", "send"},
         frameCount' = frameCount
  PROVE  IInv'
<1>1. Written \in Config /\ Written.fcnt = frameCount
  BY DEF IInv, Typed, Written, Config
<1>2. gwayConfig' = Written /\ file' = Written
  BY DEF writeGwayCfg
<1>3. frameCount % Interval \in Nat /\ frameCount \in Nat
  BY Constants, Remainder DEF IInv, Typed, Counter
<1>4. Ahead(frameCount, frameCount) = 0
  BY <1>3 DEF Ahead
<1> QED
  BY <1>1, <1>2, <1>3, <1>4 DEF IInv, Typed, Behind, Places

\* addLog is about other parts of the configuration.
LEMMA Logged ==
  ASSUME IInv, addLog
  PROVE  gwayConfig' \in Config /\ gwayConfig'.fcnt = gwayConfig.fcnt
<1>1. Turned \in Config /\ Turned.fcnt = gwayConfig.fcnt
  <2> DEFINE rec == (IF Full THEN 0 ELSE gwayConfig.logFileRec) + 1
             no == IF Full THEN gwayConfig.logFileNo + 1 ELSE gwayConfig.logFileNo
             num == IF Full THEN gwayConfig.logFileNum + 1 ELSE gwayConfig.logFileNum
  <2>1. gwayConfig \in Config
    BY DEF IInv, Typed
  <2>2. rec \in Nat /\ no \in Nat /\ num \in Nat
    BY <2>1 DEF Config
  <2>3. Turned = [gwayConfig EXCEPT !.logFileRec = rec, !.logFileNo = no,
                                    !.logFileNum = num]
    BY DEF Turned
  <2> HIDE DEF rec, no, num
  <2> QED
    BY <2>1, <2>2, <2>3 DEF Config
<1>2. gwayConfig' = [Turned EXCEPT !.logFileNum = IF TooMany THEN @ - 1 ELSE @]
  BY DEF addLog
<1>3. TooMany => Turned.logFileNum - 1 \in Nat
  BY <1>1, LogsAssumption DEF TooMany, Config
<1> QED
  BY <1>1, <1>2, <1>3 DEF Config

\* Wherever the power goes off, what is saved is near enough.
LEMMA NeverFarBehind ==
  ASSUME IInv, pc # "off"
  PROVE  IF file.fcnt # 0 THEN Ahead(frameCount, file.fcnt) <= Margin
         ELSE frameCount <= Interval
<1>1. /\ frameCount \in Nat /\ file.fcnt \in Nat /\ frameCount < Width
      /\ file.fcnt < Width
  BY Constants DEF IInv, Typed, Config, Counter
<1>2. frameCount % Interval \in 0 .. Interval - 1
  BY <1>1, Constants, Remainder
<1>3. pc = "setup" \/ Ahead(frameCount, file.fcnt) <= Interval
  <2>1. Ahead(frameCount, file.fcnt) \in Nat
    BY <1>1, Constants DEF Ahead
  <2> QED
    BY <1>2, <2>1, Constants DEF IInv, Behind
<1>4. Ahead(frameCount, 0) = frameCount
  BY <1>1 DEF Ahead
<1>5. Ahead(frameCount, file.fcnt) \in Nat
  BY <1>1, Constants DEF Ahead
<1> QED
  BY <1>1, <1>3, <1>4, <1>5, Constants DEF IInv, Behind

\* What is left of a configuration has its counter, or nothing is left.
LEMMA Beginning ==
  ASSUME NEW config \in Config, NEW left \in Beginnings(config)
  PROVE  left \in Config /\ (left.fcnt = config.fcnt \/ left = Blank)
<1>1. CASE left = Blank
  <2>1. 0 \in Counter
    BY Constants DEF Counter
  <2> QED
    BY <1>1, <2>1 DEF Blank, Config
<1>2. CASE left \in [fcnt : {config.fcnt},
                     logFileRec : 0 .. config.logFileRec,
                     logFileNo  : 0 .. config.logFileNo,
                     logFileNum : 0 .. config.logFileNum]
  BY <1>2 DEF Config
<1> QED
  BY <1>1, <1>2 DEF Beginnings

\* After a restart with the counter in the file, or without.
LEMMA BootIInv == IInv /\ Boot => IInv'
<1> SUFFICES ASSUME IInv, Boot
             PROVE  IInv'
  OBVIOUS
<1>1. readConfig \in Config /\ readConfig.fcnt = file.fcnt
  <2>1. file.logFileNo % Byte \in Nat
    BY LogsAssumption, Remainder DEF IInv, Typed, Config
  <2> QED
    BY <2>1 DEF IInv, Typed, Config, readConfig
<1>2. pc' = "setup" /\ gwayConfig' = readConfig /\ file' = file
  BY DEF Boot, Goto
<1>3. file.fcnt \in Counter /\ Margin \in Counter
  BY Constants DEF IInv, Typed, Config, Counter
<1>4. CASE file.fcnt # 0
  <2>1. frameCount' = IF file.fcnt + Margin < Width THEN file.fcnt + Margin
                      ELSE file.fcnt + Margin - Width
    BY <1>3, <1>4, Turn DEF Boot, Resumed
  <2>2. frameCount' \in Counter /\ Ahead(frameCount', file.fcnt) = Margin
    BY <1>3, <2>1, Constants DEF Ahead, Counter
  <2> QED
    BY <1>1, <1>2, <1>4, <2>2 DEF IInv, Typed, Behind, Places
<1>5. CASE file.fcnt = 0
  <2>1. frameCount' = 0 /\ 0 \in Counter
    BY <1>5, Constants DEF Boot, Counter
  <2> QED
    BY <1>1, <1>2, <1>5, <2>1 DEF IInv, Typed, Behind, Places
<1> QED
  BY <1>4, <1>5

\* The counter may be one further ahead of the file, or it is to be saved; at
\* the end of its width it is, as 0 is a multiple of every interval.
LEMMA SensorCountedIInv == IInv /\ SensorCounted => IInv'
<1> SUFFICES ASSUME IInv, SensorCounted
             PROVE  IInv'
  OBVIOUS
<1> DEFINE ahead == Ahead(frameCount, file.fcnt)
<1>1. /\ frameCount \in Counter /\ file.fcnt \in Counter
      /\ frameCount \in Nat /\ file.fcnt \in Nat
  BY Constants DEF IInv, Typed, Config, Counter
<1>2. /\ frameCount' = (frameCount + 1) % Width
      /\ file' = file /\ gwayConfig' = gwayConfig
      /\ pc' = IF frameCount' % Interval = 0 THEN "save" ELSE "send"
  BY DEF SensorCounted
<1>3. frameCount % Interval \in 0 .. Interval - 1
  BY <1>1, Constants, Remainder
<1>4. ahead \in Nat /\ ahead <= frameCount % Interval
  BY <1>1, Constants DEF IInv, Behind, SensorCounted, Ahead, Counter
<1>5. frameCount' = IF frameCount + 1 = Width THEN 0 ELSE frameCount + 1
  <2>1. 1 \in Counter
    BY Constants DEF Counter
  <2>2. (frameCount + 1) % Width = IF frameCount + 1 < Width THEN frameCount + 1
                                   ELSE frameCount + 1 - Width
    BY <1>1, <2>1, Turn
  <2> QED
    BY <1>1, <1>2, <2>2, Constants DEF Counter
<1>6. frameCount' \in Counter /\ Ahead(frameCount', file.fcnt) = ahead + 1
  BY <1>1, <1>3, <1>4, <1>5, Constants DEF Ahead, Counter
<1>7. Typed' /\ gwayConfig'.fcnt = file'.fcnt
  BY <1>2, <1>6 DEF IInv, Typed, Places, SensorCounted
<1>8. CASE frameCount' % Interval = 0
  <2>1. pc' = "save" /\ Ahead(frameCount', file'.fcnt) <= Interval
    BY <1>2, <1>3, <1>4, <1>6, <1>8, Constants
  <2> QED
    BY <1>7, <2>1 DEF IInv, Behind
<1>9. CASE frameCount' % Interval # 0
  <2>1. 0 % Interval = 0
    BY Constants, Turn0
  <2>2. frameCount' = frameCount + 1
    BY <1>5, <1>9, <2>1
  <2>3. (frameCount % Interval) + 1 <= frameCount' % Interval
    BY <1>1, <1>9, <2>2, Constants, NextRemainder
  <2>4. frameCount' % Interval \in Nat
    BY <1>1, <2>2, Constants, Remainder
  <2>5. pc' = "send" /\ Ahead(frameCount', file'.fcnt) <= frameCount' % Interval
    BY <1>2, <1>3, <1>4, <1>6, <1>9, <2>3, <2>4
  <2> QED
    BY <1>7, <2>5 DEF IInv, Behind
<1> QED
  BY <1>8, <1>9

LEMMA PowerOffWritingIInv == IInv /\ PowerOffWriting => IInv'
<1> SUFFICES ASSUME IInv, PowerOffWriting
             PROVE  IInv'
  OBVIOUS
<1>1. Written \in Config /\ Written.fcnt = frameCount
  BY DEF IInv, Typed, Written, Config
<1>2. 0 \in Counter /\ 0 <= Interval
  BY Constants DEF Counter
<1>3. /\ [Written EXCEPT !.fcnt = 0] \in Config
      /\ [Written EXCEPT !.fcnt = 0].fcnt = 0
  BY <1>1, <1>2 DEF Config
<1>4. pc' = "off" /\ gwayConfig' = gwayConfig
  BY DEF PowerOffWriting
<1>5. CASE file' \in Beginnings(Written) /\ frameCount' = frameCount
  <2>1. file' \in Config /\ (file'.fcnt = frameCount \/ file' = Blank)
    BY <1>1, <1>5, Beginning
  <2>2. Ahead(frameCount, frameCount) = 0 /\ 0 <= Margin /\ frameCount \in Counter
    BY Constants DEF Ahead, IInv, Typed, Counter
  <2>3. Blank.fcnt = 0
    BY DEF Blank
  <2> QED
    BY <1>2, <1>4, <1>5, <2>1, <2>2, <2>3 DEF IInv, Typed, Behind, Places
<1>6. CASE file' \in Beginnings([Written EXCEPT !.fcnt = 0]) /\ frameCount' = 0
  <2>1. file' \in Config /\ (file'.fcnt = 0 \/ file' = Blank)
    BY <1>3, <1>6, Beginning
  <2>2. Blank.fcnt = 0
    BY DEF Blank
  <2> QED
    BY <1>2, <1>4, <1>6, <2>1, <2>2 DEF IInv, Typed, Behind, Places
<1> QED
  BY <1>5, <1>6 DEF PowerOffWriting

LEMMA PowerOffFormattingIInv == IInv /\ PowerOffFormatting => IInv'
<1> SUFFICES ASSUME IInv, PowerOffFormatting
             PROVE  IInv'
  OBVIOUS
<1>1. pc # "off" /\ pc' = "off" /\ UNCHANGED <<gwayConfig, frameCount>>
  BY DEF PowerOffFormatting, Goto
<1>2. file' \in Config /\ (file'.fcnt = file.fcnt \/ file' = Blank)
  BY <1>1, Beginning DEF IInv, Typed, PowerOffFormatting
<1>3. Blank.fcnt = 0
  BY DEF Blank
<1> QED
  BY <1>1, <1>2, <1>3, NeverFarBehind DEF IInv, Typed, Behind, Places

LEMMA NextIInv == IInv /\ [Next]_vars => IInv'
<1> SUFFICES ASSUME IInv, [Next]_vars
             PROVE  IInv'
  OBVIOUS
<1>1. CASE Boot
  BY <1>1, BootIInv
<1>2. CASE Setup
  BY <1>2, FileWritten DEF Setup, Goto
<1>3. CASE Uplink
  BY <1>3, Logged, FileUntouched DEF Uplink, Goto
<1>4. CASE SensorBuilt
  BY <1>4, Logged, FileUntouched DEF SensorBuilt, Goto
<1>5. CASE SensorCounted
  BY <1>5, SensorCountedIInv
<1>6. CASE SensorSaved
  BY <1>6, FileWritten DEF SensorSaved, Goto
<1>7. CASE SensorSent
  BY <1>7, FileUntouched DEF SensorSent, Goto, IInv, Typed
<1>8. CASE Saved
  BY <1>8, FileWritten DEF Saved, Goto
<1>9. CASE ResetFrameCount
  <2>1. frameCount' = 0 /\ 0 \in Counter /\ 0 % Interval = 0
    BY <1>9, Constants, Turn0 DEF ResetFrameCount, Counter
  <2>2. gwayConfig' \in Config /\ gwayConfig'.fcnt = 0
    BY <1>9, <2>1 DEF ResetFrameCount, IInv, Typed, Config
  <2>3. Ahead(0, 0) = 0
    BY DEF Ahead
  <2> QED
    BY <1>9, <2>1, <2>2, <2>3
    DEF ResetFrameCount, Goto, IInv, Typed, Behind, Places
<1>10. CASE Format
  BY <1>10 DEF Format, Goto, IInv, Typed, Behind, Places
<1>11. CASE PowerOff
  BY <1>11, NeverFarBehind DEF PowerOff, IInv, Typed, Behind, Places
<1>12. CASE PowerOffWriting
  BY <1>12, PowerOffWritingIInv
<1>13. CASE PowerOffFormatting
  BY <1>13, PowerOffFormattingIInv
<1>14. CASE UNCHANGED vars
  BY <1>14 DEF vars, ram, IInv, Typed, Behind, Places
<1> QED
  BY <1>1, <1>2, <1>3, <1>4, <1>5, <1>6, <1>7, <1>8, <1>9, <1>10, <1>11,
     <1>12, <1>13, <1>14 DEF Next

\* Wherever the power goes off and wherever the counter wraps, a restart goes
\* on behind what was used, or from 0 if that is what is saved, for every width
\* and every Interval up to Margin.
THEOREM CounterGoesOn == Spec => RestartsGoOn
<1>1. IInv /\ [Next]_vars => [RestartStep]_vars
  <2> SUFFICES ASSUME IInv, Boot
               PROVE  RestartStep
    BY DEF RestartStep, Next, Boot, Setup, Uplink, SensorBuilt, SensorCounted,
       SensorSaved, SensorSent, Saved, ResetFrameCount, Format, PowerOff,
       PowerOffWriting, PowerOffFormatting, Goto, vars, ram
  <2>1. /\ frameCount \in Counter /\ file.fcnt \in Counter /\ Margin \in Counter
        /\ pc = "off"
    BY Constants DEF IInv, Typed, Config, Counter, Boot, Goto
  <2>2. CASE file.fcnt # 0
    <3>1. frameCount' = IF file.fcnt + Margin < Width THEN file.fcnt + Margin
                        ELSE file.fcnt + Margin - Width
      BY <2>1, <2>2, Turn DEF Boot, Resumed
    <3>2. Ahead(frameCount, file.fcnt) <= Margin
      BY <2>1, <2>2 DEF IInv, Behind
    <3> DEFINE k == Margin - Ahead(frameCount, file.fcnt)
    <3>3. k \in 0 .. Margin
      BY <2>1, <3>2, Constants DEF Ahead, Counter
    <3>4. \/ frameCount' + Width - frameCount = k
          \/ frameCount' + Width - frameCount = k + Width
      BY <2>1, <3>1, <3>2, Constants DEF Ahead, Counter
    <3>5. k % Width = k /\ (k + Width) % Width = k
      <4> HIDE DEF k
      <4> QED
        BY <3>3, Constants, SMT
    <3>6. Skipped = k
      BY <3>4, <3>5 DEF Skipped
    <3> QED
      BY <2>2, <3>3, <3>6, Constants DEF RestartStep
  <2>3. CASE file.fcnt = 0
    <3>1. frameCount' = 0
      BY <2>3 DEF Boot
    <3> QED
      BY <2>1, <2>3, <3>1 DEF RestartStep, IInv, Behind
  <2> QED
    BY <2>2, <2>3
<1> QED
  BY <1>1, InitIInv, NextIInv, PTL DEF Spec, RestartsGoOn

----------------------------------------------------------------------------
(* The log files.                                                          *)

\* Before a file that is older than no by its number all the numbers from it
\* to no were written again.
Covers(files, no) ==
  \A i \in DOMAIN files : files[i] < no =>
    \A m \in files[i] + 1 .. no : \E j \in 1 .. i - 1 : files[j] = m

\* Whatever a restart makes of FILENO, it is not above what was written, so
\* the numbers are gone through again before there is a newer one.
LogInv ==
  /\ recent \in Seq(Nat) /\ Len(recent) <= LOGFILEMAX
  /\ RecentLogsKept
  /\ Covers(recent, file.logFileNo)
  /\ pc # "off" => Covers(recent, gwayConfig.logFileNo)
  /\ pc \notin {"off", "setup"} => file.logFileNo <= gwayConfig.logFileNo

\* Below a number that is covered, each is.
LEMMA CoversBelow ==
  ASSUME NEW files \in Seq(Nat), NEW k \in Nat, NEW t \in Nat, t <= k,
         Covers(files, k)
  PROVE  Covers(files, t)
BY DEF Covers

\* The file that is written comes to the front; of the others none is new, and
\* each keeps those before it that were.
LEMMA WrittenLastIs ==
  ASSUME NEW files \in Seq(Nat), Len(files) <= LOGFILEMAX, NEW no \in Nat
  PROVE  LET new == WrittenLast(files, no)
         IN  /\ new \in Seq(Nat) /\ Len(new) <= LOGFILEMAX
             /\ new[1] = no /\ 1 \in DOMAIN new
             /\ \A i \in DOMAIN new : i # 1 =>
                  \E l \in DOMAIN files :
                    /\ new[i] = files[l]
                    /\ \A j \in 1 .. l - 1 : \E h \in 1 .. i - 1 : new[h] = files[j]
<1> DEFINE known(n) == \E j \in 1 .. n : files[j] = no
           len == Len(files)
           length == IF known(len) \/ len = LOGFILEMAX THEN len ELSE len + 1
           new == WrittenLast(files, no)
<1>1. LOGFILEMAX \in Nat \ {0} /\ len \in 0 .. LOGFILEMAX /\ DOMAIN files = 1 .. len
  BY LogsAssumption
<1>2. /\ length \in 1 .. LOGFILEMAX
      /\ length = len \/ length = len + 1
      /\ known(len) => length = len
  <2>1. known(len) => len # 0
    BY <1>1
  <2>2. length = IF known(len) \/ len = LOGFILEMAX THEN len ELSE len + 1
    OBVIOUS
  <2> HIDE DEF known, length, len
  <2> QED
    BY <1>1, <2>1, <2>2
<1>3. new = [i \in 1 .. length |-> IF i = 1 THEN no
                                  ELSE IF known(i - 1) THEN files[i] ELSE files[i - 1]]
  BY DEF WrittenLast
<1> HIDE DEF length, new, len
<1>4. ASSUME NEW i \in 1 .. length, i # 1, known(i - 1)
      PROVE  i \in 1 .. len
  <2>1. PICK j \in 1 .. i - 1 : files[j] = no
    BY <1>4
  <2>2. i - 1 <= len /\ j \in 1 .. len
    BY <1>1, <1>2
  <2>3. length = len
    BY <1>2, <2>1, <2>2
  <2> QED
    BY <2>3
<1>5. ASSUME NEW i \in 1 .. length, i # 1
      PROVE  i - 1 \in 1 .. len
  BY <1>1, <1>2, <1>5
<1>6. /\ DOMAIN new = 1 .. length /\ 1 \in 1 .. length /\ new[1] = no
      /\ \A i \in 1 .. length : i # 1 /\ known(i - 1) => new[i] = files[i]
      /\ \A i \in 1 .. length : i # 1 /\ ~ known(i - 1) => new[i] = files[i - 1]
  BY <1>2, <1>3
<1>7. \A i \in 1 .. length : new[i] \in Nat
  <2> SUFFICES ASSUME NEW i \in 1 .. length
               PROVE  new[i] \in Nat
    OBVIOUS
  <2>1. CASE i = 1
    BY <1>6, <2>1
  <2>2. CASE i # 1 /\ known(i - 1)
    BY <1>1, <1>4, <1>6, <2>2
  <2>3. CASE i # 1 /\ ~ known(i - 1)
    BY <1>1, <1>5, <1>6, <2>3
  <2> QED
    BY <2>1, <2>2, <2>3
<1>8. new \in Seq(Nat) /\ Len(new) = length
  <2>1. new = [i \in 1 .. length |-> new[i]]
    BY <1>3
  <2>2. length \in Nat
    BY <1>1, <1>2
  <2> HIDE DEF known
  <2>3. new \in [1 .. length -> Nat]
    BY <1>7, <2>1
  <2> QED
    BY <2>2, <2>3
\* One that was before l is at its place, or one further on, or in front.
<1>9. ASSUME NEW j \in 1 .. len, j + 1 \in 1 .. length
      PROVE  \/ known(j) /\ \E h \in 1 .. j : new[h] = files[j]
             \/ ~ known(j) /\ new[j + 1] = files[j]
  <2>1. CASE files[j] = no
    <3>1. known(j) /\ 1 \in 1 .. j
      BY <1>1, <2>1
    <3> QED
      BY <1>6, <2>1, <3>1
  <2>2. CASE files[j] # no /\ known(j)
    <3>1. PICK g \in 1 .. j : files[g] = no
      BY <2>2
    <3>2. g # j
      BY <2>2, <3>1
    <3>3. g \in 1 .. j - 1 /\ j # 1 /\ j \in 1 .. length
      BY <1>1, <1>2, <3>2
    <3>4. known(j - 1)
      BY <3>1, <3>3
    <3>5. new[j] = files[j] /\ j \in 1 .. j
      BY <1>6, <3>3, <3>4
    <3> QED
      BY <2>2, <3>5
  <2>3. CASE ~ known(j)
    <3>1. j + 1 # 1 /\ (j + 1) - 1 = j
      BY <1>1
    <3> QED
      BY <1>6, <1>9, <2>3, <3>1
  <2> QED
    BY <2>1, <2>2, <2>3
<1>10. ASSUME NEW i \in 1 .. length, i # 1
       PROVE  \E l \in 1 .. len :
                /\ new[i] = files[l]
                /\ \A j \in 1 .. l - 1 : \E h \in 1 .. i - 1 : new[h] = files[j]
  <2>1. CASE known(i - 1)
    <3>1. i \in 1 .. len /\ new[i] = files[i]
      BY <1>4, <1>6, <1>10, <2>1
    <3>2. ASSUME NEW j \in 1 .. i - 1
          PROVE  \E h \in 1 .. i - 1 : new[h] = files[j]
      <4>1. j \in 1 .. len /\ j + 1 \in 1 .. length /\ i \in Int
        BY <1>1, <1>2, <3>1
      <4>2. CASE known(j) /\ \E h \in 1 .. j : new[h] = files[j]
        <5>1. \A h \in 1 .. j : h \in 1 .. i - 1
          BY <4>1
        <5> QED
          BY <4>2, <5>1
      <4>3. CASE ~ known(j) /\ new[j + 1] = files[j]
        <5>1. j # i - 1
          BY <2>1, <4>3
        <5>2. j + 1 \in 1 .. i - 1
          BY <4>1, <5>1
        <5> QED
          BY <4>3, <5>2
      <4> QED
        BY <1>9, <4>1, <4>2, <4>3
    <3> QED
      BY <3>1, <3>2
  <2>2. CASE ~ known(i - 1)
    <3>1. i - 1 \in 1 .. len /\ new[i] = files[i - 1]
      BY <1>5, <1>6, <1>10, <2>2
    <3>2. ASSUME NEW j \in 1 .. (i - 1) - 1
          PROVE  \E h \in 1 .. i - 1 : new[h] = files[j]
      <4>1. /\ j \in 1 .. len /\ j + 1 \in 1 .. length /\ i \in Int
            /\ j + 1 \in 1 .. i - 1
        BY <1>1, <1>2, <3>1
      <4>2. \A h \in 1 .. j : h \in 1 .. i - 1
        BY <4>1
      <4> QED
        BY <1>9, <4>1, <4>2
    <3> QED
      BY <3>1, <3>2
  <2> QED
    BY <2>1, <2>2
<1>11. /\ new \in Seq(Nat) /\ Len(new) <= LOGFILEMAX
       /\ new[1] = no /\ 1 \in DOMAIN new
       /\ \A i \in DOMAIN new : i # 1 =>
            \E l \in DOMAIN files :
              /\ new[i] = files[l]
              /\ \A j \in 1 .. l - 1 : \E h \in 1 .. i - 1 : new[h] = files[j]
  <2>1. Len(new) <= LOGFILEMAX
    BY <1>1, <1>2, <1>8
  <2>2. DOMAIN new = 1 .. length /\ DOMAIN files = 1 .. len
    BY <1>1, <1>6 DEF len
  <2>3. 1 \in DOMAIN new /\ new[1] = no
    BY <1>6, <2>2
  <2> HIDE DEF known
  <2> QED
    BY <1>8, <1>10, <2>1, <2>2, <2>3, Zenon
<1> QED
  BY <1>11 DEF new

\* Writing the file no covers the numbers up to it, if those before it were.
LEMMA WrittenCovers ==
  ASSUME NEW files \in Seq(Nat), Len(files) <= LOGFILEMAX, NEW no \in Nat,
         NEW k \in Nat, Covers(files, k),
         NEW t \in Nat, t <= no, t <= k \/ (t = k + 1 /\ t = no)
  PROVE  Covers(WrittenLast(files, no), t)
<1> DEFINE new == WrittenLast(files, no)
<1>1. /\ new \in Seq(Nat)
      /\ new[1] = no /\ 1 \in DOMAIN new
      /\ \A i \in DOMAIN new : i # 1 =>
           \E l \in DOMAIN files :
             /\ new[i] = files[l]
             /\ \A j \in 1 .. l - 1 : \E h \in 1 .. i - 1 : new[h] = files[j]
  BY WrittenLastIs
<1> HIDE DEF new
<1> SUFFICES ASSUME NEW i \in DOMAIN new, new[i] < t, NEW m \in new[i] + 1 .. t
             PROVE  \E h \in 1 .. i - 1 : new[h] = m
  BY DEF Covers, new
<1>2. i # 1
  BY <1>1
<1>3. PICK l \in DOMAIN files :
        /\ new[i] = files[l]
        /\ \A j \in 1 .. l - 1 : \E h \in 1 .. i - 1 : new[h] = files[j]
  BY <1>1, <1>2
<1>4. files[l] \in Nat /\ m \in Nat /\ i \in Nat /\ i > 1
  BY <1>1, <1>2, <1>3
<1>5. CASE m = no
  BY <1>1, <1>4, <1>5, 1 \in 1 .. i - 1
<1>6. CASE m # no
  <2>1. m <= k /\ files[l] < k /\ m \in files[l] + 1 .. k
    BY <1>3, <1>4, <1>6
  <2>2. PICK j \in 1 .. l - 1 : files[j] = m
    BY <2>1 DEF Covers
  <2> QED
    BY <1>3, <2>2
<1> QED
  BY <1>5, <1>6

\* A file that is LOGFILEMAX numbers old is none of those written last: as
\* many others would have been written after it.
LEMMA OldestIsNotRecent ==
  ASSUME NEW files \in Seq(Nat), Len(files) <= LOGFILEMAX, NEW no \in Nat,
         Covers(files, no), NEW i \in DOMAIN files
  PROVE  files[i] # no - LOGFILEMAX
<1> SUFFICES ASSUME files[i] = no - LOGFILEMAX
             PROVE  FALSE
  OBVIOUS
<1> DEFINE Newer == files[i] + 1 .. no
           Before == 1 .. i - 1
           place == [m \in Newer |-> CHOOSE j \in Before : files[j] = m]
<1>1. /\ LOGFILEMAX \in Nat \ {0} /\ files[i] \in Nat
      /\ i \in 1 .. LOGFILEMAX
  BY LogsAssumption
<1>2. \A m \in Newer : \E j \in Before : files[j] = m
  BY <1>1 DEF Covers
<1>3. place \in [Newer -> Before] /\ \A m \in Newer : files[place[m]] = m
  BY <1>2
<1>4. IsFiniteSet(Newer) /\ Cardinality(Newer) = LOGFILEMAX
  <2>1. Cardinality(Newer) = IF files[i] + 1 > no THEN 0 ELSE no - (files[i] + 1) + 1
    BY <1>1, FS_Interval
  <2> QED
    BY <1>1, <2>1, FS_Interval
<1>5. IsFiniteSet(Before) /\ Cardinality(Before) = i - 1
  <2>1. 1 \in Int /\ i - 1 \in Int /\ i - 1 >= 0
    BY <1>1
  <2>2. /\ IsFiniteSet(Before)
        /\ Cardinality(Before) = IF 1 > i - 1 THEN 0 ELSE (i - 1) - 1 + 1
    BY <2>1, FS_Interval
  <2> QED
    BY <2>1, <2>2
<1>6. Cardinality(Before) < Cardinality(Newer)
  BY <1>1, <1>4, <1>5
<1> HIDE DEF Newer, Before, place
<1>7. \E x, y \in Newer : x # y /\ place[x] = place[y]
  BY <1>3, <1>4, <1>5, <1>6, FS_PigeonHole
<1> QED
  BY <1>3, <1>7

\* A packet is logged: the file that is removed is none of the recent ones.
LEMMA AddLogInv ==
  ASSUME IInv, LogInv, addLog,
         pc = "loop", pc' \in {"loop", "built"}, file' = file
  PROVE  LogInv'
<1> DEFINE old == gwayConfig.logFileNo
           no == Turned.logFileNo
<1>1. /\ old \in Nat /\ file.logFileNo \in Nat /\ file.logFileNo <= old
      /\ Covers(recent, file.logFileNo) /\ Covers(recent, old)
      /\ recent \in Seq(Nat) /\ Len(recent) <= LOGFILEMAX
  BY DEF IInv, Typed, Config, LogInv
<1>2. no \in Nat /\ (no = old \/ no = old + 1)
  <2>1. gwayConfig \in Config
    BY DEF IInv, Typed
  <2>2. no = IF Full THEN old + 1 ELSE old
    BY <2>1 DEF Turned, Config
  <2> QED
    BY <1>1, <2>2
<1>3. recent' = WrittenLast(recent, no)
  BY DEF addLog
<1>4. gwayConfig'.logFileNo = no
  <2>1. Turned \in [fcnt : {Turned.fcnt}, logFileRec : {Turned.logFileRec},
                    logFileNo : {Turned.logFileNo}, logFileNum : {Turned.logFileNum}]
    BY DEF IInv, Typed, Config, Turned
  <2>2. gwayConfig' = [Turned EXCEPT !.logFileNum = IF TooMany THEN @ - 1 ELSE @]
    BY DEF addLog
  <2> QED
    BY <2>1, <2>2
<1> HIDE DEF old, no
<1>5. Covers(recent', no) /\ Covers(recent', file.logFileNo)
  <2>1. no <= old \/ (no = old + 1 /\ no = no)
    BY <1>1, <1>2
  <2>2. Covers(WrittenLast(recent, no), no)
    BY <1>1, <1>2, <2>1, WrittenCovers
  <2>3. Covers(WrittenLast(recent, no), file.logFileNo)
    BY <1>1, <1>2, WrittenCovers
  <2> QED
    BY <1>3, <2>2, <2>3
<1>6. /\ recent' \in Seq(Nat) /\ Len(recent') <= LOGFILEMAX
      /\ \A i \in DOMAIN recent' :
           recent'[i] = no \/ \E l \in DOMAIN recent : recent'[i] = recent[l]
  <2> DEFINE new == WrittenLast(recent, no)
  <2>1. /\ new \in Seq(Nat) /\ Len(new) <= LOGFILEMAX /\ new[1] = no
        /\ \A i \in DOMAIN new : i # 1 => \E l \in DOMAIN recent : new[i] = recent[l]
    BY <1>1, <1>2, WrittenLastIs
  <2> HIDE DEF new
  <2> QED
    BY <1>3, <2>1 DEF new
<1>7. \A i \in DOMAIN recent' : recent'[i] # no - LOGFILEMAX
  BY <1>2, <1>5, <1>6, OldestIsNotRecent
<1>8. \A x \in logs \cup {no} : x # no - LOGFILEMAX => x \in logs'
  BY DEF addLog, Oldest, no
<1>9. RecentLogsKept'
  <2> SUFFICES ASSUME NEW i \in DOMAIN recent'
               PROVE  recent'[i] \in logs'
    BY DEF RecentLogsKept
  <2>1. recent'[i] \in logs \cup {no}
    BY <1>6 DEF LogInv, RecentLogsKept
  <2> QED
    BY <1>7, <1>8, <2>1
<1> QED
  BY <1>1, <1>2, <1>4, <1>5, <1>6, <1>9 DEF LogInv

\* The configuration is saved.
LEMMA WrittenLogInv ==
  ASSUME LogInv, writeGwayCfg, pc # "off", pc' \in {"loop", "send"},
         UNCHANGED <<logs, recent>>, gwayConfig \in Config
  PROVE  LogInv'
<1>1. /\ file'.logFileNo = gwayConfig.logFileNo
      /\ gwayConfig'.logFileNo = gwayConfig.logFileNo
      /\ gwayConfig.logFileNo \in Nat
  BY DEF writeGwayCfg, Written, Config
<1> QED
  BY <1>1 DEF LogInv, RecentLogsKept

\* A restart cuts FILENO, or finds a smaller one; setup has nothing yet to keep
\* it from being smaller still than what is in the file.
LEMMA BootLogInv ==
  ASSUME IInv, LogInv, Boot
  PROVE  LogInv'
<1>1. file.logFileNo \in Nat /\ Byte \in Nat \ {0}
  BY LogsAssumption DEF IInv, Typed, Config
<1>2. gwayConfig'.logFileNo = file.logFileNo % Byte
  BY DEF Boot, readConfig, IInv, Typed, Config
<1>3. file.logFileNo % Byte \in Nat /\ file.logFileNo % Byte <= file.logFileNo
  <2>1. /\ file.logFileNo % Byte \in 0 .. Byte - 1
        /\ file.logFileNo \div Byte \in Nat
        /\ file.logFileNo =
             Byte * (file.logFileNo \div Byte) + (file.logFileNo % Byte)
    BY <1>1, Remainder
  <2>2. Byte * (file.logFileNo \div Byte) \in Nat
    BY <1>1, <2>1
  <2> QED
    BY <1>1, <2>1, <2>2
<1>4. Covers(recent, gwayConfig'.logFileNo)
  BY <1>1, <1>2, <1>3, CoversBelow DEF LogInv
<1>5. pc' = "setup" /\ UNCHANGED <<file, logs, recent>>
  BY DEF Boot, Goto
<1> QED
  BY <1>4, <1>5 DEF LogInv, RecentLogsKept

\* What is left of a configuration has no higher number.
LEMMA PowerOffWritingLogInv ==
  ASSUME IInv, LogInv, PowerOffWriting
  PROVE  LogInv'
<1>1. gwayConfig \in Config /\ gwayConfig.logFileNo \in Nat /\ frameCount \in Counter
  BY DEF IInv, Typed, Config
<1>2. Written \in Config /\ Written.logFileNo = gwayConfig.logFileNo
  BY <1>1 DEF Written, Config
<1>3. \A config \in Config : \A left \in Beginnings(config) :
        left.logFileNo \in 0 .. config.logFileNo
  BY DEF Beginnings, Blank, Config
<1>4. /\ [Written EXCEPT !.fcnt = 0] \in Config
      /\ [Written EXCEPT !.fcnt = 0].logFileNo = gwayConfig.logFileNo
  <2>1. 0 \in Counter
    BY Constants DEF Counter
  <2> QED
    BY <1>2, <2>1 DEF Config
<1>5. file'.logFileNo \in 0 .. gwayConfig.logFileNo
  BY <1>2, <1>3, <1>4 DEF PowerOffWriting
<1>6. pc # "off" /\ pc' = "off" /\ UNCHANGED <<logs, recent>>
  BY DEF PowerOffWriting
<1>7. Covers(recent, file'.logFileNo)
  BY <1>1, <1>5, <1>6, CoversBelow DEF LogInv
<1> QED
  BY <1>6, <1>7 DEF LogInv, RecentLogsKept

LEMMA NextLogInv ==
  ASSUME IInv, LogInv, [Next]_vars
  PROVE  LogInv'
<1>1. gwayConfig \in Config
  BY DEF IInv, Typed
<1>2. CASE Boot
  BY <1>2, BootLogInv
<1>3. CASE Setup \/ SensorSaved \/ Saved
  BY <1>1, <1>3, WrittenLogInv DEF Setup, SensorSaved, Saved, Goto
<1>4. CASE Uplink \/ SensorBuilt
  BY <1>4, AddLogInv DEF Uplink, SensorBuilt, Goto
<1>5. CASE SensorCounted \/ SensorSent
  BY <1>5 DEF SensorCounted, SensorSent, Goto, LogInv, RecentLogsKept
<1>6. CASE ResetFrameCount
  <2>1. /\ file'.logFileNo = gwayConfig.logFileNo
        /\ gwayConfig'.logFileNo = gwayConfig.logFileNo
        /\ gwayConfig.logFileNo \in Nat
    BY <1>1, <1>6 DEF ResetFrameCount, Config
  <2> QED
    BY <1>6, <2>1 DEF ResetFrameCount, Goto, LogInv, RecentLogsKept
<1>7. CASE Format \/ PowerOffFormatting
  <2>1. recent' = << >> /\ DOMAIN << >> = {} /\ Len(<< >>) = 0
    BY <1>7 DEF Format, PowerOffFormatting
  <2>2. /\ recent' \in Seq(Nat) /\ Len(recent') <= LOGFILEMAX /\ RecentLogsKept'
        /\ \A no : Covers(recent', no)
    BY <2>1, LogsAssumption DEF RecentLogsKept, Covers
  <2>3. CASE Format
    BY <1>1, <2>2, <2>3 DEF Format, Goto, LogInv, Config
  <2>4. CASE PowerOffFormatting
    BY <2>2, <2>4 DEF PowerOffFormatting, Goto, LogInv
  <2> QED
    BY <1>7, <2>3, <2>4
<1>8. CASE PowerOff
  BY <1>8 DEF PowerOff, LogInv, RecentLogsKept
<1>9. CASE PowerOffWriting
  BY <1>9, PowerOffWritingLogInv
<1>10. CASE UNCHANGED vars
  BY <1>10 DEF vars, ram, LogInv, RecentLogsKept
<1> QED
  BY <1>2, <1>3, <1>4, <1>5, <1>6, <1>7, <1>8, <1>9, <1>10 DEF Next

\* No file that was among the LOGFILEMAX written last is removed, whatever the
\* restarts made of the numbers.
THEOREM RecentLogsStay == Spec => []RecentLogsKept
<1>1. Init => LogInv
  <2> SUFFICES ASSUME Init
               PROVE  LogInv
    OBVIOUS
  <2>1. recent = << >> /\ DOMAIN << >> = {} /\ Len(<< >>) = 0 /\ pc = "off"
    BY DEF Init
  <2> QED
    BY <2>1, LogsAssumption DEF LogInv, RecentLogsKept, Covers
<1>2. LogInv => RecentLogsKept
  BY DEF LogInv
<1> QED
  BY <1>1, <1>2, InitIInv, NextIInv, NextLogInv, PTL DEF Spec
=============================================================================

---------------------------- MODULE GatewayStore ----------------------------
(***************************************************************************)
(* What the single channel gateway keeps in its flash memory: the file of  *)
(* its configuration, with the frame counter of its own sensor packets,    *)
(* and the log files.  The power may go off at any time, and while the     *)
(* configuration is being written it leaves a beginning of the file.       *)
(***************************************************************************)
EXTENDS Integers, Sequences

CONSTANTS
  Interval,     \* the frame counter is saved at its multiples: 10
  Margin,       \* and advanced by so much after a restart: 10
  Width,        \* of the frame counter, a uint16_t: 2^16
  LOGFILEMAX, LOGFILEREC,
  Byte,         \* 2^8
  MaxLogs       \* bound on the numbers of the log files

ASSUME CountersAssumption ==
  /\ {Interval, Margin, Width} \subseteq Nat \ {0}
  /\ Interval <= Margin /\ Margin < Width
ASSUME LogsAssumption ==
  /\ LOGFILEMAX \in Nat \ {0} /\ LOGFILEREC \in Nat
  /\ Byte \in Nat \ {0} /\ MaxLogs \in Nat

VARIABLES
  file,         \* CONFIGFILE, and gwayConfig as it would be after reading it
  logs,         \* the numbers of the log files there are
  gwayConfig,
  frameCount,   \* while the power is off: what the RAM held last
  pc,           \* "off", or where the program is
  lastSent,     \* the counter of the packet that was sent last, or NoCounter
                \* if none was since the counter was asked to start from 0
  recent        \* the log files written last, the newest first

ram == <<gwayConfig, frameCount, pc>>
vars == <<file, logs, ram, lastSent, recent>>

Counter == 0 .. Width - 1
NoCounter == Width

Config == [fcnt : Counter, logFileRec : Nat, logFileNo : Nat, logFileNum : Nat]
Blank == [fcnt |-> 0, logFileRec |-> 0, logFileNo |-> 0, logFileNum |-> 0]

TypeOK ==
  /\ file \in Config /\ gwayConfig \in Config
  /\ logs \subseteq Nat
  /\ frameCount \in Counter /\ lastSent \in Counter \union {NoCounter}
  /\ pc \in {"off", "setup", "loop", "built", "save", "send"}
  /\ recent \in Seq(Nat)

Init ==
  /\ file = Blank /\ logs = {} /\ gwayConfig = Blank /\ frameCount = 0
  /\ pc = "off" /\ lastSent = NoCounter /\ recent = << >>

Goto(from, to) == pc = from /\ pc' = to

----------------------------------------------------------------------------

\* readConfig: what is not in the file stays 0, and FILENO is cut to a byte.
readConfig == [file EXCEPT !.logFileNo = @ % Byte]

\* Mutant: the counter goes on where it was saved.
ResumedAt(fcnt) == fcnt

\* The sum is cut to a uint16_t.
Resumed(fcnt) == (fcnt + Margin) % Width

\* WlanReadWpa(), with the RAM as it is after a reset.
Boot ==
  /\ Goto("off", "setup")
  /\ gwayConfig' = readConfig
  /\ frameCount' = IF file.fcnt # 0 THEN Resumed(file.fcnt) ELSE 0
  /\ UNCHANGED <<file, logs, lastSent, recent>>

Written == [gwayConfig EXCEPT !.fcnt = frameCount]

writeGwayCfg ==
  /\ gwayConfig' = Written
  /\ file' = Written

\* WlanConnect() and setup() write the configuration.
Setup ==
  /\ Goto("setup", "loop")
  /\ writeGwayCfg
  /\ UNCHANGED <<logs, frameCount, lastSent, recent>>

----------------------------------------------------------------------------

Full == gwayConfig.logFileRec > LOGFILEREC

\* The counters after the turn to a new file, and before one is removed.
Turned ==
  [gwayConfig EXCEPT
     !.logFileRec = (IF Full THEN 0 ELSE @) + 1,
     !.logFileNo  = IF Full THEN @ + 1 ELSE @,
     !.logFileNum = IF Full THEN @ + 1 ELSE @]

TooMany == Turned.logFileNum > LOGFILEMAX

\* Mutant: one file too new.
OldestOffByOne == Turned.logFileNo - LOGFILEMAX + 1

Oldest == Turned.logFileNo - LOGFILEMAX

\* The files written last once no is the newest of them: it moves to the front,
\* and those before it one place back.
WrittenLast(files, no) ==
  LET known(n) == \E j \in 1 .. n : files[j] = no
      length == IF known(Len(files)) \/ Len(files) = LOGFILEMAX
                THEN Len(files) ELSE Len(files) + 1
  IN  [i \in 1 .. length |-> IF i = 1 THEN no
                             ELSE IF known(i - 1) THEN files[i] ELSE files[i - 1]]

\* buildPacket() ends with addLog().
addLog ==
  LET kept == IF TooMany THEN logs \ {Oldest} ELSE logs
      no == Turned.logFileNo
  IN /\ no < MaxLogs
     /\ gwayConfig' = [Turned EXCEPT !.logFileNum = IF TooMany THEN @ - 1 ELSE @]
     /\ logs' = kept \cup {no}
     /\ recent' = WrittenLast(recent, no)

\* A packet is received and logged.
Uplink ==
  /\ Goto("loop", "loop")
  /\ addLog
  /\ UNCHANGED <<file, frameCount, lastSent>>

\* sensorPacket(): the packet is made and logged,
SensorBuilt ==
  /\ Goto("loop", "built")
  /\ addLog
  /\ UNCHANGED <<file, frameCount, lastSent>>

\* the counter advanced,
SensorCounted ==
  /\ pc = "built"
  /\ frameCount' = (frameCount + 1) % Width
  /\ pc' = IF frameCount' % Interval = 0 THEN "save" ELSE "send"
  /\ UNCHANGED <<file, logs, gwayConfig, lastSent, recent>>

\* saved,
SensorSaved ==
  /\ Goto("save", "send")
  /\ writeGwayCfg
  /\ UNCHANGED <<logs, frameCount, lastSent, recent>>

\* and the packet sent, with the counter it was made with.
SensorSent ==
  /\ Goto("send", "loop")
  /\ lastSent' = (frameCount + Width - 1) % Width
  /\ UNCHANGED <<file, logs, gwayConfig, frameCount, recent>>

----------------------------------------------------------------------------

\* A setting is changed in the browser, or the WLAN comes back.
Saved ==
  /\ Goto("loop", "loop")
  /\ writeGwayCfg
  /\ UNCHANGED <<logs, frameCount, lastSent, recent>>

\* /FCNT: the counter is to start from 0.
ResetFrameCount ==
  /\ Goto("loop", "loop")
  /\ frameCount' = 0 /\ lastSent' = NoCounter
  /\ gwayConfig' = [gwayConfig EXCEPT !.fcnt = 0]
  /\ file' = gwayConfig'
  /\ UNCHANGED <<logs, recent>>

\* /FORMAT: gwayConfig is written as it was last saved, counters and all.
Format ==
  /\ Goto("loop", "loop")
  /\ logs' = {} /\ recent' = << >>
  /\ file' = gwayConfig
  /\ UNCHANGED <<gwayConfig, frameCount, lastSent>>

----------------------------------------------------------------------------

\* The power goes off, and comes back.
PowerOff ==
  /\ pc # "off" /\ pc' = "off"
  /\ UNCHANGED <<file, logs, gwayConfig, frameCount, lastSent, recent>>

\* What may be left of a configuration.  The file system writes pages of 256
\* bytes, and the line of FCNT ends in the first; after it FILEREC, FILENO and
\* FILENUM may be missing or without their last digits, for which any smaller
\* number stands here.
Beginnings(config) ==
  {Blank} \cup [fcnt : {config.fcnt},
                logFileRec : 0 .. config.logFileRec,
                logFileNo  : 0 .. config.logFileNo,
                logFileNum : 0 .. config.logFileNum]

\* The power goes off in writeConfig(), which has emptied the file; in the
\* loop it may have been called for /FCNT.
PowerOffWriting ==
  /\ pc \in {"setup", "loop", "save"} /\ pc' = "off"
  /\ \/ file' \in Beginnings(Written) /\ UNCHANGED <<frameCount, lastSent>>
     \/ /\ pc = "loop"
        /\ file' \in Beginnings([Written EXCEPT !.fcnt = 0])
        /\ frameCount' = 0 /\ lastSent' = NoCounter
  /\ UNCHANGED <<logs, gwayConfig, recent>>

\* Or while /FORMAT is at work, which has emptied the flash memory.
PowerOffFormatting ==
  /\ Goto("loop", "off")
  /\ logs' = {} /\ recent' = << >>
  /\ file' \in Beginnings(gwayConfig)
  /\ UNCHANGED <<gwayConfig, frameCount, lastSent>>

Next ==
  \/ Boot \/ Setup
  \/ Uplink \/ SensorBuilt \/ SensorCounted \/ SensorSaved \/ SensorSent
  \/ Saved \/ ResetFrameCount \/ Format
  \/ PowerOff \/ PowerOffWriting \/ PowerOffFormatting

Spec == Init /\ [][Next]_vars

----------------------------------------------------------------------------

\* How far the counter is further on after a restart, the uint16_t included.
Skipped == (frameCount' + Width - frameCount) % Width

\* With a counter in the file, the first packet after a restart has one that
\* no packet had since the last time round, and at most Margin are left out:
\* wherever the power went off, in whatever save, and wherever the counter
\* wraps.  Without one, the counter starts from 0 as it did before, and at most
\* Interval packets are sent once more, unless the power cut emptied the file.
RestartStep ==
  pc = "off" /\ pc' = "setup" =>
    IF file.fcnt # 0 THEN Skipped <= Margin
    ELSE frameCount' = 0 /\ (frameCount <= Interval \/ file = Blank)

RestartsGoOn == [][RestartStep]_vars

\* "we only write the framecounter to EEPROM every 10 values.  It also means
\* that we will invalidate 10 value when restarting the gateway" (_sensor.ino:
\* 528-530): what was sent before a restart is not sent again after it.  It
\* is, if the power goes off before the counter was saved at 10: 0 is saved,
\* and is taken for a file that has no counter.
NotSentAgain == pc = "built" => frameCount # lastSent

\* addLog removes none of the LOGFILEMAX files that were written last, though
\* its counters go back to what was saved, or to 0, or are cut to a byte.
RecentLogsKept == \A i \in DOMAIN recent : recent[i] \in logs
=============================================================================

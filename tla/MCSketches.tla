----------------------------- MODULE MCSketches -----------------------------
(* Three of the sketches, each on a board of its own: the table of a mesh   *)
(* node, the listen window nodes and the scan for the rate of a receiver.   *)
(* The boards never meet, so that each behaviour is one of one of them,     *)
(* chosen at the start, while the variables of the others stay as they are. *)
EXTENDS NodeHistoryWindow, ListenWindow, BaudScan

VARIABLE board

allVars == <<board, nodeHistories, vars, scanVars>>

\* Three reporting nodes, one more than the table has slots; the memory of an
\* empty slot bears the ID of the first.
MCNodeID == 0 .. 2

SketchesInit ==
  /\ board \in {"table", "window", "scan"}
  /\ TableInit /\ Init /\ ScanInit
  /\ board # "scan" => rate = Silent /\ ~ on /\ now = 1

On(b) == board = b /\ UNCHANGED board

TableStep == On("table") /\ TableNext /\ UNCHANGED <<vars, scanVars>>

WindowStep == On("window") /\ Next /\ UNCHANGED <<nodeHistories, scanVars>>

ScanStep(A) == On("scan") /\ A /\ UNCHANGED <<nodeHistories, vars>>

SketchesNext == TableStep \/ WindowStep \/ ScanStep(ScanNext)

SketchesSpec ==
  /\ SketchesInit /\ [][SketchesNext]_allVars
  /\ WF_allVars(ScanStep(ScanTick)) /\ WF_allVars(ScanStep(GPSloop))
=============================================================================

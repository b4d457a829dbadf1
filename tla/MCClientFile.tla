---------------------------- MODULE MCClientFile ----------------------------
(* An instance of ClientFile for TLC.  A folder holds one whole trace, of   *)
(* two files of at most three chunks or of three files of at most two; or   *)
(* one trace of at most two files that is cut off anywhere, or of three     *)
(* files, so that two can be misread; or one that is cut off, of one        *)
(* fingerprint, before or after a whole one.  The fingerprint 2 is a        *)
(* boundary.                                                                *)
EXTENDS ClientFile

CONSTANTS b1, b2, b3

FPs == 1 .. 3
UpAndDown == <<[v \in FPs |-> v], [v \in FPs |-> (v % 3) + 1]>>
WholeTraces ==
  {WholeTrace(f) : f \in SeqOf(SeqOf(FPs, 3), 2) \cup SeqOf(SeqOf({1, 2}, 2), 3)}
CutOff(backups) ==
  UNION {{TraceOf(f, whole, torn) : whole \in 0 .. Len(Cells(f)) - 1, torn \in BOOLEAN} :
           f \in backups}
Short(fps) == SeqOf(SeqOf(fps, 2), 2)
ThreeFiles == <<<<1, 1>>, <<3>>, <<2>>>>
Another == WholeTrace(<<<<3>>, <<1, 1>>>>)

SmallFolders ==
  {<<t>> : t \in WholeTraces \cup CutOff(Short({1, 2}) \cup {ThreeFiles})}
    \cup {<<t, Another>> : t \in CutOff(Short({1}))}
    \cup {<<Another, t>> : t \in CutOff(Short({1}))}
=============================================================================

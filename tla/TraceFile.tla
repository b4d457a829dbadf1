----------------------------- MODULE TraceFile -----------------------------
(***************************************************************************)
(* How a client reads a trace (client/libhashfile.c: hashfile_open,        *)
(* hashfile_next_file, hashfile_next_chunk).  A trace is a header, and for *)
(* every backed-up file a file header, a path and the records of its       *)
(* chunks; each of these is one cell here.  The trace may have been cut    *)
(* off anywhere, between two cells or inside one (torn).  agent_read takes *)
(* what is left when it cannot give all that is asked for, so that a short *)
(* read moves to the end.  The path cell includes a symlink's target.      *)
(*                                                                         *)
(* This is the lowest layer of ClientFile, which has the specification.    *)
(***************************************************************************)
EXTENDS Integers, Sequences, SequencesExt

CONSTANTS
  Chunks,   \* fingerprints
  MisreadMax, \* bound: chunks that a misread file header claims
  Null      \* no chunk

Cell(kind, n, fp) == [kind |-> kind, chunks |-> n, fp |-> fp]
CellsOfFile(file) ==
  <<Cell("file", Len(file), Null), Cell("path", 0, Null)>>
    \o [i \in DOMAIN file |-> Cell("chunk", 0, file[i])]

(* The trace of a backup, which is a sequence of files; the first whole     *)
(* cells are there, and part of one more if the trace is torn.              *)
Cells(backup) ==
  <<Cell("header", 0, Null)>>
    \o FlattenSeq([n \in DOMAIN backup |-> CellsOfFile(backup[n])])

TraceOf(backup, whole, torn) == [backup |-> backup, whole |-> whole, torn |-> torn]
WholeTrace(backup) == TraceOf(backup, Len(Cells(backup)), FALSE)

Traces ==
  {t \in [backup : Seq(Seq(Chunks)), whole : Nat, torn : BOOLEAN] :
     IF t.torn THEN t.whole < Len(Cells(t.backup)) ELSE t.whole <= Len(Cells(t.backup))}

VARIABLES
  trace,   \* the trace, which does not change while it is open
  off,     \* afd->off, in cells
  files,   \* num_files_processed
  chunks,  \* current_file.chunks
  hashes,  \* num_hashes_processed_current_file
  ci,      \* trace_meta.ci, the chunk that was read last, or Null
  adrift   \* has a file been misread: then off is not followed any more

traceVars == <<trace, off, files, chunks, hashes, ci, adrift>>

End == trace.whole + (IF trace.torn THEN 1 ELSE 0)
Whole(cell) == cell < trace.whole
CellAt(cell) == Cells(trace.backup)[cell + 1]

ShortRead == End                         \* afd->off += n, for the n that is left

-----------------------------------------------------------------------------
(* hashfile_open, of the trace t: FALSE if not even its header is there.    *)
CanOpen(t) == t.whole > 0

OpenTrace(t) ==
  /\ trace' = t
  /\ off' = 1 /\ files' = 0 /\ chunks' = 0 /\ hashes' = 0
  /\ ci' = Null /\ adrift' = FALSE

(* hashfile_next_chunk, when the cell to be read is at from, the current    *)
(* file has n chunks and done of them have been read.                       *)
NextChunk(from, n, done) ==
  IF n = done
    THEN ci' = Null /\ off' = from /\ hashes' = done
  ELSE IF Whole(from)
    THEN ci' = CellAt(from).fp /\ off' = from + 1 /\ hashes' = done + 1
  ELSE ci' = Null /\ off' = ShortRead /\ hashes' = done

AllOfThem == chunks                      \* fault: also those that were read
ToSkip == chunks - hashes                \* skip_chunk_count, as if with a sign

(* skip_over_current_file_hashes: over the records not yet read, as the     *)
(* counters have it.  Where a path was cut off, chunks is the new file's    *)
(* and hashes the old one's, so that the next skip may be a negative one.   *)
Skipped == off + ToSkip
Forwards == ~adrift /\ hashes <= chunks
Backwards == adrift \/ hashes > chunks

MoreFiles == files < Len(trace.backup)

(* hashfile_next_file finds no file: all have been read, or the records to  *)
(* be skipped lie past the end, or a header or path is cut off.  By then it *)
(* has set hashes, and for a path also chunks.                              *)
NoNextFile ==
  \/ ~MoreFiles /\ UNCHANGED traceVars
  \/ MoreFiles /\ Skipped > End /\ UNCHANGED traceVars
  \/ /\ MoreFiles /\ Forwards /\ Skipped <= End
     /\ ~Whole(Skipped)
     /\ off' = ShortRead /\ hashes' = chunks
     /\ UNCHANGED <<trace, files, chunks, ci, adrift>>
  \/ /\ MoreFiles /\ Forwards /\ Skipped <= End
     /\ Whole(Skipped) /\ ~Whole(Skipped + 1)
     /\ off' = ShortRead /\ hashes' = chunks /\ chunks' = CellAt(Skipped).chunks
     /\ UNCHANGED <<trace, files, ci, adrift>>

KeptCount == hashes                      \* fault: the line is missing
FromStart == 0                           \* num_hashes_processed_current_file = 0

(* It finds one, and the segmenter asks for its first chunk at once.        *)
NextFile ==
  /\ MoreFiles /\ Forwards
  /\ Whole(Skipped) /\ Whole(Skipped + 1)
  /\ files' = files + 1
  /\ chunks' = CellAt(Skipped).chunks
  /\ NextChunk(Skipped + 2, chunks', FromStart)
  /\ UNCHANGED <<trace, adrift>>

-----------------------------------------------------------------------------
(* A negative skip lands anywhere among the records already read, of whose   *)
(* bytes nothing is known here: what is read there as a file header, a path *)
(* and chunks can be anything, or reach past the end.                       *)

(* The skip would lead before the start of the trace and is refused; or the  *)
(* header is cut off, or the path behind a header with some count.           *)
NoStrayFile ==
  /\ MoreFiles /\ Backwards
  /\ \/ UNCHANGED <<chunks, hashes>>
     \/ hashes' = chunks /\ (UNCHANGED chunks \/ chunks' \in 0 .. MisreadMax)
  /\ UNCHANGED <<trace, off, files, ci, adrift>>

StrayChunk(n, done) ==
  /\ \/ n # done /\ ci' \in Chunks /\ hashes' = done + 1
     \/ ci' = Null /\ hashes' = done
  /\ UNCHANGED off

StrayFile ==
  /\ MoreFiles /\ Backwards
  /\ files' = files + 1
  /\ chunks' \in 0 .. MisreadMax
  /\ StrayChunk(chunks', FromStart)
  /\ adrift' = TRUE
  /\ UNCHANGED trace

-----------------------------------------------------------------------------
Fingerprints(cells) ==
  FlattenSeq([n \in DOMAIN cells |->
                IF cells[n].kind = "chunk" THEN <<cells[n].fp>> ELSE <<>>])

(* The chunks that are there, and those before the place read from.         *)
FirstCells(n) == SubSeq(Cells(trace.backup), 1, n)
Intact == Fingerprints(FirstCells(trace.whole))
TakenSoFar == Fingerprints(FirstCells(IF Whole(off) THEN off ELSE trace.whole))

(* The trace ends inside the path of a file.                               *)
CutInPath ==
  trace.whole < Len(Cells(trace.backup)) /\ CellAt(trace.whole).kind = "path"

TraceTypeOK ==
  /\ off \in 0 .. End
  /\ files \in 0 .. Len(trace.backup)
  /\ chunks \in Nat /\ hashes \in Nat
  /\ adrift \in BOOLEAN
=============================================================================

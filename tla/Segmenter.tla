----------------------------- MODULE Segmenter -----------------------------
(***************************************************************************)
(* How a client cuts a trace into segments (client/segment.c,              *)
(* new_message_segment, called until it returns FALSE by                   *)
(* client_dedup_a_file).  A chunk is a boundary if its fingerprint passes  *)
(* CHECK_BOUNDARY.  Segments take no notice of the files in a trace.       *)
(*                                                                         *)
(* This is one layer of ClientFile, which has the specification.           *)
(***************************************************************************)
EXTENDS TraceFile

CONSTANTS
  Boundaries,        \* fingerprints that pass CHECK_BOUNDARY
  MIN_SEGMENT_SIZE,
  MAX_SEGMENT_SIZE

ASSUME SegmenterAssumption ==
  /\ Boundaries \subseteq Chunks
  /\ Null \notin Chunks
  /\ MisreadMax \in Nat
  /\ MIN_SEGMENT_SIZE \in Nat \ {0}
  /\ MAX_SEGMENT_SIZE \in Nat
  /\ MIN_SEGMENT_SIZE <= MAX_SEGMENT_SIZE

VARIABLES
  fp,       \* segment->fp: the chunks of the segment so far
  segments, \* the segments of this trace that were returned
  pc        \* "read" a chunk, "test" whether the segment ends, "done" with
            \* the trace, or "exited" if it cannot be opened

segmenterVars == <<traceVars, fp, segments, pc>>

(* new_trace_meta.  A trace that cannot be opened ends the client with      *)
(* exit(1), in the middle of whatever else it has to do.                    *)
Open(t) ==
  /\ IF CanOpen(t)
       THEN OpenTrace(t) /\ fp' = <<>> /\ segments' = <<>> /\ pc' = "read"
       ELSE pc' = "exited" /\ UNCHANGED <<traceVars, fp, segments>>

StayBelow(n) == n <= MIN_SEGMENT_SIZE           \* fault: off by one
TooShort(n) == n < MIN_SEGMENT_SIZE

PastMax(n) == n > MAX_SEGMENT_SIZE              \* fault: off by one
TooLong(n) == n >= MAX_SEGMENT_SIZE

NeverLeft == FALSE                              \* fault: the rest is dropped
SomethingLeft == fp # <<>>                      \* seg_size == 0 is the end

Return ==
  /\ segments' = Append(segments, fp)
  /\ fp' = <<>>

NeedsFile == pc = "read" /\ ci = Null

(* trace->ci is NULL: go on to the next file, which may be empty, ...       *)
TakeFile ==
  /\ NeedsFile
  /\ NextFile \/ StrayFile
  /\ UNCHANGED <<fp, segments, pc>>

(* ... or finish the segment when none is found, for whatever reason.  If    *)
(* there is a segment, the next call asks for a file once more.             *)
Finish ==
  /\ NeedsFile
  /\ NoNextFile \/ NoStrayFile
  /\ IF SomethingLeft THEN Return /\ UNCHANGED pc
     ELSE pc' = "done" /\ UNCHANGED <<fp, segments>>

TakeChunk ==
  /\ pc = "read"
  /\ ci # Null
  /\ fp' = Append(fp, ci)
  /\ IF adrift THEN StrayChunk(chunks, hashes) ELSE NextChunk(off, chunks, hashes)
  /\ pc' = "test"
  /\ UNCHANGED <<trace, files, chunks, adrift, segments>>

Test ==
  /\ pc = "test"
  /\ pc' = "read"
  /\ IF \/ TooShort(Len(fp))
        \/ ~TooLong(Len(fp)) /\ Last(fp) \notin Boundaries
       THEN UNCHANGED <<fp, segments>>
       ELSE Return
  /\ UNCHANGED traceVars

NewMessageSegment == TakeFile \/ Finish \/ TakeChunk \/ Test

-----------------------------------------------------------------------------
(* The type of every variable.                                             *)
SegmenterTypeOK ==
  /\ TraceTypeOK
  /\ ci \in Chunks \cup {Null}
  /\ fp \in Seq(Chunks)
  /\ segments \in Seq(Seq(Chunks))
  /\ pc \in {"read", "test", "done", "exited"}

(* What was read of the trace, in this order.                              *)
Given == FlattenSeq(segments) \o fp \o (IF ci = Null THEN <<>> ELSE <<ci>>)

(* No chunk is lost, repeated or moved between the trace and the segments,  *)
(* across the ends of files and of segments and past empty files; at the    *)
(* end every chunk that is there has been returned.  None is made up,       *)
(* unless the trace was cut off inside a path and the retry of              *)
(* hashfile_next_file went back (libhashfile.c:638): what is then misread   *)
(* follows after all the chunks that are there.                             *)
NothingLost ==
  IF adrift THEN CutInPath /\ IsPrefix(Intact, Given)
  ELSE /\ Given = TakenSoFar
       /\ pc = "done" => FlattenSeq(segments) = Intact

(* A segment fits into message_segment.fp, and none but the last one of the *)
(* trace is shorter than MIN_SEGMENT_SIZE, unless the client has gone on to *)
(* misread; none is empty, for its features are taken from it unchecked     *)
(* (feature.c:31).                                                          *)
SizesBounded ==
  /\ Len(fp) <= MAX_SEGMENT_SIZE
  /\ \A i \in DOMAIN segments :
       /\ Len(segments[i]) \in 1 .. MAX_SEGMENT_SIZE
       /\ i < Len(segments) /\ ~adrift => Len(segments[i]) >= MIN_SEGMENT_SIZE

(* Everything that is there of the trace is in its first n segments.       *)
Complete(n) == IsPrefix(Intact, FlattenSeq(SubSeq(segments, 1, n)))

(* Where a segment ends depends on its content alone: at the first boundary *)
(* from MIN_SEGMENT_SIZE on, else at MAX_SEGMENT_SIZE, and elsewhere only   *)
(* when no chunk of the trace is left behind it.  Equal data is cut in the  *)
(* same way in every stream.                                               *)
CutByContent ==
  \A i \in DOMAIN segments :
    LET s == segments[i]
    IN  /\ \A p \in MIN_SEGMENT_SIZE .. Len(s) - 1 : s[p] \notin Boundaries
        /\ \/ Len(s) >= MIN_SEGMENT_SIZE /\ Last(s) \in Boundaries
           \/ Len(s) = MAX_SEGMENT_SIZE
           \/ Complete(i)
=============================================================================

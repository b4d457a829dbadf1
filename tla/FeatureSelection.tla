-------------------------- MODULE FeatureSelection --------------------------
(***************************************************************************)
(* How a client picks the features of a segment (client/feature.c): the    *)
(* segment's chunks themselves if they are few; with FINESSE_FEATURE the   *)
(* smallest fingerprint of each of FEATURE_NUM parts of equal size, the    *)
(* last of which takes the rest; with MINK_FEATURE the FEATURE_NUM         *)
(* smallest of all; with CDMINK_FEATURE those among the smallest of parts  *)
(* that end where the next chunk is a boundary; with NTRANS_FEATURE, for   *)
(* each of FEATURE_NUM linear transforms, the one whose image is greatest. *)
(* quick_min_k_fp finds the smallest in a copy of the part, by a selection *)
(* that moves the smaller ones to its front.                               *)
(*                                                                         *)
(* This is one layer of ClientFile, which has the specification.           *)
(* Fingerprints are numbers, for if_fp_bigger orders their bytes from the  *)
(* first on.  The buffer is indexed from 1 here, the frame of a recursive  *)
(* call from 0, as in the code.                                            *)
(***************************************************************************)
EXTENDS Naturals, Sequences, FiniteSets, SequencesExt

CONSTANTS
  FEATURE_NUM,
  PartBoundaries, \* fingerprints that pass CHECK_BOUNDARY_
  CANDIDATES,     \* fingerprints candidates[] has room for
  SEGMENT_MAX,    \* fingerprints segment->fp has room for
  Transforms      \* lt_res[j] of each fingerprint

(* A transform that is 0 for every chunk would leave pos[j] unset.          *)
ASSUME SelectionAssumption ==
  /\ FEATURE_NUM \in Nat \ {0}
  /\ CANDIDATES \in Nat \ {0} /\ SEGMENT_MAX \in Nat
  /\ \A n \in 1 .. FEATURE_NUM : \A v \in DOMAIN Transforms[n] : Transforms[n][v] \in Nat \ {0}

VARIABLES
  method,    \* FEATURE_METHOD
  segment,   \* segment->fp
  feature,   \* feature->fea
  candidates, \* cdmink_style's list
  startPos,  \* its start_pos
  src, dst,  \* arguments of get_min_k_fp: what it reads, which list it fills
  buf,       \* fp_buf of get_min_k_fp
  frame,     \* arguments of quick_min_k_fp: buf's offset, fp_num and k
  tmp,       \* its pivot
  position,  \* where the pivot will go; that place is free meanwhile
  i,         \* its loop's index
  step       \* "idle" between two segments

callVars == <<src, dst, buf, frame, tmp, position, i>>
partVars == <<candidates, startPos>>
selectionVars == <<method, segment, feature, partVars, callVars, step>>

NoFrame == [off |-> 0, num |-> 0, k |-> 0]
At(j) == frame.off + j + 1                    \* the index in buf of frame[j]

SelectionInit ==
  /\ method \in {"finesse", "mink", "cdmink", "ntrans"}
  /\ segment = <<>>
  /\ feature = <<>>
  /\ candidates = <<>> /\ startPos = 0
  /\ src = <<>> /\ dst = "feature"
  /\ buf = <<>>
  /\ frame = NoFrame
  /\ tmp = 0
  /\ position = 0
  /\ i = 0
  /\ step = "idle"

EvenPart(n) ==                                \* fault: the rest is left out
  LET size == Len(segment) \div FEATURE_NUM
  IN  SubSeq(segment, n * size + 1, (n + 1) * size)

(* What feature n is the smallest fingerprint of.                          *)
Part(n) ==
  LET size == Len(segment) \div FEATURE_NUM
  IN  SubSeq(segment, n * size + 1,
             IF n = FEATURE_NUM - 1 THEN Len(segment) ELSE (n + 1) * size)

NoSwap(b) == [b EXCEPT ![At(position)] = b[At(i)]]   \* fault: a line is missing
Swap(b) == [b EXCEPT ![At(position)] = b[At(i)],
                     ![At(i)] = b[At(position + 1)]]

AtPivot == position                           \* fault: the pivot stays in
AfterPivot == position + 1

WholeK(k) == k                                \* fault: k is passed on as it is
RestOfK(k) == k - AfterPivot

PartSkips(end) == end + 1                     \* fault: a chunk in no part
NextPart(end) == end                          \* start_pos = used_num

(* new_message_feature: the list of features is cleared.                   *)
Begin(fp) ==
  /\ step = "idle"
  /\ segment' = fp
  /\ feature' = <<>>
  /\ candidates' = <<>> /\ startPos' = 0
  /\ step' = "start"
  /\ UNCHANGED <<method, callVars>>

(* get_min_k_fp(part, k, to).                                              *)
GetMinK(part, k, to) ==
  /\ src' = part /\ dst' = to
  /\ buf' = part
  /\ frame' = [off |-> 0, num |-> Len(part), k |-> k]
  /\ tmp' = part[1]
  /\ position' = 0
  /\ i' = 1
  /\ step' = "loop"

(* generate_feature: a short segment is its own list of features.          *)
StartShort ==
  /\ step = "start"
  /\ Len(segment) <= FEATURE_NUM
  /\ feature' = segment
  /\ step' = "done"
  /\ UNCHANGED <<method, segment, partVars, callVars>>

(* finesse_style, for the next part, and mink_style.                       *)
StartPart ==
  /\ step = "start"
  /\ Len(segment) > FEATURE_NUM
  /\ \/ method = "finesse" /\ GetMinK(Part(Len(feature)), 1, "feature")
     \/ method = "mink" /\ GetMinK(segment, FEATURE_NUM, "feature")
  /\ UNCHANGED <<method, segment, feature, partVars>>

(* cdmink_style looks for the end of the next part, which is where the chunk *)
(* behind it is a boundary.  Behind the last chunk there are zeros, which   *)
(* are one, or in a segment of full size whatever follows it in memory.     *)
PartEnds(beyond) ==
  {p \in startPos + 1 .. Len(segment) :
     IF p < Len(segment) THEN segment[p + 1] \in PartBoundaries ELSE beyond}

Beyond == IF Len(segment) < SEGMENT_MAX THEN {TRUE} ELSE BOOLEAN

StartCandidate ==
  /\ step = "start"
  /\ method = "cdmink" /\ Len(segment) > FEATURE_NUM
  /\ startPos < Len(segment)
  /\ \E beyond \in Beyond :
       LET ends == PartEnds(beyond)
           end == IF Len(candidates) < CANDIDATES - 1
                    THEN CHOOSE p \in ends : \A q \in ends : p <= q
                    ELSE Len(segment)
       IN  IF ends = {}
             THEN startPos' = Len(segment) /\ UNCHANGED <<callVars, step>>
             ELSE /\ GetMinK(SubSeq(segment, startPos + 1, end), 1, "candidates")
                  /\ startPos' = NextPart(end)
  /\ UNCHANGED <<method, segment, feature, candidates>>

(* ... and when there are no more, chooses among the candidates.           *)
ChooseCandidates ==
  /\ step = "start"
  /\ method = "cdmink" /\ Len(segment) > FEATURE_NUM
  /\ startPos >= Len(segment)
  /\ IF Len(candidates) <= FEATURE_NUM
       THEN feature' = candidates /\ step' = "done" /\ UNCHANGED callVars
       ELSE GetMinK(candidates, FEATURE_NUM, "feature") /\ UNCHANGED feature
  /\ UNCHANGED <<method, segment, partVars>>

(* ntrans_style: the first chunk at which a transform is greatest.         *)
StartTransforms ==
  /\ step = "start"
  /\ method = "ntrans" /\ Len(segment) > FEATURE_NUM
  /\ LET image(n, p) == Transforms[n][segment[p]]
         pos(n) == CHOOSE p \in DOMAIN segment :
                     /\ \A q \in DOMAIN segment : image(n, q) <= image(n, p)
                     /\ \A q \in 1 .. p - 1 : image(n, q) < image(n, p)
     IN  feature' = [n \in 1 .. FEATURE_NUM |-> segment[pos(n)]]
  /\ step' = "done"
  /\ UNCHANGED <<method, segment, partVars, callVars>>

(* One iteration of quick_min_k_fp's loop.                                  *)
Scan ==
  /\ step = "loop"
  /\ i < frame.num
  /\ IF tmp > buf[At(i)]
       THEN buf' = Swap(buf) /\ position' = position + 1
       ELSE UNCHANGED <<buf, position>>
  /\ i' = i + 1
  /\ UNCHANGED <<method, segment, feature, partVars, src, dst, frame, tmp, step>>

(* The pivot is put in its place.  Either it parts the k smallest from the   *)
(* others, or one side of it is searched further.                           *)
Split ==
  /\ step = "loop"
  /\ i >= frame.num
  /\ buf' = [buf EXCEPT ![At(position)] = tmp]
  /\ IF position + 1 = frame.k \/ position = frame.k
       THEN step' = "copy" /\ UNCHANGED <<frame, tmp, position, i>>
       ELSE /\ frame' =
                 IF position + 1 > frame.k THEN [frame EXCEPT !.num = position]
                 ELSE [off |-> frame.off + AfterPivot,
                       num |-> frame.num - AfterPivot,
                       k |-> RestOfK(frame.k)]
            /\ tmp' = buf'[frame'.off + 1]
            /\ position' = 0
            /\ i' = 1
            /\ UNCHANGED step
  /\ UNCHANGED <<method, segment, feature, partVars, src, dst>>

(* get_min_k_fp copies the front of its buffer to where it was told to.     *)
Copy ==
  /\ step = "copy"
  /\ IF dst = "candidates"
       THEN /\ candidates' = Append(candidates, buf[1])
            /\ step' = "start"
            /\ UNCHANGED feature
       ELSE /\ feature' = feature \o SubSeq(buf, 1, IF method = "finesse" THEN 1 ELSE FEATURE_NUM)
            /\ step' = IF Len(feature') < FEATURE_NUM THEN "start" ELSE "done"
            /\ UNCHANGED candidates
  /\ src' = <<>> /\ dst' = "feature"
  /\ buf' = <<>> /\ frame' = NoFrame /\ tmp' = 0 /\ position' = 0 /\ i' = 0
  /\ UNCHANGED <<method, segment, startPos>>

(* The caller takes the features.                                          *)
Selected ==
  /\ step = "done"
  /\ step' = "idle"
  /\ UNCHANGED <<method, segment, feature, partVars, callVars>>

GenerateFeature == StartShort \/ StartPart \/ StartCandidate \/ ChooseCandidates
                   \/ StartTransforms \/ Scan \/ Split \/ Copy

-----------------------------------------------------------------------------
Count(s, v) == Cardinality({j \in DOMAIN s : s[j] = v})
Minimum(s) == CHOOSE v \in ToSet(s) : \A w \in ToSet(s) : v <= w

(* The type of every variable; the loop stays inside its frame, the frame   *)
(* inside the buffer, and every list inside its array.                      *)
SelectionTypeOK ==
  /\ method \in {"finesse", "mink", "cdmink", "ntrans"}
  /\ \A list \in {segment, feature, candidates, src, buf} : list \in Seq(Nat)
  /\ Len(candidates) <= CANDIDATES /\ Len(feature) <= FEATURE_NUM
  /\ startPos \in Nat /\ dst \in {"feature", "candidates"}
  /\ frame \in [off : Nat, num : Nat, k : Nat]
  /\ tmp \in Nat /\ position \in Nat /\ i \in Nat
  /\ step \in {"idle", "start", "loop", "copy", "done"}
  /\ frame.off + frame.num <= Len(buf)
  /\ step = "loop" => position < i /\ i <= frame.num /\ frame.k \in 1 .. frame.num

(* The selection rearranges its buffer and loses nothing, although it keeps *)
(* the pivot apart and writes over its place; what it has passed is smaller *)
(* than the pivot before that place and not smaller behind it; and all that *)
(* is left of the frame is smaller than the rest, all right of it is not.   *)
SelectionSound ==
  step = "loop" =>
    LET whole == [buf EXCEPT ![At(position)] = tmp]
        inside == {At(j) : j \in 0 .. frame.num - 1}
    IN  /\ \A v \in ToSet(src) : Count(whole, v) = Count(src, v)
        /\ \A j \in 0 .. position - 1 : buf[At(j)] < tmp
        /\ \A j \in position + 1 .. i - 1 : buf[At(j)] >= tmp
        /\ \A p \in 1 .. frame.off, q \in inside : whole[p] <= whole[q]
        /\ \A p \in frame.off + frame.num + 1 .. Len(buf), q \in inside :
             whole[q] <= whole[p]

(* Parts end where the next chunk is a boundary, or with the segment.      *)
Ends == {0, Len(segment)} \cup
          {p \in 1 .. Len(segment) - 1 : segment[p + 1] \in PartBoundaries}
PartsByContent ==
  {SubSeq(segment, e[1] + 1, e[2]) : e \in {pair \in Ends \X Ends : pair[1] < pair[2]}}

(* Every part is represented by its smallest fingerprint, and together the  *)
(* parts are the segment; with MINK_FEATURE the features are the smallest   *)
(* fingerprints, as often as they occur.  The smallest one of the whole     *)
(* segment is a feature, unless transforms choose it, or CDMINK_FEATURE has *)
(* a segment of full size, the end of which may be in no part.              *)
FeaturesAreSmallest ==
  step = "done" =>
    /\ \/ Minimum(segment) \in ToSet(feature)
       \/ method = "ntrans" /\ Len(segment) > FEATURE_NUM
       \/ method = "cdmink" /\ Len(segment) = SEGMENT_MAX
    /\ method # "cdmink" =>
         Len(feature) = IF Len(segment) < FEATURE_NUM THEN Len(segment) ELSE FEATURE_NUM
    /\ Len(segment) > FEATURE_NUM =>
         CASE method = "finesse" ->
                \A n \in DOMAIN feature : feature[n] = Minimum(Part(n - 1))
           [] method = "mink" ->
                \A v \in ToSet(segment), w \in ToSet(feature) :
                  v < w => Count(feature, v) = Count(segment, v)
           [] method = "cdmink" ->
                \A n \in DOMAIN feature : \E p \in PartsByContent : feature[n] = Minimum(p)
           [] method = "ntrans" ->
                \A n \in DOMAIN feature : \A v \in ToSet(segment) :
                  Transforms[n][v] <= Transforms[n][feature[n]]
=============================================================================

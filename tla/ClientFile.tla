----------------------------- MODULE ClientFile -----------------------------
(***************************************************************************)
(* The client's main program (client/main.c): client_dedup_a_file          *)
(* (client/client.c) for every trace in the folder, and at the end         *)
(* free_lcache.  Until a trace ends, cut the next segment from it and      *)
(* select its features (new_message_segment), route it, and send it.       *)
(* Routing itself is the subject of Guidepost and Polling; here a segment  *)
(* goes to one node, whose cache then learns the segment's features before *)
(* the next segment is cut, or to another one.                             *)
(***************************************************************************)
EXTENDS Segmenter, FeatureSelection, LruCache

CONSTANT Folders   \* sequences of traces, as readdir gives them

(* A fingerprint may become a feature, and has an image under each          *)
(* transform; SEGMENT_MAX is what message_segment is declared with.         *)
ASSUME ClientAssumption ==
  /\ Folders \subseteq Seq(Traces)
  /\ Chunks \subseteq Features \cap Nat
  /\ SEGMENT_MAX = MAX_SEGMENT_SIZE
  /\ \A n \in 1 .. FEATURE_NUM : Chunks \subseteq DOMAIN Transforms[n]

VARIABLE folder    \* the traces still to be read

vars == <<folder, segmenterVars, selectionVars, cacheVars>>

Init ==
  /\ folder \in Folders
  /\ trace = TraceOf(<<>>, 0, FALSE) /\ off = 0 /\ files = 0 /\ chunks = 0 /\ hashes = 0 /\ ci = Null
  /\ adrift = FALSE
  /\ fp = <<>> /\ segments = <<>> /\ pc = "done"
  /\ SelectionInit
  /\ CacheInit

Between == step = "idle" /\ todo = <<>>

NextTrace ==
  /\ Between /\ pc = "done" /\ folder # <<>>
  /\ Open(Head(folder))
  /\ folder' = Tail(folder)
  /\ UNCHANGED <<selectionVars, cacheVars>>

(* new_message_segment, which calls new_message_feature when it has cut one. *)
CutSegment ==
  /\ Between
  /\ NewMessageSegment
  /\ IF segments' = segments THEN UNCHANGED selectionVars
     ELSE Begin(Last(segments'))
  /\ UNCHANGED <<folder, cacheVars>>

SelectFeatures == GenerateFeature /\ UNCHANGED <<folder, segmenterVars, cacheVars>>

(* route: the features are entered into lcache[target].                    *)
RouteHere ==
  /\ Selected
  /\ Enter(feature)
  /\ UNCHANGED <<folder, segmenterVars>>

RouteElsewhere ==
  /\ Selected
  /\ UNCHANGED <<folder, segmenterVars, cacheVars>>

EnterFeature == UpdateLcache /\ UNCHANGED <<folder, segmenterVars, selectionVars>>

(* The end of the client's main program.                                   *)
Exit ==
  /\ Between /\ pc = "done" /\ folder = <<>>
  /\ FreeCache
  /\ UNCHANGED <<folder, segmenterVars, selectionVars>>

Next == NextTrace \/ CutSegment \/ SelectFeatures \/ RouteHere \/ RouteElsewhere
        \/ EnterFeature \/ Exit

Spec == Init /\ [][Next]_vars
FairSpec == Spec /\ WF_vars(Next)

(* What every layer relies on at each of its steps: a segment fits its       *)
(* buffer, the selection stays inside its frame and loses nothing, and the  *)
(* cache's list and table hold the same blocks, none of them freed.         *)
Inv ==
  /\ SegmenterTypeOK /\ SizesBounded
  /\ SelectionTypeOK /\ SelectionSound
  /\ CacheTypeOK /\ ListIsTable /\ KeysDiffer

(* Every trace is cut to its end, past files without chunks, through every   *)
(* recursive selection, however it was cut off and whatever is misread of    *)
(* it; and the cache gives back its memory.  Only a trace without a header  *)
(* keeps the client from that.                                              *)
Terminates ==
  <>[](\/ pc = "done" /\ folder = <<>> /\ Between /\ table = {}
       \/ pc = "exited")
=============================================================================

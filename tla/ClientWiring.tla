---------------------------- MODULE ClientWiring ----------------------------
(***************************************************************************)
(* The feature index behind the connections that GPRoute's client opens    *)
(* (client/main.c): to every node one connection for segments and one for  *)
(* feature queries.  At the end of its input a client sends an EOF message *)
(* to every node, on the connection for queries; the node looks for a      *)
(* container of that connection, which never has one.                      *)
(***************************************************************************)
EXTENDS FeatureIndex

CONSTANTS Clients, SegFd, FeaFd   \* a client's two connections to this node

OwnEofFd(cl) == SegFd[cl]      \* fault (of the other kind): where EOF would work
EofFd(cl) == FeaFd[cl]         \* send_eof

(* What each connection carries.                                           *)
ClientCarries == [c \in Conns |->
  {kind \in {"segment", "feature", "eof"} : \E cl \in Clients :
     \/ kind = "segment" /\ c = SegFd[cl]
     \/ kind = "feature" /\ c = FeaFd[cl]
     \/ kind = "eof" /\ c = EofFd(cl)}]

(* No connection is used for both, and none carries anything else.         *)
ASSUME WiringAssumption ==
  /\ SegFd \in [Clients -> Conns]
  /\ FeaFd \in [Clients -> Conns]
  /\ \A cl, other \in Clients : SegFd[cl] # FeaFd[other]
  /\ \A c \in Conns : Carries[c] \subseteq ClientCarries[c]

(* With the real client a container stays with the connection that opened   *)
(* it until it is full: EOF recycles none, a slice never mixes the features *)
(* of two streams, and the container a client leaves half filled stays      *)
(* behind when the client has gone (client/main.c:73, server/main.c:71).    *)
OneStreamSlices ==
  [][\A c \in Conns : openTable[c] # None =>
       openTable'[c] = openTable[c] \/ struct[openTable[c]] = "freed"]_vars
=============================================================================

----------------------------- MODULE MCFraming -----------------------------
(* An instance of Framing for TLC: the peers there are, and sizes that make *)
(* every part of a message arrive in pieces.  A peer is a client at its      *)
(* fea_fd or at its seg_fd, sending up to three messages, or one of the two *)
(* connections of a shutdown program.                                       *)
EXTENDS Framing

Feature(gp) == [kind |-> "feature", body |-> 0, answer |-> gp]
Segment(fps, new) == [kind |-> "segment", body |-> fps, answer |-> new]
Eof == [kind |-> "eof", body |-> 0, answer |-> None]
Shutdown(figures) == [kind |-> "shutdown", body |-> 0, answer |-> figures]

Queries == {Feature(2), Feature(0), Eof}
Pieces == {Segment(1, 0), Segment(1, 1), Segment(2, 1), Segment(2, 2)}
Peers == SeqOf(Queries, 3) \cup SeqOf(Pieces, 3) \cup {<<Shutdown(0)>>, <<Shutdown(None)>>}

MessageSizes == [feature |-> 3, segment |-> 3, eof |-> 1, shutdown |-> 1]
ReplySizes == [feature |-> 2, segment |-> 2, eof |-> 1, shutdown |-> 3]
=============================================================================

------------------------------ MODULE Framing ------------------------------
(***************************************************************************)
(* How messages travel over one connection (communicate.c of the server,   *)
(* the client and the shutdown program).  TCP carries bytes: a message may *)
(* arrive in any pieces, and the two programs find its end by counting.    *)
(*                                                                         *)
(* The node's socket does not block.  receive_message reads the type, then *)
(* the fixed part that type has, then, for a segment, as many fingerprints *)
(* as the fixed part says; it spins while bytes are missing.  The reply    *)
(* goes out in one send.  The peer blocks: it sends a whole message and    *)
(* waits, with MSG_WAITALL, for the fixed part of the reply and for the    *)
(* fingerprints that part announces.                                       *)
(*                                                                         *)
(* Either end may die at any moment.  No program ignores SIGPIPE: a second *)
(* send to a peer that is gone kills the sender.  A node that is gone when *)
(* the peer connects is like one that goes before the first message.       *)
(* Byte i of message n and of its reply is written <<n, i>>.               *)
(***************************************************************************)
EXTENDS Integers, Sequences, SequencesExt

CONSTANTS
  Scripts,     \* a script is what one peer sends: a sequence of messages
  FixedLen,    \* per kind: bytes without the fingerprints of a segment
  ReplyLen,    \* per kind: bytes without the fingerprints of the reply
  SizeAt,      \* where in a segment seg_size is; in a reply, fp_num or hit
  BufSize,     \* bytes of recv_buf
  Rooms,       \* bytes the node's kernel takes in one send
  None

Kinds == {"feature", "segment", "eof", "shutdown"}

(* A message is its kind, the fingerprints in its body, and those in the    *)
(* body of its reply, or None: to an eof, and to the shutdown message that  *)
(* only wakes the node, nobody waits for a reply and none is sent.          *)
Messages == [kind : Kinds, body : Nat, answer : Nat \cup {None}]

ASSUME ConstantAssumption ==
  /\ Scripts \subseteq Seq(Messages) /\ Rooms \subseteq Nat /\ BufSize \in Nat
  /\ FixedLen \in [Kinds -> Nat \ {0}]
  /\ ReplyLen \in [Kinds -> Nat \ {0}]
  /\ FixedLen["eof"] = 1 /\ FixedLen["shutdown"] = 1   \* a type and no more
  /\ SizeAt \in 1 .. FixedLen["segment"]
  /\ None \notin Nat
  /\ \A s \in Scripts : \A i \in DOMAIN s :
       /\ FixedLen[s[i].kind] + s[i].body <= BufSize
       /\ s[i].body > 0 => s[i].kind = "segment"
       /\ s[i].answer # None => SizeAt <= ReplyLen[s[i].kind]

VARIABLES
  script,   \* the peer's messages
  room,     \* bytes the kernel takes when the node sends
  asked,    \* how many messages the peer has sent
  pc,       \* the peer: "ready", reading the reply's "head" or "body", "gone"
  got,      \* total, in recv_and_combine
  reply,    \* the bytes of the reply that were read
  taken,    \* what the peer took for the replies
  up, inbox,  \* bytes to the node: on their way, and arrived
  down, mail, \* bytes to the peer: on their way, and arrived
  node,     \* "up", "dead", or "sigpipe": killed by its own send
  reset,    \* the peer's kernel has refused bytes of the node
  handler,  \* the node: "parked" in epoll, receiving ("type", "fixed",
            \* "body"), with a message to "handle", or "out" of epoll
  total, size, \* receive_message's total and m_size
  buf,      \* recv_buf
  handled   \* the messages that were handed to the node's handlers

peerVars == <<asked, pc, got, reply, taken>>
netVars == <<up, inbox, down, mail>>
nodeVars == <<node, reset, handler, total, size, buf, handled>>
vars == <<script, room, peerVars, netVars, nodeVars>>

Stale == <<0, 0>>   \* a byte nobody has written

Init ==
  /\ script \in Scripts
  /\ room \in Rooms
  /\ asked = 0 /\ pc = "ready" /\ got = 0 /\ reply = <<>> /\ taken = <<>>
  /\ up = <<>> /\ inbox = <<>> /\ down = <<>> /\ mail = <<>>
  /\ node = "up" /\ reset = FALSE /\ handler = "parked"
  /\ total = 0 /\ size = 0
  /\ buf = [p \in 0 .. BufSize - 1 |-> Stale]
  /\ handled = <<>>

-----------------------------------------------------------------------------
(* Messages as bytes, and what a program reads in a byte.                  *)
Bytes(n) == [i \in 1 .. FixedLen[script[n].kind] + script[n].body |-> <<n, i>>]
ReplyBytes(n) ==
  [i \in 1 .. ReplyLen[script[n].kind] + script[n].answer |-> <<n, i>>]

(* MESSAGE_TYPE: only the first byte of a message holds its type.          *)
KindOf(byte) == IF byte # Stale /\ byte[2] = 1 THEN script[byte[1]].kind ELSE "unknown"
SizeIn(byte) == IF byte # Stale /\ byte[2] = SizeAt THEN script[byte[1]].body ELSE 0
AnswerIn(bytes) ==
  IF bytes[SizeAt][2] = SizeAt THEN script[bytes[SizeAt][1]].answer ELSE 0

Least(a, b) == IF a < b THEN a ELSE b
Drop(bytes, n) == SubSeq(bytes, n + 1, Len(bytes))

(* Each of these is one decision of the code; beside it, marked as a fault, *)
(* is what a plausible mistake would make of it.                            *)

NotAdvanced(t, part) == t            \* fault: loop_recieve without total += part
Advanced(t, part) == t + part

WholeFixed(kind) == FixedLen[kind]   \* fault: the type byte is read again
RestOfFixed(kind) == FixedLen[kind] - 1

WhatIsThere(wanted) ==               \* fault: recv without MSG_WAITALL
  IF mail = <<>> /\ node = "up" THEN {} ELSE {Least(wanted, Len(mail))}
(* recv with MSG_WAITALL returns less than was asked for only at the end of *)
(* the stream, and then 0 for ever.                                         *)
WaitedFor(wanted) ==
  IF Len(mail) >= wanted THEN {wanted}
  ELSE IF node # "up" /\ down = <<>> THEN {Len(mail)}
  ELSE {}

OneMore(bytes) == AnswerIn(bytes) + 1   \* fault: fp_num is off by one
Announced(bytes) == AnswerIn(bytes)     \* fp_num, or GP_SIZE above HIT_THRES

HeadThenBody(n) == IF script[n].answer > 0 THEN 2 ELSE 1   \* fault: like the receiver
InOneSend(n) == 1                    \* send_message(connect_fd, send_buf, re_size)

-----------------------------------------------------------------------------
(* The peer: remote_dedup, feature_request, send_eof or socket_send_recv.   *)
Send ==
  /\ pc = "ready" /\ asked < Len(script)
  /\ LET m == script[asked + 1] IN
       /\ up' = IF node = "up" THEN up \o Bytes(asked + 1) ELSE up
       /\ pc' = IF m.answer # None THEN "head" ELSE "ready"
  /\ asked' = asked + 1
  /\ got' = 0 /\ reply' = <<>>
  /\ UNCHANGED <<script, room, taken, inbox, down, mail, nodeVars>>

Take(bytes) ==
  /\ taken' = Append(taken, [of |-> asked, bytes |-> bytes])
  /\ pc' = "ready"

Wanted ==
  IF pc = "head" THEN ReplyLen[script[asked].kind] ELSE Announced(reply)

(* One recv of recv_and_combine, which asks for the full size every time.   *)
(* It returns FALSE at the end of the stream, which recv_message only       *)
(* prints: the caller goes on with what its buffer held before, after a     *)
(* second attempt if that announces a body, which fails in the same way.    *)
Receive ==
  /\ pc \in {"head", "body"}
  /\ \E part \in WaitedFor(Wanted) :
       LET read == reply \o SubSeq(mail, 1, part)
       IN  /\ mail' = Drop(mail, part)
           /\ IF part = Wanted - got
                THEN /\ got' = 0
                     /\ reply' = read
                     /\ IF pc = "head" /\ Announced(read) > 0
                          THEN pc' = "body" /\ UNCHANGED taken
                          ELSE Take(read)
              ELSE IF part = 0
                THEN Take(<<>>) /\ UNCHANGED <<got, reply>>
              ELSE got' = got + part /\ reply' = read /\ UNCHANGED <<pc, taken>>
  /\ UNCHANGED <<script, room, asked, up, inbox, down, nodeVars>>

(* The end of the program, or its death at any moment: what it has not sent *)
(* to the end is lost.                                                      *)
Close ==
  /\ pc = "ready" /\ asked = Len(script)
  /\ pc' = "gone"
  /\ UNCHANGED <<script, room, asked, got, reply, taken, netVars, nodeVars>>

Abort ==
  /\ pc # "gone"
  /\ pc' = "gone"
  /\ up' \in Prefixes(up)
  /\ UNCHANGED <<script, room, asked, got, reply, taken, inbox, down, mail, nodeVars>>

-----------------------------------------------------------------------------
(* The network: bytes arrive in order, one by one or as many at a time as   *)
(* arrive before the receiver looks.                                        *)
ArriveUp ==
  /\ node = "up" /\ up # <<>>
  /\ inbox' = Append(inbox, Head(up))
  /\ up' = Tail(up)
  /\ UNCHANGED <<script, room, peerVars, down, mail, nodeVars>>

ArriveDown ==
  /\ pc # "gone" /\ down # <<>>
  /\ mail' = Append(mail, Head(down))
  /\ down' = Tail(down)
  /\ UNCHANGED <<script, room, peerVars, up, inbox, nodeVars>>

-----------------------------------------------------------------------------
(* The node: message_handler and receive_message.                          *)
Ended == pc = "gone" /\ up = <<>> /\ inbox = <<>>

Wake ==
  /\ handler = "parked"
  /\ inbox # <<>> \/ Ended
  /\ handler' = "type"
  /\ UNCHANGED <<script, room, peerVars, netVars, node, reset, total, size, buf, handled>>

Park ==
  /\ handler = "type" /\ inbox = <<>> /\ ~Ended
  /\ handler' = "parked"
  /\ UNCHANGED <<script, room, peerVars, netVars, node, reset, total, size, buf, handled>>

(* The end of the stream, here or within a message: the fd leaves epoll.   *)
Leave ==
  /\ handler \in {"type", "fixed", "body"} /\ Ended
  /\ handler' = "out"
  /\ UNCHANGED <<script, room, peerVars, netVars, node, reset, total, size, buf, handled>>

ReceiveType ==
  /\ handler = "type" /\ inbox # <<>>
  /\ LET kind == KindOf(Head(inbox)) IN
       /\ handler' = CASE kind \in {"eof", "shutdown"} -> "handle"
                       [] kind = "unknown" -> "out"
                       [] OTHER -> "fixed"
       /\ size' = IF kind \in {"feature", "segment"} THEN RestOfFixed(kind) ELSE 0
  /\ total' = 1
  /\ buf' = [buf EXCEPT ![0] = Head(inbox)]
  /\ inbox' = Tail(inbox)
  /\ UNCHANGED <<script, room, peerVars, up, down, mail, node, reset, handled>>

(* One recv of loop_recieve that finds something.                          *)
ReceiveRest ==
  /\ handler \in {"fixed", "body"}
  /\ inbox # <<>> \/ size = 0
  /\ LET part == Least(size, Len(inbox))
         filled == [p \in DOMAIN buf |-> IF p \in total .. total + part - 1
                                         THEN inbox[p - total + 1] ELSE buf[p]]
     IN  /\ buf' = filled
         /\ inbox' = Drop(inbox, part)
         /\ IF part < size
              THEN /\ total' = total + part
                   /\ size' = size - part
                   /\ UNCHANGED handler
            ELSE IF handler = "fixed" /\ KindOf(buf[0]) = "segment"
              THEN /\ total' = Advanced(total, part)
                   /\ size' = SizeIn(filled[SizeAt - 1])
                   /\ handler' = "body"
            ELSE /\ total' = total + part
                 /\ size' = 0
                 /\ handler' = "handle"
  /\ UNCHANGED <<script, room, peerVars, up, down, mail, node, reset, handled>>

(* The message as the handlers see it in recv_buf.                         *)
InBuf ==
  LET kind == KindOf(buf[0])
      body == IF kind = "segment" THEN SizeIn(buf[SizeAt - 1]) ELSE 0
  IN  [i \in 1 .. FixedLen[kind] + body |-> buf[i - 1]]

(* It is handled, and the reply sent.  What the kernel does not take at once *)
(* is lost: send_message prints that, and its result is not used.           *)
Handle ==
  /\ handler = "handle"
  /\ handled' = Append(handled, InBuf)
  /\ LET n == buf[0][1]
         sent == IF script[n].answer = None THEN <<>>
                 ELSE SubSeq(ReplyBytes(n), 1, Least(room, Len(ReplyBytes(n))))
     IN  IF sent = <<>> \/ pc # "gone"
           THEN down' = down \o sent /\ handler' = "type" /\ UNCHANGED <<node, reset>>
           ELSE LET killed == reset \/ InOneSend(n) > 1
                IN  /\ node' = IF killed THEN "sigpipe" ELSE node
                    /\ handler' = IF killed THEN "out" ELSE "type"
                    /\ reset' = TRUE
                    /\ UNCHANGED down
  /\ UNCHANGED <<script, room, peerVars, up, inbox, mail, total, size, buf>>

(* The node is stopped or killed.  If it leaves bytes unread, its kernel    *)
(* resets the connection and drops what it has not delivered.               *)
Die ==
  /\ node = "up"
  /\ node' = "dead"
  /\ handler' = "out"
  /\ up' = <<>> /\ inbox' = <<>>
  /\ down' \in IF up \o inbox = <<>> THEN {down} ELSE Prefixes(down)
  /\ UNCHANGED <<script, room, peerVars, mail, reset, total, size, buf, handled>>

(* Both ends have finished.                                                *)
Over == pc = "gone" /\ handler = "out" /\ UNCHANGED vars

-----------------------------------------------------------------------------
Handler == Wake \/ Park \/ Leave \/ ReceiveType \/ ReceiveRest \/ Handle

Next == Send \/ Receive \/ Close \/ Abort \/ ArriveUp \/ ArriveDown
        \/ Handler \/ Die \/ Over

Spec == Init /\ [][Next]_vars

(* The network delivers and the threads run; nobody has to send or to die.  *)
FairSpec ==
  Spec /\ WF_vars(ArriveUp) /\ WF_vars(ArriveDown) /\ WF_vars(Handler) /\ WF_vars(Receive)

-----------------------------------------------------------------------------
Byte == ((DOMAIN script) \X Nat) \cup {Stale}

(* The type of every variable.                                             *)
TypeOK ==
  /\ script \in Scripts /\ room \in Rooms
  /\ asked \in 0 .. Len(script)
  /\ pc \in {"ready", "head", "body", "gone"}
  /\ got \in Nat
  /\ \A stream \in {reply, up, inbox, down, mail} : stream \in Seq(Byte)
  /\ node \in {"up", "dead", "sigpipe"} /\ reset \in BOOLEAN
  /\ handler \in {"parked", "type", "fixed", "body", "handle", "out"}
  /\ total \in 0 .. BufSize /\ size \in Nat
  /\ buf \in [0 .. BufSize - 1 -> Byte]

(* No recv is asked to write past the end of recv_buf, however the message  *)
(* was cut up (server/communicate.c:53-62), and none of the peer's asks for *)
(* bytes of more than the reply it waits for (client/communicate.c:21).     *)
InBounds ==
  /\ handler \in {"fixed", "body"} => total + size <= BufSize
  /\ pc \in {"head", "body"} => got = 0 \/ node # "up"

(* Types and bounds of all that is counted while a message arrives.        *)
Inv == TypeOK /\ InBounds

(* The death of a client does not take the node with it: the node sends at   *)
(* most once after its peer has gone, for a peer waits for each reply       *)
(* before it sends on, and a reply is one send; a second would be SIGPIPE   *)
(* (server/communicate.c:112).                                              *)
NodeSurvives == node # "sigpipe"

(* Every reply that is awaited comes, or the wait ends because the node is  *)
(* gone: the two ends never wait for one another over a byte too many or    *)
(* too few, provided the kernel takes a whole reply at once.                *)
RepliesFit ==
  \A n \in DOMAIN script : script[n].answer # None => Len(ReplyBytes(n)) <= room
Answered == (pc \in {"head", "body"} /\ RepliesFit) ~> pc \in {"ready", "gone"}

Which(bytes) ==
  IF \E n \in DOMAIN script : Bytes(n) = bytes
    THEN CHOOSE n \in DOMAIN script : Bytes(n) = bytes ELSE 0
WhatIs(t) ==
  CASE t.bytes = <<>> -> "nothing"
    [] t.bytes = ReplyBytes(t.of) -> "reply"
    [] OTHER -> "else"

Exchange == INSTANCE MessageExchange WITH
  handled <- [i \in DOMAIN handled |-> Which(handled[i])],
  taken <- [i \in DOMAIN taken |-> [of |-> taken[i].of, is |-> WhatIs(taken[i])]],
  broken <- node # "up"

(* Under any division of the bytes, any death and any short send the node    *)
(* handles exactly the messages that were sent, and a peer that goes on has *)
(* the reply to its own message, or the node is gone.                       *)
ImplementsExchange == Exchange!Spec
=============================================================================

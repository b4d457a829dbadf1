--------------------------- MODULE FramingProofs ---------------------------
(***************************************************************************)
(* Messages over one connection are handled whole, once and in order, for  *)
(* any messages and sizes, any division of the bytes and any death.        *)
(*                                                                         *)
(* The argument: the bytes that are under way to the node follow one       *)
(* another and the place in the message at which receive_message is, and   *)
(* the last of them is the last that was sent (Flow), so that what it has  *)
(* counted into recv_buf is the beginning of the next message (Received).  *)
(* The peer waits for a reply before it sends on, so only its last message *)
(* can lack one (Owed), and what is under way to it is the rest of that    *)
(* reply (Reading).                                                        *)
(***************************************************************************)
EXTENDS Framing, SequenceTheorems, WellFoundedInduction, TLAPS

Size(n) == FixedLen[script[n].kind] + script[n].body
ReplySize(n) == ReplyLen[script[n].kind] + script[n].answer

(* The message that the node receives or will receive next.                *)
current == Len(handled) + 1

Types ==
  /\ TypeOK
  /\ handled \in Seq(Seq(Byte))
  /\ taken \in Seq([of : Nat, bytes : Seq(Byte)])

(* What was received: whole messages, and in recv_buf the beginning of the *)
(* current one, of which size bytes are to come before the next decision.  *)
Within == handler \in {"fixed", "body", "handle"}
Received ==
  /\ Len(handled) <= asked
  /\ \A i \in 1 .. Len(handled) : handled[i] = Bytes(i)
  /\ Within =>
       /\ current <= asked
       /\ total \in 1 .. Size(current)
       /\ \A p \in 0 .. total - 1 : buf[p] = <<current, p + 1>>
  /\ handler = "fixed" =>
       /\ script[current].kind \in {"feature", "segment"}
       /\ total + size = FixedLen[script[current].kind]
  /\ handler = "body" =>
       /\ script[current].kind = "segment"
       /\ total >= FixedLen["segment"] /\ total + size = Size(current)
  /\ handler = "handle" => total = Size(current)

(* The bytes that the node has not received, and the last one it has.      *)
Stream == inbox \o up
Position ==
  IF Within THEN <<current, total>>
  ELSE IF Len(handled) = 0 THEN Stale ELSE <<Len(handled), Size(Len(handled))>>

(* What the peer sends after a byte, and a sequence that goes on from one. *)
After(b) ==
  IF b # Stale /\ b[2] < Size(b[1]) THEN <<b[1], b[2] + 1>> ELSE <<b[1] + 1, 1>>
InOrder(b, s) == \A i \in 1 .. Len(s) : s[i] = After(IF i = 1 THEN b ELSE s[i - 1])
LastOf(b, s) == IF Len(s) = 0 THEN b ELSE s[Len(s)]
LastSent == IF asked = 0 THEN Stale ELSE <<asked, Size(asked)>>

Flow ==
  /\ \A i \in 1 .. Len(Stream) : Stream[i][1] \in 1 .. asked
  /\ handler # "out" => InOrder(Position, Stream)
  /\ handler # "out" /\ pc # "gone" => LastOf(Position, Stream) = LastSent
  /\ handler = "out" => Stream = <<>> /\ (node # "up" \/ pc = "gone")
  /\ node # "up" => handler = "out"

(* Whose reply has not been sent.                                          *)
Lacks(n) == n > Len(handled) /\ script[n].answer # None
Waits == pc \in {"head", "body"}
Owed ==
  /\ Waits => asked > 0 /\ script[asked].answer # None
  /\ node = "up" => \A n \in 1 .. asked : Lacks(n) => n = asked /\ pc # "ready" /\ ~reset
  /\ reset => pc = "gone"
  /\ NodeSurvives

(* The reply as it is read: the beginning is in the buffer, the rest, as    *)
(* far as it was sent, under way.                                          *)
Rest == mail \o down
Reading ==
  /\ pc = "ready" => Rest = <<>>
  /\ Waits =>
       /\ \A i \in 1 .. Len(reply) : reply[i] = <<asked, i>>
       /\ \A i \in 1 .. Len(Rest) : Rest[i] = <<asked, Len(reply) + i>>
       /\ Len(reply) + Len(Rest) <= ReplySize(asked)
       /\ Len(reply) + Len(Rest) > 0 => Len(handled) = asked
       /\ got > 0 => node # "up" /\ Rest = <<>>
  /\ pc = "head" => Len(reply) = got /\ got < ReplyLen[script[asked].kind]
  /\ pc = "body" => /\ Len(reply) = ReplyLen[script[asked].kind] + got
                    /\ got < script[asked].answer

(* What the peer took was for its messages, once for each that has a reply. *)
Taken ==
  /\ \A i \in 1 .. Len(taken) : taken[i].of \in 1 .. asked /\ (Waits => taken[i].of # asked)
  /\ pc = "ready" /\ asked > 0 /\ script[asked].answer # None =>
       \E i \in 1 .. Len(taken) : taken[i].of = asked

IInv == Types /\ Received /\ Flow /\ Owed /\ Reading /\ Taken

-----------------------------------------------------------------------------
(* A message of the script, its bytes and those of its reply.              *)
LEMMA MessageSizes ==
  ASSUME script \in Scripts, NEW n \in 1 .. Len(script)
  PROVE  /\ script[n].kind \in Kinds /\ script[n].body \in Nat
         /\ script[n].kind # "segment" => script[n].body = 0
         /\ FixedLen[script[n].kind] \in Nat \ {0}
         /\ Size(n) \in Nat \ {0} /\ Size(n) <= BufSize
         /\ FixedLen[script[n].kind] <= Size(n)
<1>1. script \in Seq(Messages) /\ n \in DOMAIN script
  BY ConstantAssumption
<1>2. script[n] \in Messages
  BY <1>1
<1>3. FixedLen[script[n].kind] \in Nat \ {0}
  BY <1>2, ConstantAssumption DEF Messages
<1>4. FixedLen[script[n].kind] + script[n].body <= BufSize
  BY <1>1, ConstantAssumption
<1>5. script[n].body > 0 => script[n].kind = "segment"
  BY <1>1, ConstantAssumption
<1> QED
  BY <1>2, <1>3, <1>4, <1>5 DEF Messages, Size

LEMMA ReplySizes ==
  ASSUME script \in Scripts, NEW n \in 1 .. Len(script), script[n].answer # None
  PROVE  /\ script[n].answer \in Nat
         /\ ReplyLen[script[n].kind] \in Nat \ {0} /\ SizeAt <= ReplyLen[script[n].kind]
         /\ ReplySize(n) \in Nat \ {0}
<1>1. script \in Seq(Messages) /\ n \in DOMAIN script
  BY ConstantAssumption
<1>2. script[n] \in Messages
  BY <1>1
<1>3. ReplyLen[script[n].kind] \in Nat \ {0}
  BY <1>2, ConstantAssumption DEF Messages
<1>4. SizeAt <= ReplyLen[script[n].kind]
  BY <1>1, ConstantAssumption
<1> QED
  BY <1>2, <1>3, <1>4 DEF Messages, ReplySize

LEMMA MessageBytes ==
  ASSUME script \in Scripts, NEW n \in 1 .. Len(script)
  PROVE  /\ Bytes(n) \in Seq(Byte) /\ Len(Bytes(n)) = Size(n)
         /\ \A i \in 1 .. Size(n) : Bytes(n)[i] = <<n, i>> /\ <<n, i>> \in Byte
<1>1. Size(n) \in Nat \ {0}
  BY MessageSizes
<1>2. Bytes(n) = [i \in 1 .. Size(n) |-> <<n, i>>]
  BY DEF Bytes, Size
<1>3. n \in DOMAIN script
  BY ConstantAssumption
<1>4. \A i \in 1 .. Size(n) : <<n, i>> \in Byte
  BY <1>1, <1>3 DEF Byte
<1> QED
  BY <1>1, <1>2, <1>4

LEMMA ReplyIsBytes ==
  ASSUME script \in Scripts, NEW n \in 1 .. Len(script), script[n].answer # None
  PROVE  /\ ReplyBytes(n) \in Seq(Byte) /\ Len(ReplyBytes(n)) = ReplySize(n)
         /\ \A i \in 1 .. ReplySize(n) : ReplyBytes(n)[i] = <<n, i>>
<1>1. ReplySize(n) \in Nat \ {0}
  BY ReplySizes
<1>2. ReplyBytes(n) = [i \in 1 .. ReplySize(n) |-> <<n, i>>]
  BY DEF ReplyBytes, ReplySize
<1>3. n \in DOMAIN script
  BY ConstantAssumption
<1>4. \A i \in 1 .. ReplySize(n) : <<n, i>> \in Byte
  BY <1>1, <1>3 DEF Byte
<1> QED
  BY <1>1, <1>2, <1>4

(* What a program reads in a byte.                                         *)
LEMMA FirstByte ==
  ASSUME NEW n \in Nat \ {0}
  PROVE  KindOf(<<n, 1>>) = script[n].kind
BY DEF KindOf, Stale

LEMMA SizeByte ==
  ASSUME NEW n \in Nat \ {0}
  PROVE  SizeIn(<<n, SizeAt>>) = script[n].body
BY DEF SizeIn, Stale

-----------------------------------------------------------------------------
(* Sequences of bytes.                                                     *)
LEMMA Smallest ==
  ASSUME NEW T, T \subseteq Nat, T # {}
  PROVE  \E x \in T : \A y \in T : x <= y
<1> DEFINE R == {p \in Nat \X Nat : p[1] < p[2]}
<1>0. IsWellFoundedOn(R, Nat)
  BY NatLessThanWellFounded, Zenon DEF OpToRel
<1>1. PICK x \in T : \A y \in T : <<y, x>> \notin R
  <2> HIDE DEF R
  <2> QED BY WFMin, <1>0
<1>2. ASSUME NEW y \in T PROVE x <= y
  <2>1. <<y, x>> \notin R
    BY <1>1
  <2> QED BY <2>1
<1> QED BY <1>2

(* Within a message the bytes that go on from one are those behind it.     *)
LEMMA Run ==
  ASSUME NEW s \in Seq(Byte), NEW k \in Nat \ {0}, NEW t \in Nat, NEW part \in 0 .. Len(s),
         InOrder(<<k, t>>, s), Size(k) \in Nat, t + part <= Size(k)
  PROVE  \A j \in 1 .. part : s[j] = <<k, t + j>>
<1> DEFINE Bad == {j \in 1 .. part : s[j] # <<k, t + j>>}
<1> SUFFICES ASSUME Bad # {} PROVE FALSE
  OBVIOUS
<1>1. PICK j \in Bad : \A i \in Bad : j <= i
  <2>1. Bad \subseteq Nat
    OBVIOUS
  <2> HIDE DEF Bad
  <2> QED BY <2>1, Smallest
<1>2. j \in 1 .. part /\ j \in 1 .. Len(s) /\ s[j] # <<k, t + j>>
  OBVIOUS
<1>3. (IF j = 1 THEN <<k, t>> ELSE s[j - 1]) = <<k, t + j - 1>>
  <2>1. CASE j = 1
    BY <2>1
  <2>2. CASE j # 1
    <3>1. j - 1 \in 1 .. part /\ ~(j <= j - 1)
      BY <1>2, <2>2
    <3>2. j - 1 \notin Bad
      BY <1>1, <3>1
    <3>3. s[j - 1] = <<k, t + (j - 1)>>
      BY <3>1, <3>2
    <3> QED BY <1>2, <2>2, <3>3
  <2> QED BY <2>1, <2>2
<1>4. s[j] = After(<<k, t + j - 1>>)
  BY <1>2, <1>3 DEF InOrder
<1>5. t + j - 1 < Size(k) /\ <<k, t + j - 1>> # Stale
  BY <1>2 DEF Stale
<1>6. s[j] = <<k, t + j - 1 + 1>>
  BY <1>4, <1>5 DEF After
<1> QED BY <1>2, <1>6

(* What is left behind the first bytes goes on from the last of these.     *)
LEMMA Advance ==
  ASSUME NEW s \in Seq(Byte), NEW r \in Seq(Byte), NEW b, NEW c, NEW part \in 0 .. Len(s),
         Len(r) = Len(s) - part, \A i \in 1 .. Len(r) : r[i] = s[part + i],
         c = IF part = 0 THEN b ELSE s[part]
  PROVE  /\ InOrder(b, s) => InOrder(c, r)
         /\ LastOf(c, r) = LastOf(b, s)
<1>1. Len(s) \in Nat /\ Len(r) \in Nat
  OBVIOUS
<1>2. ASSUME InOrder(b, s), NEW i \in 1 .. Len(r)
      PROVE  r[i] = After(IF i = 1 THEN c ELSE r[i - 1])
  <2>1. part + i \in 1 .. Len(s) /\ r[i] = s[part + i]
    BY <1>1
  <2>2. s[part + i] = After(IF part + i = 1 THEN b ELSE s[part + i - 1])
    BY <1>2, <2>1 DEF InOrder
  <2>3. (IF part + i = 1 THEN b ELSE s[part + i - 1]) = (IF i = 1 THEN c ELSE r[i - 1])
    <3>1. CASE i = 1 /\ part = 0
      BY <3>1
    <3>2. CASE i = 1 /\ part # 0
      BY <3>2, <1>1
    <3>3. CASE i # 1
      <4>1. i - 1 \in 1 .. Len(r) /\ part + (i - 1) = part + i - 1 /\ part + i # 1
        BY <1>1, <3>3
      <4> QED BY <3>3, <4>1
    <3> QED BY <3>1, <3>2, <3>3
  <2> QED BY <2>1, <2>2, <2>3
<1>3. LastOf(c, r) = LastOf(b, s)
  <2>1. CASE part = Len(s)
    BY <1>1, <2>1 DEF LastOf
  <2>2. CASE part # Len(s)
    <3>1. Len(r) \in 1 .. Len(r) /\ part + Len(r) = Len(s) /\ Len(s) # 0
      BY <1>1, <2>2
    <3> QED BY <3>1 DEF LastOf
  <2> QED BY <2>1, <2>2
<1> QED BY <1>2, <1>3 DEF InOrder

(* A part from the beginning goes on from the same byte.                   *)
LEMMA Cut ==
  ASSUME NEW s \in Seq(Byte), NEW r \in Seq(Byte), NEW b,
         Len(r) <= Len(s), \A i \in 1 .. Len(r) : r[i] = s[i], InOrder(b, s)
  PROVE  InOrder(b, r)
<1>1. ASSUME NEW i \in 1 .. Len(r)
      PROVE  r[i] = After(IF i = 1 THEN b ELSE r[i - 1])
  <2>1. i \in 1 .. Len(s) /\ (i # 1 => i - 1 \in 1 .. Len(r))
    OBVIOUS
  <2>2. s[i] = After(IF i = 1 THEN b ELSE s[i - 1])
    BY <2>1 DEF InOrder
  <2> QED BY <2>1, <2>2
<1> QED BY <1>1 DEF InOrder

(* The next message goes on from the last byte of the one before.          *)
LEMMA NextMessage ==
  ASSUME script \in Scripts, NEW n \in 0 .. Len(script) - 1,
         NEW s \in Seq(Byte), NEW b, InOrder(b, s),
         LastOf(b, s) = IF n = 0 THEN Stale ELSE <<n, Size(n)>>
  PROVE  /\ InOrder(b, s \o Bytes(n + 1))
         /\ LastOf(b, s \o Bytes(n + 1)) = <<n + 1, Size(n + 1)>>
<1>0. script \in Seq(Messages) /\ Len(script) \in Nat /\ n + 1 \in 1 .. Len(script)
  BY ConstantAssumption
<1> DEFINE r == s \o Bytes(n + 1)
           z == Size(n + 1)
<1>1. /\ Bytes(n + 1) \in Seq(Byte) /\ Len(Bytes(n + 1)) = z /\ z \in Nat \ {0}
      /\ \A i \in 1 .. z : Bytes(n + 1)[i] = <<n + 1, i>>
  BY <1>0, MessageBytes, MessageSizes
<1> HIDE DEF z
<1>2. /\ r \in Seq(Byte) /\ Len(r) = Len(s) + z
      /\ \A i \in 1 .. Len(s) : r[i] = s[i]
      /\ \A i \in 1 .. z : r[Len(s) + i] = <<n + 1, i>>
  <2>1. /\ r \in Seq(Byte) /\ Len(r) = Len(s) + z
        /\ \A i \in 1 .. Len(s) + z : r[i] = IF i <= Len(s) THEN s[i] ELSE Bytes(n + 1)[i - Len(s)]
    BY <1>1, ConcatProperties
  <2>2. Len(s) \in Nat
    OBVIOUS
  <2> HIDE DEF r
  <2>3. ASSUME NEW i \in 1 .. z
        PROVE  r[Len(s) + i] = <<n + 1, i>>
    <3>1. PICK m \in 1 .. Len(s) + z : m = Len(s) + i
      BY <1>1, <2>2
    <3>2. ~(m <= Len(s)) /\ m - Len(s) = i
      BY <1>1, <2>2, <3>1
    <3>3. r[m] = Bytes(n + 1)[i]
      BY <2>1, <3>2
    <3>4. Bytes(n + 1)[i] = <<n + 1, i>>
      BY <1>1
    <3> QED BY <3>1, <3>3, <3>4
  <2>4. \A i \in 1 .. Len(s) : i \in 1 .. Len(s) + z /\ i <= Len(s)
    BY <1>1, <2>2
  <2> QED BY <2>1, <2>3, <2>4
<1> HIDE DEF r
<1>3. Len(s) \in Nat
  OBVIOUS
<1>4. After(LastOf(b, s)) = <<n + 1, 1>>
  <2>1. CASE n = 0
    BY <2>1 DEF After, Stale
  <2>2. CASE n # 0
    <3>1. n \in 1 .. Len(script) /\ Size(n) \in Nat
      BY <1>0, <2>2, MessageSizes
    <3> QED BY <2>2, <3>1 DEF After
  <2> QED BY <2>1, <2>2
<1>5. ASSUME NEW i \in 1 .. Len(r)
      PROVE  r[i] = After(IF i = 1 THEN b ELSE r[i - 1])
  <2>1. CASE i <= Len(s)
    <3>1. i \in 1 .. Len(s) /\ (i # 1 => i - 1 \in 1 .. Len(s))
      BY <1>3, <2>1
    <3>2. s[i] = After(IF i = 1 THEN b ELSE s[i - 1])
      BY <3>1 DEF InOrder
    <3> QED BY <1>2, <3>1, <3>2
  <2>2. CASE i = Len(s) + 1
    <3>1. (IF i = 1 THEN b ELSE r[i - 1]) = LastOf(b, s)
      <4>1. CASE Len(s) = 0
        BY <2>2, <4>1 DEF LastOf
      <4>2. CASE Len(s) # 0
        <5>1. i # 1 /\ i - 1 = Len(s) /\ Len(s) \in 1 .. Len(s)
          BY <1>3, <2>2, <4>2
        <5> QED BY <1>2, <4>2, <5>1 DEF LastOf
      <4> QED BY <4>1, <4>2
    <3>2. r[i] = <<n + 1, 1>>
      BY <1>1, <1>2, <2>2
    <3> QED BY <1>4, <3>1, <3>2
  <2>3. CASE i > Len(s) + 1
    <3>1. PICK j \in 2 .. z : i = Len(s) + j
      <4>1. i - Len(s) \in 2 .. z /\ i = Len(s) + (i - Len(s))
        BY <1>1, <1>2, <1>3, <2>3
      <4> QED BY <4>1
    <3>2. r[i] = <<n + 1, j>> /\ r[i - 1] = <<n + 1, j - 1>> /\ i # 1
      <4>1. i - 1 = Len(s) + (j - 1) /\ j - 1 \in 1 .. z /\ j \in 1 .. z /\ i # 1
        BY <1>1, <1>3, <3>1
      <4> QED BY <1>2, <3>1, <4>1
    <3>3. After(<<n + 1, j - 1>>) = <<n + 1, j>>
      <4>1. j - 1 < z /\ n + 1 # 0 /\ j - 1 + 1 = j
        BY <1>1, <3>1
      <4> QED BY <4>1 DEF After, Stale, z
    <3>4. (IF i = 1 THEN b ELSE r[i - 1]) = <<n + 1, j - 1>>
      BY <3>2
    <3> QED BY <3>2, <3>3, <3>4
  <2>4. i <= Len(s) \/ i = Len(s) + 1 \/ i > Len(s) + 1
    BY <1>1, <1>2, <1>3
  <2> QED BY <2>1, <2>2, <2>3, <2>4
<1>6. LastOf(b, r) = <<n + 1, z>>
  <2>1. Len(r) # 0 /\ z \in 1 .. z
    BY <1>1, <1>2, <1>3
  <2> QED BY <1>2, <2>1 DEF LastOf
<1> QED BY <1>5, <1>6 DEF InOrder, r, z

-----------------------------------------------------------------------------
(* What the types say, and what is the same as long as the script is.      *)
LEMMA Kept ==
  ASSUME script' = script
  PROVE  /\ Byte' = Byte
         /\ \A n : Size(n)' = Size(n) /\ ReplySize(n)' = ReplySize(n) /\ Bytes(n)' = Bytes(n)
         /\ InOrder(Position', Stream') => InOrder(Position, Stream)'
         /\ LastOf(Position', Stream') = LastOf(Position, Stream)'
<1>1. Byte' = Byte
  BY DEF Byte
<1>2. \A n : Size(n)' = Size(n) /\ ReplySize(n)' = ReplySize(n)
  BY DEF Size, ReplySize
<1>3. \A n : Bytes(n)' = Bytes(n)
  BY DEF Bytes
<1>4. InOrder(Position', Stream') => InOrder(Position, Stream)'
  BY DEF InOrder, After, Size, Stale
<1>5. LastOf(Position', Stream') = LastOf(Position, Stream)'
  BY DEF LastOf
<1> QED BY <1>1, <1>2, <1>3, <1>4, <1>5

LEMMA Sequences ==
  ASSUME TypeOK
  PROVE  /\ script \in Scripts /\ script \in Seq(Messages) /\ Len(script) \in Nat
         /\ asked \in 0 .. Len(script)
         /\ reply \in Seq(Byte) /\ up \in Seq(Byte) /\ inbox \in Seq(Byte)
         /\ down \in Seq(Byte) /\ mail \in Seq(Byte)
         /\ Stream \in Seq(Byte) /\ Len(Stream) = Len(inbox) + Len(up)
         /\ Rest \in Seq(Byte) /\ Len(Rest) = Len(mail) + Len(down)
<1>1. script \in Scripts /\ asked \in 0 .. Len(script)
  BY DEF TypeOK
<1>2. script \in Seq(Messages) /\ Len(script) \in Nat
  BY <1>1, ConstantAssumption
<1>3. /\ reply \in Seq(Byte) /\ up \in Seq(Byte) /\ inbox \in Seq(Byte)
      /\ down \in Seq(Byte) /\ mail \in Seq(Byte)
  BY DEF TypeOK
<1>4. Stream \in Seq(Byte) /\ Len(Stream) = Len(inbox) + Len(up)
  BY <1>3, ConcatProperties DEF Stream
<1>5. Rest \in Seq(Byte) /\ Len(Rest) = Len(mail) + Len(down)
  BY <1>3, ConcatProperties DEF Rest
<1> QED BY <1>1, <1>2, <1>3, <1>4, <1>5

(* Steps that leave a part of the invariant alone.                         *)
receiving == <<handled, handler, total, size, buf>>

LEMMA SameTypes ==
  ASSUME Types, UNCHANGED <<script, room, handled, total, size, buf>>,
         asked' \in 0 .. Len(script), got' \in Nat, reset' \in BOOLEAN,
         pc' \in {"ready", "head", "body", "gone"}, node' \in {"up", "dead", "sigpipe"},
         handler' \in {"parked", "type", "fixed", "body", "handle", "out"},
         reply' \in Seq(Byte), up' \in Seq(Byte), inbox' \in Seq(Byte),
         down' \in Seq(Byte), mail' \in Seq(Byte),
         taken' \in Seq([of : Nat, bytes : Seq(Byte)])
  PROVE  Types'
<1>1. Byte' = Byte
  BY Kept
<1>2. TypeOK'
  BY <1>1 DEF Types, TypeOK
<1> QED BY <1>1, <1>2 DEF Types

LEMMA SameReceived ==
  ASSUME Received, UNCHANGED <<script, receiving>>, asked \in Nat, asked' \in Nat,
         asked <= asked', Len(handled) \in Nat
  PROVE  Received'
<1>1. \A n : Size(n)' = Size(n) /\ Bytes(n)' = Bytes(n)
  BY Kept DEF receiving
<1>2. current' = current /\ Within' = Within /\ current \in Nat
  BY DEF current, receiving, Within
<1>3. Len(handled)' <= asked' /\ \A i \in 1 .. Len(handled)' : handled'[i] = Bytes(i)'
  BY <1>1 DEF Received, receiving
<1>4. Within' => /\ current' <= asked' /\ total' \in 1 .. Size(current)'
                 /\ \A p \in 0 .. total' - 1 : buf'[p] = <<current', p + 1>>
  BY <1>1, <1>2 DEF Received, receiving
<1>5. /\ handler' = "fixed" =>
           /\ script'[current'].kind \in {"feature", "segment"}
           /\ total' + size' = FixedLen[script'[current'].kind]
      /\ handler' = "body" =>
           /\ script'[current'].kind = "segment"
           /\ total' >= FixedLen["segment"] /\ total' + size' = Size(current)'
      /\ handler' = "handle" => total' = Size(current)'
  BY <1>1, <1>2 DEF Received, receiving
<1> QED BY <1>3, <1>4, <1>5 DEF Received

LEMMA SamePosition ==
  ASSUME UNCHANGED <<script, handler, total, handled>>
  PROVE  Position' = Position
<1>1. Size(Len(handled))' = Size(Len(handled))
  BY DEF Size
<1> QED BY <1>1 DEF Position, Within, current

LEMMA SameFlow ==
  ASSUME Flow, UNCHANGED <<script, asked, node, handler, Stream, Position>>,
         pc' # "gone" => pc # "gone"
  PROVE  Flow'
<1>1. InOrder(Position, Stream) => InOrder(Position, Stream)'
  BY Kept
<1>2. LastOf(Position, Stream)' = LastOf(Position, Stream) /\ LastSent' = LastSent
  BY Kept DEF LastSent, Size
<1> QED BY <1>1, <1>2 DEF Flow

LEMMA SameReading ==
  ASSUME Reading, UNCHANGED <<script, asked, pc, got, reply, handled, Rest>>,
         node' = "up" => node = "up"
  PROVE  Reading'
<1>1. \A n : ReplySize(n)' = ReplySize(n)
  BY Kept
<1> QED BY <1>1 DEF Reading, Waits

LEMMA SameOwed ==
  ASSUME Owed, UNCHANGED <<script, asked, pc, handled, reset>>,
         node' = node \/ node' = "dead"
  PROVE  Owed'
BY DEF Owed, Waits, Lacks, NodeSurvives

LEMMA SameTaken ==
  ASSUME Taken, UNCHANGED <<script, asked, pc, taken>>
  PROVE  Taken'
BY DEF Taken, Waits

-----------------------------------------------------------------------------
LEMMA Initially == Init => IInv
<1> SUFFICES ASSUME Init PROVE IInv
  OBVIOUS
<1>0. script \in Seq(Messages) /\ Len(script) \in Nat
  BY ConstantAssumption DEF Init
<1>1. Types
  <2>1. Stale \in Byte
    BY DEF Byte
  <2>2. buf \in [0 .. BufSize - 1 -> Byte] /\ 0 \in 0 .. BufSize
    BY <2>1, ConstantAssumption DEF Init
  <2>3. asked \in 0 .. Len(script)
    BY <1>0 DEF Init
  <2>4. \A stream \in {reply, up, inbox, down, mail} : stream \in Seq(Byte)
    <3>1. <<>> \in Seq(Byte)
      OBVIOUS
    <3> QED BY <3>1, Zenon DEF Init
  <2>5. total \in 0 .. BufSize /\ size \in Nat /\ got \in Nat /\ script \in Scripts
    BY <2>2 DEF Init
  <2>6. TypeOK
    BY <2>2, <2>3, <2>4, <2>5 DEF Init, TypeOK
  <2> QED BY <2>6 DEF Init, Types
<1>2. Received
  BY DEF Init, Received, Within
<1>3. Stream = <<>> /\ Rest = <<>>
  BY DEF Init, Stream, Rest
<1>4. Flow
  BY <1>3 DEF Init, Flow, InOrder, LastOf, LastSent, Position, Within
<1>5. Owed /\ Taken
  BY DEF Init, Owed, Waits, NodeSurvives, Taken
<1>6. Reading
  BY <1>3 DEF Init, Reading, Waits
<1> QED BY <1>1, <1>2, <1>4, <1>5, <1>6 DEF IInv

(* The handler goes to epoll or comes back.                                *)
LEMMA HandlerMoves ==
  ASSUME IInv, Wake \/ Park
  PROVE  IInv'
<1>1. /\ UNCHANGED <<script, room, peerVars, netVars, node, reset, total, size, buf, handled>>
      /\ handler \in {"parked", "type"} /\ handler' \in {"parked", "type"}
  BY DEF Wake, Park
<1> USE DEF peerVars, netVars
<1>2. TypeOK /\ Types
  BY DEF IInv, Types
<1>3. Types'
  BY <1>1, <1>2, Sequences, SameTypes DEF Types, TypeOK
<1>4. ~Within /\ ~Within' /\ Position' = Position /\ Stream' = Stream /\ Rest' = Rest
  BY <1>1, Kept DEF Within, Position, Stream, Rest
<1>5. Received'
  BY <1>1, <1>4, Kept DEF IInv, Received
<1>6. Flow'
  <2>1. InOrder(Position, Stream) => InOrder(Position, Stream)'
    BY <1>1, <1>4, Kept
  <2>2. LastOf(Position, Stream)' = LastOf(Position, Stream) /\ LastSent' = LastSent
    BY <1>1, <1>4, Kept DEF LastSent, Size
  <2> QED BY <1>1, <1>4, <2>1, <2>2 DEF IInv, Flow
<1>7. Owed' /\ Taken'
  BY <1>1, SameOwed, SameTaken DEF IInv
<1>8. Reading'
  BY <1>1, <1>4, SameReading DEF IInv
<1> QED BY <1>3, <1>5, <1>6, <1>7, <1>8 DEF IInv

(* The end of the stream.                                                  *)
LEMMA HandlerLeaves ==
  ASSUME IInv, Leave
  PROVE  IInv'
<1>1. /\ UNCHANGED <<script, room, peerVars, netVars, node, reset, total, size, buf, handled>>
      /\ handler' = "out" /\ pc = "gone" /\ up = <<>> /\ inbox = <<>>
  BY DEF Leave, Ended
<1> USE DEF peerVars, netVars
<1>2. TypeOK /\ Types
  BY DEF IInv, Types
<1>3. Types'
  BY <1>1, <1>2, Sequences, SameTypes DEF Types, TypeOK
<1>4. ~Within' /\ Stream' = <<>> /\ Rest' = Rest
  BY <1>1, <1>2 DEF Within, Stream, Rest
<1>5. Received'
  BY <1>1, <1>4, Kept DEF IInv, Received
<1>6. Flow'
  BY <1>1, <1>4 DEF Flow
<1>7. Owed' /\ Taken'
  BY <1>1, SameOwed, SameTaken DEF IInv
<1>8. Reading'
  BY <1>1, <1>4, SameReading DEF IInv
<1> QED BY <1>3, <1>5, <1>6, <1>7, <1>8 DEF IInv

LEMMA PrefixIs ==
  ASSUME NEW s \in Seq(Byte), NEW p \in Prefixes(s)
  PROVE  p \in Seq(Byte) /\ Len(p) <= Len(s) /\ \A i \in 1 .. Len(p) : p[i] = s[i]
<1>1. PICK n \in 0 .. Len(s) : p = SubSeq(s, 1, n)
  BY DEF Prefixes
<1>2. \A i \in 1 .. n : s[i] \in Byte
  OBVIOUS
<1>3. /\ SubSeq(s, 1, n) \in Seq(Byte)
      /\ Len(SubSeq(s, 1, n)) = n
      /\ \A i \in 1 .. n : SubSeq(s, 1, n)[i] = s[i]
  <2>1. /\ SubSeq(s, 1, n) \in Seq(Byte)
        /\ Len(SubSeq(s, 1, n)) = IF 1 <= n THEN n - 1 + 1 ELSE 0
        /\ \A i \in 1 .. n - 1 + 1 : SubSeq(s, 1, n)[i] = s[1 + i - 1]
    BY <1>2, SubSeqProperties
  <2>2. \A i \in 1 .. n : 1 + i - 1 = i /\ i \in 1 .. n - 1 + 1
    OBVIOUS
  <2> QED BY <2>1, <2>2
<1> QED BY <1>1, <1>3

(* The peer's last message has been answered if it is ready.               *)
LEMMA PeerCloses ==
  ASSUME IInv, Close
  PROVE  IInv'
<1>1. /\ UNCHANGED <<script, room, asked, got, reply, taken, netVars, nodeVars>>
      /\ pc = "ready" /\ pc' = "gone"
  BY DEF Close
<1> USE DEF netVars, nodeVars
<1>2. TypeOK /\ Types
  BY DEF IInv, Types
<1>3. Types'
  BY <1>1, <1>2, Sequences, SameTypes DEF Types, TypeOK
<1>4. Stream' = Stream /\ Position' = Position /\ Rest' = Rest
  BY <1>1, SamePosition DEF Stream, Rest
<1>5. Received'
  BY <1>1, <1>2, Sequences, SameReceived DEF IInv, receiving, Types
<1>6. Flow'
  BY <1>1, <1>4, SameFlow DEF IInv
<1>7. Owed' /\ Taken'
  BY <1>1 DEF IInv, Owed, Taken, Waits, Lacks, NodeSurvives
<1>8. Reading'
  BY <1>1 DEF Reading, Waits
<1> QED BY <1>3, <1>5, <1>6, <1>7, <1>8 DEF IInv

(* What was not delivered of the peer's messages is lost with it.          *)
LEMMA PeerDies ==
  ASSUME IInv, Abort
  PROVE  IInv'
<1>1. /\ UNCHANGED <<script, room, asked, got, reply, taken, inbox, down, mail, nodeVars>>
      /\ pc # "gone" /\ pc' = "gone" /\ up' \in Prefixes(up)
  BY DEF Abort
<1> USE DEF nodeVars
<1>2. TypeOK /\ Types
  BY DEF IInv, Types
<1>3. up \in Seq(Byte) /\ inbox \in Seq(Byte) /\ Stream \in Seq(Byte)
  BY <1>2, Sequences
<1>4. up' \in Seq(Byte) /\ Len(up') <= Len(up) /\ \A i \in 1 .. Len(up') : up'[i] = up[i]
  BY <1>1, <1>3, PrefixIs
<1>5. Types'
  BY <1>1, <1>2, <1>4, Sequences, SameTypes DEF Types, TypeOK
<1>6. /\ Stream' \in Seq(Byte) /\ Len(Stream') <= Len(Stream)
      /\ \A i \in 1 .. Len(Stream') : Stream'[i] = Stream[i]
  <2>1. /\ Stream' \in Seq(Byte) /\ Len(Stream') = Len(inbox) + Len(up')
        /\ \A i \in 1 .. Len(inbox) + Len(up') :
             Stream'[i] = IF i <= Len(inbox) THEN inbox[i] ELSE up'[i - Len(inbox)]
    BY <1>1, <1>3, <1>4, ConcatProperties DEF Stream
  <2>2. /\ Len(Stream) = Len(inbox) + Len(up)
        /\ \A i \in 1 .. Len(inbox) + Len(up) :
             Stream[i] = IF i <= Len(inbox) THEN inbox[i] ELSE up[i - Len(inbox)]
    BY <1>3, ConcatProperties DEF Stream
  <2>3. Len(inbox) \in Nat /\ Len(up) \in Nat /\ Len(up') \in Nat
    BY <1>3, <1>4
  <2>4. ASSUME NEW i \in 1 .. Len(Stream')
        PROVE  Stream'[i] = Stream[i]
    <3>0. i \in 1 .. Len(inbox) + Len(up') /\ i \in 1 .. Len(inbox) + Len(up)
      BY <1>4, <2>1, <2>3
    <3>1. CASE i <= Len(inbox)
      BY <2>1, <2>2, <3>0, <3>1
    <3>2. CASE ~(i <= Len(inbox))
      <4>1. i - Len(inbox) \in 1 .. Len(up')
        BY <2>3, <3>0, <3>2
      <4>2. up'[i - Len(inbox)] = up[i - Len(inbox)]
        BY <1>4, <4>1
      <4> QED BY <2>1, <2>2, <3>0, <3>2, <4>2
    <3> QED BY <3>1, <3>2
  <2> QED BY <1>4, <2>1, <2>2, <2>3, <2>4
<1>7. Position' = Position
  BY <1>1, SamePosition
<1>8. Received'
  BY <1>1, <1>2, Sequences, SameReceived DEF IInv, receiving, Types
<1>9. Flow'
  <2>1. InOrder(Position, Stream) => InOrder(Position, Stream')
    BY <1>3, <1>6, Cut
  <2>2. handler' # "out" => InOrder(Position, Stream)'
    BY <1>1, <1>7, <2>1, Kept DEF IInv, Flow
  <2>3. \A i \in 1 .. Len(Stream') : Stream'[i][1] \in 1 .. asked
    <3>1. Len(Stream) \in Nat /\ Len(Stream') \in Nat
      BY <1>3, <1>6
    <3>2. \A i \in 1 .. Len(Stream') : i \in 1 .. Len(Stream)
      BY <1>6, <3>1
    <3> QED BY <1>6, <3>2 DEF IInv, Flow
  <2>4. handler' = "out" => Stream' = <<>>
    BY <1>1, <1>3, <1>6 DEF IInv, Flow
  <2> QED BY <1>1, <2>2, <2>3, <2>4 DEF IInv, Flow
<1>10. Owed' /\ Taken'
  BY <1>1 DEF IInv, Owed, Taken, Waits, Lacks, NodeSurvives
<1>11. Reading'
  BY <1>1 DEF Reading, Waits
<1> QED BY <1>5, <1>8, <1>9, <1>10, <1>11 DEF IInv

(* The network moves a byte from one end of a stream to the other.         *)
LEMMA MoveOne ==
  ASSUME NEW s \in Seq(Byte), NEW t \in Seq(Byte), t # <<>>
  PROVE  /\ Append(s, Head(t)) \in Seq(Byte) /\ Tail(t) \in Seq(Byte)
         /\ Append(s, Head(t)) \o Tail(t) = s \o t
<1>1. Head(t) \in Byte /\ Tail(t) \in Seq(Byte)
  BY HeadTailProperties
<1>2. /\ <<Head(t)>> \in Seq(Byte)
      /\ Append(s, Head(t)) \in Seq(Byte) /\ Append(s, Head(t)) = s \o <<Head(t)>>
  BY <1>1, AppendIsConcat, AppendProperties
<1>3. t = <<Head(t)>> \o Tail(t)
  BY <1>1
<1>4. (s \o <<Head(t)>>) \o Tail(t) = s \o (<<Head(t)>> \o Tail(t))
  BY <1>1, <1>2, ConcatAssociative
<1> QED BY <1>1, <1>2, <1>3, <1>4

LEMMA BytesArriveUp ==
  ASSUME IInv, ArriveUp
  PROVE  IInv'
<1>1. /\ UNCHANGED <<script, room, peerVars, down, mail, nodeVars>>
      /\ up # <<>> /\ inbox' = Append(inbox, Head(up)) /\ up' = Tail(up)
  BY DEF ArriveUp
<1> USE DEF peerVars, nodeVars
<1>2. TypeOK /\ Types
  BY DEF IInv, Types
<1>3. up \in Seq(Byte) /\ inbox \in Seq(Byte)
  BY <1>2, Sequences
<1>4. up' \in Seq(Byte) /\ inbox' \in Seq(Byte) /\ Stream' = Stream
  BY <1>1, <1>3, MoveOne DEF Stream
<1>5. Types'
  BY <1>1, <1>2, <1>4, Sequences, SameTypes DEF Types, TypeOK
<1>6. Position' = Position /\ Rest' = Rest
  BY <1>1, SamePosition DEF Rest
<1>7. Received'
  BY <1>1, <1>2, Sequences, SameReceived DEF IInv, receiving, Types
<1>8. Flow'
  BY <1>1, <1>4, <1>6, SameFlow DEF IInv
<1>9. Owed' /\ Taken'
  BY <1>1, SameOwed, SameTaken DEF IInv
<1>10. Reading'
  BY <1>1, <1>6, SameReading DEF IInv
<1> QED BY <1>5, <1>7, <1>8, <1>9, <1>10 DEF IInv

LEMMA BytesArriveDown ==
  ASSUME IInv, ArriveDown
  PROVE  IInv'
<1>1. /\ UNCHANGED <<script, room, peerVars, up, inbox, nodeVars>>
      /\ down # <<>> /\ mail' = Append(mail, Head(down)) /\ down' = Tail(down)
  BY DEF ArriveDown
<1> USE DEF peerVars, nodeVars
<1>2. TypeOK /\ Types
  BY DEF IInv, Types
<1>3. down \in Seq(Byte) /\ mail \in Seq(Byte)
  BY <1>2, Sequences
<1>4. down' \in Seq(Byte) /\ mail' \in Seq(Byte) /\ Rest' = Rest
  BY <1>1, <1>3, MoveOne DEF Rest
<1>5. Types'
  BY <1>1, <1>2, <1>4, Sequences, SameTypes DEF Types, TypeOK
<1>6. Position' = Position /\ Stream' = Stream
  BY <1>1, SamePosition DEF Stream
<1>7. Received'
  BY <1>1, <1>2, Sequences, SameReceived DEF IInv, receiving, Types
<1>8. Flow'
  BY <1>1, <1>6, SameFlow DEF IInv
<1>9. Owed' /\ Taken'
  BY <1>1, SameOwed, SameTaken DEF IInv
<1>10. Reading'
  BY <1>1, <1>4, SameReading DEF IInv
<1> QED BY <1>5, <1>7, <1>8, <1>9, <1>10 DEF IInv

(* What was under way to the peer may be lost from any byte on.            *)
LEMMA NodeDies ==
  ASSUME IInv, Die
  PROVE  IInv'
<1>1. /\ UNCHANGED <<script, room, peerVars, mail, reset, total, size, buf, handled>>
      /\ node = "up" /\ node' = "dead" /\ handler' = "out"
      /\ up' = <<>> /\ inbox' = <<>> /\ (down' = down \/ down' \in Prefixes(down))
  BY DEF Die
<1> USE DEF peerVars
<1>2. TypeOK /\ Types
  BY DEF IInv, Types
<1>3. down \in Seq(Byte) /\ mail \in Seq(Byte) /\ Rest \in Seq(Byte) /\ reply \in Seq(Byte)
  BY <1>2, Sequences
<1>4. down' \in Seq(Byte) /\ Len(down') <= Len(down) /\ \A i \in 1 .. Len(down') : down'[i] = down[i]
  BY <1>1, <1>3, PrefixIs
<1>5. Types'
  <2>1. <<>> \in Seq(Byte)
    OBVIOUS
  <2> QED BY <1>1, <1>2, <1>4, <2>1, Sequences, SameTypes DEF Types, TypeOK
<1>6. Stream' = <<>> /\ ~Within'
  BY <1>1 DEF Stream, Within
<1>7. Len(Rest') <= Len(Rest) /\ \A i \in 1 .. Len(Rest') : Rest'[i] = Rest[i]
  <2>1. /\ Len(Rest') = Len(mail) + Len(down')
        /\ \A i \in 1 .. Len(mail) + Len(down') :
             Rest'[i] = IF i <= Len(mail) THEN mail[i] ELSE down'[i - Len(mail)]
    BY <1>1, <1>3, <1>4, ConcatProperties DEF Rest
  <2>2. /\ Len(Rest) = Len(mail) + Len(down)
        /\ \A i \in 1 .. Len(mail) + Len(down) :
             Rest[i] = IF i <= Len(mail) THEN mail[i] ELSE down[i - Len(mail)]
    BY <1>3, ConcatProperties DEF Rest
  <2>3. Len(mail) \in Nat /\ Len(down) \in Nat /\ Len(down') \in Nat
    BY <1>3, <1>4
  <2>4. ASSUME NEW i \in 1 .. Len(Rest')
        PROVE  Rest'[i] = Rest[i]
    <3>0. i \in 1 .. Len(mail) + Len(down') /\ i \in 1 .. Len(mail) + Len(down)
      BY <1>4, <2>1, <2>3
    <3>1. CASE i <= Len(mail)
      BY <2>1, <2>2, <3>0, <3>1
    <3>2. CASE ~(i <= Len(mail))
      <4>1. i - Len(mail) \in 1 .. Len(down')
        BY <2>3, <3>0, <3>2
      <4>2. down'[i - Len(mail)] = down[i - Len(mail)]
        BY <1>4, <4>1
      <4> QED BY <2>1, <2>2, <3>0, <3>2, <4>2
    <3> QED BY <3>1, <3>2
  <2> QED BY <1>4, <2>1, <2>2, <2>3, <2>4
<1>8. Received'
  BY <1>1, <1>6, Kept DEF IInv, Received
<1>9. Flow'
  BY <1>1, <1>6 DEF Flow
<1>10. Owed' /\ Taken'
  BY <1>1, SameOwed, SameTaken DEF IInv
<1>11. Reading'
  <2>1. Len(Rest') \in Nat /\ Len(Rest) \in Nat /\ Len(reply) \in Nat
    BY <1>1, <1>3, <1>4, ConcatProperties DEF Rest
  <2>2. ASSUME pc = "ready" PROVE Rest' = <<>>
    <3>1. Rest = <<>>
      BY <2>2 DEF IInv, Reading
    <3>2. Rest' \in Seq(Byte)
      BY <1>1, <1>3, <1>4, ConcatProperties DEF Rest
    <3> QED BY <1>7, <2>1, <3>1, <3>2
  <2>3. got > 0 => node # "up" \/ ~Waits
    BY DEF IInv, Reading
  <2>4. \A n : ReplySize(n)' = ReplySize(n)
    BY <1>1, Kept
  <2>5. \A i \in 1 .. Len(Rest') : i \in 1 .. Len(Rest)
    BY <1>7, <2>1
  <2>6. ASSUME Waits
        PROVE  /\ \A i \in 1 .. Len(Rest') : Rest'[i] = <<asked, Len(reply) + i>>
               /\ Len(reply) + Len(Rest') <= ReplySize(asked)
               /\ Len(reply) + Len(Rest') > 0 => Len(handled) = asked
    <3>1. /\ \A i \in 1 .. Len(Rest) : Rest[i] = <<asked, Len(reply) + i>>
          /\ Len(reply) + Len(Rest) <= ReplySize(asked)
          /\ Len(reply) + Len(Rest) > 0 => Len(handled) = asked
          /\ asked > 0 /\ script[asked].answer # None /\ asked \in 1 .. Len(script)
      BY <1>2, <2>6, Sequences DEF IInv, Reading, Owed
    <3>2. ReplySize(asked) \in Nat
      BY <1>2, <3>1, ReplySizes, Sequences
    <3>3. \A i \in 1 .. Len(Rest') : Rest'[i] = <<asked, Len(reply) + i>>
      BY <1>7, <2>5, <3>1
    <3> QED BY <1>7, <2>1, <3>1, <3>2, <3>3
  <2> QED BY <1>1, <2>2, <2>3, <2>4, <2>6 DEF IInv, Reading, Waits
<1> QED BY <1>5, <1>8, <1>9, <1>10, <1>11 DEF IInv

(* The peer sends on when it has the reply to its last message.            *)
LEMMA PeerSends ==
  ASSUME IInv, Send
  PROVE  IInv'
<1>1. /\ UNCHANGED <<script, room, taken, inbox, down, mail, nodeVars>>
      /\ pc = "ready" /\ asked < Len(script) /\ asked' = asked + 1
      /\ up' = IF node = "up" THEN up \o Bytes(asked + 1) ELSE up
      /\ pc' = IF script[asked + 1].answer # None THEN "head" ELSE "ready"
      /\ got' = 0 /\ reply' = <<>>
  BY DEF Send
<1> USE DEF nodeVars
<1>2. TypeOK /\ Types
  BY DEF IInv, Types
<1>3. /\ script \in Scripts /\ Len(script) \in Nat /\ asked \in 0 .. Len(script) - 1
      /\ asked + 1 \in 1 .. Len(script)
      /\ up \in Seq(Byte) /\ inbox \in Seq(Byte) /\ Stream \in Seq(Byte)
  BY <1>1, <1>2, Sequences
<1>4. Bytes(asked + 1) \in Seq(Byte)
  BY <1>3, MessageBytes
<1>5. up' \in Seq(Byte)
  BY <1>1, <1>3, <1>4, ConcatProperties
<1>6. Types'
  <2>1. <<>> \in Seq(Byte) /\ asked' \in 0 .. Len(script) /\ pc' \in {"head", "ready"}
    BY <1>1, <1>3
  <2> QED BY <1>1, <1>2, <1>5, <2>1, Sequences, SameTypes DEF Types, TypeOK
<1>7. Position' = Position /\ Rest' = Rest
  BY <1>1, SamePosition DEF Rest
<1>8. Received'
  BY <1>1, <1>2, <1>3, Sequences, SameReceived DEF IInv, receiving, Types
<1>9. Flow'
  <2>1. CASE node = "up"
    <3>1. handler # "out" /\ InOrder(Position, Stream)
      BY <1>1, <2>1 DEF IInv, Flow
    <3>2. LastOf(Position, Stream) = LastSent
      BY <1>1, <3>1 DEF IInv, Flow
    <3>3. Stream' = Stream \o Bytes(asked + 1)
      <4>1. Stream' = inbox \o (up \o Bytes(asked + 1))
        BY <1>1, <2>1 DEF Stream
      <4>2. (inbox \o up) \o Bytes(asked + 1) = inbox \o (up \o Bytes(asked + 1))
        BY <1>3, <1>4, ConcatAssociative
      <4> QED BY <4>1, <4>2 DEF Stream
    <3>4. /\ InOrder(Position, Stream')
          /\ LastOf(Position, Stream') = <<asked + 1, Size(asked + 1)>>
      BY <1>3, <3>1, <3>2, <3>3, NextMessage DEF LastSent
    <3>5. LastSent' = <<asked + 1, Size(asked + 1)>>
      BY <1>1, <1>3, Kept DEF LastSent
    <3>6. ASSUME NEW i \in 1 .. Len(Stream')
          PROVE  Stream'[i][1] \in 1 .. asked + 1
      <4>1. /\ Len(Stream') = Len(Stream) + Len(Bytes(asked + 1))
            /\ \A j \in 1 .. Len(Stream) + Len(Bytes(asked + 1)) :
                 Stream'[j] = IF j <= Len(Stream) THEN Stream[j]
                              ELSE Bytes(asked + 1)[j - Len(Stream)]
        BY <1>3, <1>4, <3>3, ConcatProperties
      <4>2. /\ Len(Bytes(asked + 1)) = Size(asked + 1) /\ Size(asked + 1) \in Nat
            /\ \A j \in 1 .. Size(asked + 1) : Bytes(asked + 1)[j] = <<asked + 1, j>>
        BY <1>3, MessageBytes, MessageSizes
      <4>3. Len(Stream) \in Nat /\ i \in 1 .. Len(Stream) + Size(asked + 1)
        BY <1>3, <4>1, <4>2
      <4>4. CASE i <= Len(Stream)
        <5>1. i \in 1 .. Len(Stream) /\ Stream'[i] = Stream[i]
          BY <4>1, <4>2, <4>3, <4>4
        <5>2. Stream[i][1] \in 1 .. asked
          BY <5>1 DEF IInv, Flow
        <5> QED BY <1>3, <5>1, <5>2
      <4>5. CASE ~(i <= Len(Stream))
        <5>0. i - Len(Stream) \in 1 .. Size(asked + 1)
          BY <4>3, <4>5, <4>2
        <5>1. PICK j \in 1 .. Size(asked + 1) : j = i - Len(Stream)
          BY <5>0
        <5>2. Stream'[i] = Bytes(asked + 1)[j]
          BY <4>1, <4>2, <4>3, <4>5, <5>1
        <5>3. Stream'[i] = <<asked + 1, j>>
          BY <4>2, <5>2
        <5> QED BY <1>3, <5>3
      <4> QED BY <4>4, <4>5
    <3>7. InOrder(Position, Stream)' /\ LastOf(Position, Stream)' = LastSent'
      BY <1>1, <1>7, <3>4, <3>5, Kept
    <3> QED BY <1>1, <2>1, <3>1, <3>6, <3>7 DEF Flow
  <2>2. CASE node # "up"
    <3>1. handler = "out" /\ Stream = <<>> /\ Stream' = Stream
      BY <1>1, <2>2 DEF IInv, Flow, Stream
    <3> QED BY <1>1, <2>2, <3>1 DEF Flow
  <2> QED BY <2>1, <2>2
<1>10. Owed'
  <2>1. ~reset
    BY <1>1 DEF IInv, Owed
  <2>2. ASSUME node = "up", NEW n \in 1 .. asked + 1, Lacks(n)
        PROVE  n = asked + 1 /\ pc' # "ready"
    <3>1. n = asked + 1
      <4>1. n \in 1 .. asked => FALSE
        BY <1>1, <2>2 DEF IInv, Owed
      <4> QED BY <1>3, <2>2, <4>1
    <3> QED BY <1>1, <2>2, <3>1 DEF Lacks
  <2> QED BY <1>1, <1>3, <2>1, <2>2 DEF IInv, Owed, Waits, Lacks, NodeSurvives
<1>11. Reading'
  <2>1. Rest = <<>>
    BY <1>1 DEF IInv, Reading
  <2>2. ASSUME script[asked + 1].answer # None
        PROVE  ReplySize(asked + 1) \in Nat /\ ReplyLen[script[asked + 1].kind] > 0
    BY <1>3, <2>2, ReplySizes
  <2>3. Waits' => pc' = "head" /\ script[asked + 1].answer # None
    BY <1>1 DEF Waits
  <2>4. ReplySize(asked)' = ReplySize(asked + 1)
    BY <1>1 DEF ReplySize
  <2>5. pc' # "body" /\ Rest' = <<>> /\ Len(reply') = 0 /\ Len(Rest') = 0 /\ got' = 0
    BY <1>1, <1>7, <2>1
  <2>6. Waits' => /\ \A i \in 1 .. Len(reply') : reply'[i] = <<asked', i>>
                  /\ \A i \in 1 .. Len(Rest') : Rest'[i] = <<asked', Len(reply') + i>>
                  /\ Len(reply') + Len(Rest') <= ReplySize(asked)'
    BY <2>2, <2>3, <2>4, <2>5
  <2>7. pc' = "head" => got' < ReplyLen[script'[asked'].kind]
    BY <1>1, <2>2, <2>5
  <2> QED BY <2>5, <2>6, <2>7 DEF Reading
<1>12. Taken'
  <2>1. \A i \in 1 .. Len(taken) : taken[i].of \in 1 .. asked
    BY DEF IInv, Taken
  <2>2. \A x \in 1 .. asked : x \in 1 .. asked + 1 /\ x # asked + 1
    BY <1>3
  <2> QED BY <1>1, <2>1, <2>2 DEF Taken
<1> QED BY <1>6, <1>8, <1>9, <1>10, <1>11, <1>12 DEF IInv

-----------------------------------------------------------------------------
(* What was read is no longer under way.                                   *)
LEMMA ReadFrom ==
  ASSUME NEW s \in Seq(Byte), NEW t \in Seq(Byte), NEW part \in 0 .. Len(s)
  PROVE  LET left == Drop(s, part)
         IN  /\ left \in Seq(Byte)
             /\ left \o t \in Seq(Byte) /\ Len(left \o t) = Len(s \o t) - part
             /\ \A i \in 1 .. Len(left \o t) : (left \o t)[i] = (s \o t)[part + i]
             /\ \A i \in 1 .. part : (s \o t)[i] = s[i]
             /\ part \in 0 .. Len(s \o t)
<1>0. Len(s) \in Nat /\ Len(t) \in Nat
  OBVIOUS
<1> DEFINE left == Drop(s, part)
           new == left \o t
           old == s \o t
<1>1. /\ left \in Seq(Byte) /\ Len(left) = Len(s) - part
      /\ \A i \in 1 .. Len(s) - part : left[i] = s[part + i]
  <2>1. \A i \in part + 1 .. Len(s) : s[i] \in Byte
    OBVIOUS
  <2>2. /\ left \in Seq(Byte)
        /\ Len(left) = IF part + 1 <= Len(s) THEN Len(s) - (part + 1) + 1 ELSE 0
        /\ \A i \in 1 .. Len(s) - (part + 1) + 1 : left[i] = s[(part + 1) + i - 1]
    BY <1>0, <2>1, SubSeqProperties DEF Drop
  <2>3. \A i \in 1 .. Len(s) - part :
          (part + 1) + i - 1 = part + i /\ i \in 1 .. Len(s) - (part + 1) + 1
    BY <1>0
  <2> HIDE DEF left
  <2> QED BY <1>0, <2>2, <2>3
<1> HIDE DEF left
<1>2. /\ new \in Seq(Byte) /\ Len(new) = Len(left) + Len(t)
      /\ \A i \in 1 .. Len(left) + Len(t) :
           new[i] = IF i <= Len(left) THEN left[i] ELSE t[i - Len(left)]
  BY <1>1, ConcatProperties
<1>3. /\ Len(old) = Len(s) + Len(t)
      /\ \A i \in 1 .. Len(s) + Len(t) : old[i] = IF i <= Len(s) THEN s[i] ELSE t[i - Len(s)]
  BY ConcatProperties
<1> HIDE DEF new, old
<1>4. ASSUME NEW i \in 1 .. Len(new)
      PROVE  new[i] = old[part + i]
  <2>1. /\ i \in 1 .. Len(left) + Len(t) /\ part + i \in 1 .. Len(s) + Len(t)
        /\ (i <= Len(left) <=> part + i <= Len(s))
        /\ part + i - Len(s) = i - Len(left)
    BY <1>0, <1>1, <1>2
  <2>2. CASE i <= Len(left)
    <3>1. i \in 1 .. Len(s) - part
      BY <1>0, <1>1, <2>2
    <3> QED BY <1>1, <1>2, <1>3, <2>1, <2>2, <3>1
  <2>3. CASE ~(i <= Len(left))
    <3>1. new[i] = t[i - Len(left)]
      BY <1>2, <2>1, <2>3
    <3>2. old[part + i] = t[part + i - Len(s)]
      BY <1>3, <2>1, <2>3
    <3> QED BY <2>1, <3>1, <3>2
  <2> QED BY <2>2, <2>3
<1>5. \A i \in 1 .. part : i \in 1 .. Len(s) + Len(t) /\ i <= Len(s)
  BY <1>0
<1>6. Len(new) = Len(old) - part /\ part \in 0 .. Len(old)
  BY <1>0, <1>1, <1>2, <1>3
<1>7. \A i \in 1 .. part : old[i] = s[i]
  BY <1>3, <1>5
<1> QED BY <1>1, <1>2, <1>4, <1>6, <1>7 DEF left, new, old

LEMMA StreamRead ==
  ASSUME inbox \in Seq(Byte), up \in Seq(Byte), up' = up,
         NEW part \in 0 .. Len(inbox), inbox' = Drop(inbox, part)
  PROVE  /\ inbox' \in Seq(Byte)
         /\ Stream' \in Seq(Byte) /\ Len(Stream') = Len(Stream) - part
         /\ \A i \in 1 .. Len(Stream') : Stream'[i] = Stream[part + i]
         /\ \A i \in 1 .. part : Stream[i] = inbox[i]
         /\ part \in 0 .. Len(Stream)
BY ReadFrom DEF Stream

(* The bytes under way go on from what was read.                           *)
LEMMA FlowRead ==
  ASSUME Flow, script' = script, asked' = asked, pc' = pc, node' = node,
         handler # "out", handler' # "out",
         Stream \in Seq(Byte), Stream' \in Seq(Byte), NEW part \in 0 .. Len(Stream),
         Len(Stream') = Len(Stream) - part,
         \A i \in 1 .. Len(Stream') : Stream'[i] = Stream[part + i],
         Position' = IF part = 0 THEN Position ELSE Stream[part]
  PROVE  Flow'
<1>1. /\ InOrder(Position, Stream) => InOrder(Position', Stream')
      /\ LastOf(Position', Stream') = LastOf(Position, Stream)
  <2>1. PICK s, r, b, c : s = Stream /\ r = Stream' /\ b = Position /\ c = Position'
    OBVIOUS
  <2>2. /\ s \in Seq(Byte) /\ r \in Seq(Byte) /\ part \in 0 .. Len(s)
        /\ Len(r) = Len(s) - part /\ \A i \in 1 .. Len(r) : r[i] = s[part + i]
        /\ c = IF part = 0 THEN b ELSE s[part]
    BY <2>1
  <2>3. (InOrder(b, s) => InOrder(c, r)) /\ LastOf(c, r) = LastOf(b, s)
    BY <2>2, Advance
  <2> QED BY <2>1, <2>3
<1>2. /\ InOrder(Position, Stream)' /\ LastOf(Position, Stream)' = LastOf(Position', Stream')
      /\ LastSent' = LastSent
  BY <1>1, Kept DEF Flow, LastSent, Size
<1>3. \A i \in 1 .. Len(Stream') : part + i \in 1 .. Len(Stream)
  <2>1. Len(Stream) \in Nat
    OBVIOUS
  <2> QED BY <2>1
<1> QED BY <1>1, <1>2, <1>3 DEF Flow

LEMMA TypeArrives ==
  ASSUME IInv, ReceiveType
  PROVE  IInv'
<1>1. /\ UNCHANGED <<script, room, peerVars, up, down, mail, node, reset, handled>>
      /\ handler = "type" /\ inbox # <<>>
      /\ total' = 1 /\ buf' = [buf EXCEPT ![0] = Head(inbox)] /\ inbox' = Tail(inbox)
  BY DEF ReceiveType
<1> USE DEF peerVars
<1>2. TypeOK /\ Types
  BY DEF IInv, Types
<1>3. /\ script \in Scripts /\ Len(script) \in Nat /\ asked \in 0 .. Len(script)
      /\ up \in Seq(Byte) /\ inbox \in Seq(Byte) /\ Stream \in Seq(Byte)
      /\ Len(handled) \in Nat /\ buf \in [0 .. BufSize - 1 -> Byte]
  BY <1>2, Sequences DEF Types, TypeOK
<1>4. inbox' = Drop(inbox, 1) /\ 1 \in 0 .. Len(inbox) /\ Head(inbox) = inbox[1]
  BY <1>1, <1>3, TailIsSubSeq DEF Drop
<1>5. /\ inbox' \in Seq(Byte) /\ Stream' \in Seq(Byte) /\ Len(Stream') = Len(Stream) - 1
      /\ \A i \in 1 .. Len(Stream') : Stream'[i] = Stream[1 + i]
      /\ Stream[1] = inbox[1] /\ 1 \in 0 .. Len(Stream) /\ 1 \in 1 .. Len(Stream)
  BY <1>1, <1>3, <1>4, StreamRead
<1>6. Stream[1] = <<current, 1>>
  <2>1. Stream[1] = After(Position)
    BY <1>1, <1>5 DEF IInv, Flow, InOrder
  <2>2. CASE Len(handled) = 0
    BY <1>1, <2>1, <2>2 DEF Position, Within, After, Stale, current
  <2>3. CASE Len(handled) # 0
    <3>1. Position = <<Len(handled), Size(Len(handled))>>
      BY <1>1, <2>3 DEF Position, Within
    <3>2. Len(handled) \in 1 .. Len(script)
      BY <1>3, <2>3 DEF IInv, Received
    <3>3. Size(Len(handled)) \in Nat
      BY <1>3, <3>2, MessageSizes
    <3> QED BY <2>1, <3>1, <3>3 DEF After, current
  <2> QED BY <2>2, <2>3
<1>7. current \in 1 .. asked /\ current \in 1 .. Len(script) /\ current \in Nat \ {0}
  <2>1. Stream[1][1] \in 1 .. asked
    BY <1>5 DEF IInv, Flow
  <2> QED BY <1>3, <1>6, <2>1
<1>8. Head(inbox) = <<current, 1>> /\ KindOf(Head(inbox)) = script[current].kind
  BY <1>4, <1>5, <1>6, <1>7, FirstByte
<1>9. /\ script[current].kind \in Kinds
      /\ script[current].kind # "segment" => script[current].body = 0
      /\ FixedLen[script[current].kind] \in Nat \ {0}
      /\ Size(current) \in Nat \ {0} /\ Size(current) <= BufSize
      /\ FixedLen[script[current].kind] <= Size(current)
  BY <1>3, <1>7, MessageSizes
<1>10. /\ handler' = IF script[current].kind \in {"eof", "shutdown"} THEN "handle" ELSE "fixed"
       /\ size' = IF script[current].kind \in {"feature", "segment"}
                    THEN FixedLen[script[current].kind] - 1 ELSE 0
  BY <1>8, <1>9 DEF ReceiveType, Kinds, RestOfFixed
<1>11. buf' \in [0 .. BufSize - 1 -> Byte] /\ buf'[0] = <<current, 1>>
  <2>1. 0 \in 0 .. BufSize - 1 /\ Head(inbox) \in Byte
    BY <1>3, <1>4, <1>9, ConstantAssumption
  <2> QED BY <1>1, <1>3, <1>8, <2>1
<1>12. Types'
  <2>1. size' \in Nat /\ total' \in 0 .. BufSize /\ handler' \in {"fixed", "handle"}
    BY <1>1, <1>9, <1>10, ConstantAssumption
  <2>2. Byte' = Byte
    BY <1>1, Kept
  <2>3. \A stream \in {reply, up, inbox, down, mail} : stream \in Seq(Byte)
    BY <1>2 DEF TypeOK
  <2>4. \A stream \in {reply', up', inbox', down', mail'} : stream \in Seq(Byte)
    BY <1>1, <1>5, <2>3
  <2>5. TypeOK'
    BY <1>1, <1>2, <1>11, <2>1, <2>2, <2>4 DEF TypeOK
  <2> QED BY <1>1, <1>2, <2>2, <2>5 DEF Types
<1>13. current' = current /\ Within' /\ Position' = <<current, 1>>
  BY <1>1, <1>10 DEF current, Within, Position
<1>14. Received'
  <2>1. Size(current)' = Size(current) /\ \A n : Bytes(n)' = Bytes(n)
    BY <1>1, <1>13, Kept DEF Size
  <2>2. \A p \in 0 .. total' - 1 : buf'[p] = <<current, p + 1>>
    BY <1>1, <1>11
  <2>3. handler' = "fixed" => /\ script[current].kind \in {"feature", "segment"}
                              /\ total' + size' = FixedLen[script[current].kind]
    BY <1>1, <1>9, <1>10 DEF Kinds
  <2>4. handler' = "handle" => total' = Size(current)
    BY <1>1, <1>9, <1>10, ConstantAssumption DEF Size
  <2>5. handler' # "body"
    BY <1>10
  <2>6. Len(handled) <= asked /\ \A i \in 1 .. Len(handled) : handled[i] = Bytes(i)
    BY DEF IInv, Received
  <2>7. total' \in 1 .. Size(current)
    BY <1>1, <1>9
  <2> QED BY <1>1, <1>7, <1>13, <2>1, <2>2, <2>3, <2>4, <2>5, <2>6, <2>7 DEF Received
<1>15. Flow'
  <2>1. handler # "out" /\ handler' # "out"
    BY <1>1, <1>10
  <2>2. Position' = IF 1 = 0 THEN Position ELSE Stream[1]
    BY <1>6, <1>13
  <2>3. Flow /\ asked' = asked /\ pc' = pc
    BY <1>1 DEF IInv
  <2> QED BY <1>1, <1>3, <1>5, <2>1, <2>2, <2>3, FlowRead
<1>16. Owed' /\ Taken'
  BY <1>1, SameOwed, SameTaken DEF IInv
<1>17. Reading'
  BY <1>1, SameReading DEF IInv, Rest
<1> QED BY <1>12, <1>14, <1>15, <1>16, <1>17 DEF IInv

(* Part of what receive_message waits for arrives: recv_buf holds as much   *)
(* more of the current message.                                            *)
LEMMA RestArrives ==
  ASSUME IInv, ReceiveRest
  PROVE  IInv'
<1>0. /\ UNCHANGED <<script, room, peerVars, up, down, mail, node, reset, handled>>
      /\ handler \in {"fixed", "body"}
  BY DEF ReceiveRest
<1>1. PICK part : part = Least(size, Len(inbox))
  OBVIOUS
<1>2. PICK filled : filled = [p \in DOMAIN buf |-> IF p \in total .. total + part - 1
                                                   THEN inbox[p - total + 1] ELSE buf[p]]
  OBVIOUS
<1>3. /\ buf' = filled /\ inbox' = Drop(inbox, part)
      /\ IF part < size
           THEN total' = total + part /\ size' = size - part /\ handler' = handler
         ELSE IF handler = "fixed" /\ KindOf(buf[0]) = "segment"
           THEN total' = total + part /\ size' = SizeIn(filled[SizeAt - 1]) /\ handler' = "body"
         ELSE total' = total + part /\ size' = 0 /\ handler' = "handle"
  BY <1>1, <1>2 DEF ReceiveRest, Advanced
<1> USE DEF peerVars
<1>4. TypeOK /\ Types
  BY DEF IInv, Types
<1>5. /\ script \in Scripts /\ Len(script) \in Nat /\ asked \in 0 .. Len(script)
      /\ up \in Seq(Byte) /\ inbox \in Seq(Byte) /\ Stream \in Seq(Byte)
      /\ Len(handled) \in Nat /\ buf \in [0 .. BufSize - 1 -> Byte] /\ size \in Nat
  BY <1>4, Sequences DEF Types, TypeOK
<1>6. /\ current \in 1 .. asked /\ current \in 1 .. Len(script) /\ current \in Nat \ {0}
      /\ total \in 1 .. Size(current) /\ \A p \in 0 .. total - 1 : buf[p] = <<current, p + 1>>
      /\ Position = <<current, total>>
  BY <1>0, <1>5 DEF IInv, Received, Within, current, Position
<1>7. /\ script[current].kind \in Kinds /\ script[current].body \in Nat
      /\ script[current].kind # "segment" => script[current].body = 0
      /\ FixedLen[script[current].kind] \in Nat \ {0}
      /\ Size(current) \in Nat \ {0} /\ Size(current) <= BufSize
      /\ Size(current) = FixedLen[script[current].kind] + script[current].body
  BY <1>5, <1>6, MessageSizes DEF Size
<1>8. /\ handler = "fixed" =>
           /\ script[current].kind \in {"feature", "segment"}
           /\ total + size = FixedLen[script[current].kind]
      /\ handler = "body" =>
           /\ script[current].kind = "segment"
           /\ total >= FixedLen["segment"] /\ total + size = Size(current)
  BY DEF IInv, Received
<1>9. total \in Nat \ {0} /\ total + size <= Size(current)
  BY <1>0, <1>6, <1>7, <1>8
<1>10. part \in 0 .. Len(inbox) /\ part \in 0 .. size /\ total + part <= Size(current)
  <2>1. Len(inbox) \in Nat
    BY <1>5
  <2> QED BY <1>1, <1>5, <1>7, <1>9, <2>1 DEF Least
<1>11. /\ inbox' \in Seq(Byte) /\ Stream' \in Seq(Byte) /\ Len(Stream') = Len(Stream) - part
       /\ \A i \in 1 .. Len(Stream') : Stream'[i] = Stream[part + i]
       /\ \A i \in 1 .. part : Stream[i] = inbox[i]
       /\ part \in 0 .. Len(Stream)
  <2>1. up' = up /\ Len(Stream) \in Nat
    BY <1>0, <1>5
  <2> QED BY <1>3, <1>5, <1>10, <2>1, StreamRead
<1>12. \A j \in 1 .. part : inbox[j] = <<current, total + j>> /\ Stream[j] = <<current, total + j>>
  <2>1. InOrder(<<current, total>>, Stream)
    BY <1>0, <1>6 DEF IInv, Flow
  <2>2. \A j \in 1 .. part : Stream[j] = <<current, total + j>>
    <3>1. Size(current) \in Nat /\ total \in Nat /\ total + part <= Size(current)
      BY <1>7, <1>9, <1>10
    <3>2. Stream \in Seq(Byte) /\ part \in 0 .. Len(Stream) /\ current \in Nat \ {0}
      BY <1>5, <1>6, <1>11
    <3> QED BY <2>1, <3>1, <3>2, Run
  <2> QED BY <1>11, <2>2
<1>13. \A p \in 0 .. total + part - 1 : filled[p] = <<current, p + 1>> /\ p \in 0 .. BufSize - 1
  <2> SUFFICES ASSUME NEW p \in 0 .. total + part - 1
               PROVE  filled[p] = <<current, p + 1>> /\ p \in 0 .. BufSize - 1
    OBVIOUS
  <2>1. p \in 0 .. BufSize - 1 /\ p \in DOMAIN buf
    BY <1>5, <1>7, <1>9, <1>10, ConstantAssumption
  <2>2. CASE p < total
    <3>1. p \in 0 .. total - 1 /\ p \notin total .. total + part - 1
      BY <1>9, <1>10, <2>2
    <3> QED BY <1>2, <1>6, <2>1, <3>1
  <2>3. CASE ~(p < total)
    <3>1. p \in total .. total + part - 1 /\ p - total + 1 \in 1 .. part
          /\ total + (p - total + 1) = p + 1
      BY <1>9, <1>10, <2>3
    <3>2. filled[p] = inbox[p - total + 1]
      BY <1>2, <2>1, <3>1
    <3>3. inbox[p - total + 1] = <<current, total + (p - total + 1)>>
      BY <1>12, <3>1
    <3> QED BY <2>1, <3>1, <3>2, <3>3
  <2> QED BY <2>2, <2>3
<1>14. filled \in [0 .. BufSize - 1 -> Byte]
  <2>1. ASSUME NEW p \in 0 .. BufSize - 1
        PROVE  (IF p \in total .. total + part - 1 THEN inbox[p - total + 1] ELSE buf[p]) \in Byte
    <3>1. CASE p \in total .. total + part - 1
      <4>1. p - total + 1 \in 1 .. Len(inbox)
        BY <1>5, <1>9, <1>10, <3>1
      <4> QED BY <1>5, <3>1, <4>1
    <3>2. CASE p \notin total .. total + part - 1
      BY <1>5, <3>2
    <3> QED BY <3>1, <3>2
  <2>2. DOMAIN buf = 0 .. BufSize - 1
    BY <1>5
  <2> QED BY <1>2, <2>1, <2>2
<1>15. buf[0] = <<current, 1>> /\ KindOf(buf[0]) = script[current].kind
  <2>1. 0 \in 0 .. total - 1
    BY <1>9
  <2> QED BY <1>6, <2>1, FirstByte
<1>16. /\ total' = total + part
       /\ \/ part < size /\ size' = size - part /\ handler' = handler
          \/ /\ part = size /\ handler = "fixed" /\ script[current].kind = "segment"
             /\ size' = script[current].body /\ handler' = "body"
          \/ /\ part = size
             /\ handler = "body" \/ script[current].kind # "segment"
             /\ size' = 0 /\ handler' = "handle"
  <2>1. CASE part < size
    BY <1>3, <2>1
  <2>2. CASE ~(part < size) /\ handler = "fixed" /\ KindOf(buf[0]) = "segment"
    <3>1. part = size /\ script[current].kind = "segment" /\ total + part = FixedLen["segment"]
      BY <1>5, <1>8, <1>10, <1>15, <2>2
    <3>2. SizeAt - 1 \in 0 .. total + part - 1 /\ SizeAt - 1 + 1 = SizeAt
      <4>1. SizeAt \in 1 .. FixedLen["segment"]
        BY ConstantAssumption
      <4>2. FixedLen["segment"] \in Nat
        BY <1>7, <3>1
      <4>3. total \in Nat /\ part \in Nat
        BY <1>9, <1>10, <1>5
      <4>4. SizeAt - 1 \in 0 .. FixedLen["segment"] - 1 /\ SizeAt - 1 + 1 = SizeAt
        BY <4>1, <4>2
      <4> QED BY <3>1, <4>3, <4>4
    <3>3. filled[SizeAt - 1] = <<current, SizeAt>>
      BY <1>13, <3>2
    <3>4. SizeIn(filled[SizeAt - 1]) = script[current].body
      BY <1>6, <3>3, SizeByte
    <3> QED BY <1>3, <2>2, <3>1, <3>4
  <2>3. CASE ~(part < size) /\ ~(handler = "fixed" /\ KindOf(buf[0]) = "segment")
    <3>1. part = size
      BY <1>5, <1>10, <2>3
    <3> QED BY <1>0, <1>3, <1>15, <2>3, <3>1
  <2> QED BY <2>1, <2>2, <2>3
<1>17. handler' \in {"fixed", "body", "handle"} /\ size' \in Nat
  BY <1>0, <1>5, <1>7, <1>10, <1>16
<1>18. Types'
  <2>1. total' \in 0 .. BufSize
    BY <1>7, <1>9, <1>10, <1>16, ConstantAssumption
  <2>2. Byte' = Byte
    BY <1>0, Kept
  <2>3. \A stream \in {reply, up, inbox, down, mail} : stream \in Seq(Byte)
    BY <1>4 DEF TypeOK
  <2>4. \A stream \in {reply', up', inbox', down', mail'} : stream \in Seq(Byte)
    BY <1>0, <1>11, <2>3
  <2>5. TypeOK'
    BY <1>0, <1>3, <1>4, <1>14, <1>17, <2>1, <2>2, <2>4 DEF TypeOK
  <2> QED BY <1>0, <1>4, <2>2, <2>5 DEF Types
<1>19. current' = current /\ Within' /\ Position' = <<current, total + part>>
  BY <1>0, <1>16, <1>17 DEF current, Within, Position
<1>20. Received'
  <2>1. Size(current)' = Size(current) /\ \A n : Bytes(n)' = Bytes(n)
    BY <1>0, <1>19, Kept DEF Size
  <2>2. \A p \in 0 .. total' - 1 : buf'[p] = <<current, p + 1>>
    <3>1. total' = total + part /\ buf' = filled
      BY <1>3, <1>16
    <3>2. \A p \in 0 .. total + part - 1 : filled[p] = <<current, p + 1>>
      BY <1>13
    <3>3. ASSUME NEW p \in 0 .. total' - 1 PROVE buf'[p] = <<current, p + 1>>
      <4>1. p \in 0 .. total + part - 1
        BY <1>9, <1>10, <3>1
      <4>2. filled[p] = <<current, p + 1>>
        BY <3>2, <4>1
      <4> QED BY <3>1, <4>2
    <3> QED BY <3>3
  <2>3. handler' = "fixed" => /\ script[current].kind \in {"feature", "segment"}
                              /\ total' + size' = FixedLen[script[current].kind]
    BY <1>5, <1>8, <1>9, <1>10, <1>16
  <2>4. ASSUME handler' = "body"
        PROVE  /\ script[current].kind = "segment"
               /\ total' >= FixedLen["segment"] /\ total' + size' = Size(current)
    <3>1. CASE part < size /\ size' = size - part /\ handler = "body"
      <4>1. FixedLen["segment"] \in Nat
        BY <1>7, <1>8, <3>1
      <4> QED BY <1>5, <1>8, <1>9, <1>10, <1>16, <3>1, <4>1
    <3>2. CASE /\ part = size /\ handler = "fixed" /\ script[current].kind = "segment"
               /\ size' = script[current].body
      <4>1. total' = FixedLen["segment"] /\ FixedLen["segment"] \in Nat
        BY <1>7, <1>8, <1>16, <3>2
      <4> QED BY <1>7, <3>2, <4>1
    <3> QED BY <1>16, <2>4, <3>1, <3>2
  <2>5. ASSUME handler' = "handle" PROVE total' = Size(current)
    <3>1. /\ part = size /\ total' = total + size
          /\ handler = "body" \/ script[current].kind # "segment"
      BY <1>0, <1>16, <2>5
    <3>2. CASE handler = "body"
      BY <1>8, <3>1, <3>2
    <3>3. CASE handler # "body"
      BY <1>0, <1>7, <1>8, <3>1, <3>3
    <3> QED BY <3>2, <3>3
  <2>6. Len(handled) <= asked /\ \A i \in 1 .. Len(handled) : handled[i] = Bytes(i)
    BY DEF IInv, Received
  <2>7. total' \in 1 .. Size(current)
    BY <1>7, <1>9, <1>10, <1>16
  <2>8. /\ handler' = "fixed" =>
             /\ script'[current'].kind \in {"feature", "segment"}
             /\ total' + size' = FixedLen[script'[current'].kind]
        /\ handler' = "body" =>
             /\ script'[current'].kind = "segment"
             /\ total' >= FixedLen["segment"] /\ total' + size' = Size(current)'
        /\ handler' = "handle" => total' = Size(current)'
    BY <1>0, <1>19, <2>1, <2>3, <2>4, <2>5
  <2>9. /\ current' <= asked' /\ total' \in 1 .. Size(current)'
        /\ \A p \in 0 .. total' - 1 : buf'[p] = <<current', p + 1>>
    <3>1. current <= asked
      BY <1>5, <1>6
    <3> QED BY <1>0, <1>19, <2>1, <2>2, <2>7, <3>1
  <2> QED BY <1>0, <2>1, <2>6, <2>8, <2>9 DEF Received
<1>21. Flow'
  <2>1. handler # "out" /\ handler' # "out"
    BY <1>0, <1>17
  <2>2. Position' = IF part = 0 THEN Position ELSE Stream[part]
    <3>1. CASE part = 0
      BY <1>6, <1>9, <1>19, <3>1
    <3>2. CASE part # 0
      <4>1. part \in 1 .. part
        BY <1>10, <3>2
      <4> QED BY <1>12, <1>19, <3>2, <4>1
    <3> QED BY <3>1, <3>2
  <2>3. Flow /\ asked' = asked /\ pc' = pc
    BY <1>0 DEF IInv
  <2> QED BY <1>0, <1>5, <1>11, <2>1, <2>2, <2>3, FlowRead
<1>22. Owed' /\ Taken'
  BY <1>0, SameOwed, SameTaken DEF IInv
<1>23. Reading'
  BY <1>0, SameReading DEF IInv, Rest
<1> QED BY <1>18, <1>20, <1>21, <1>22, <1>23 DEF IInv

(* recv_buf holds the current message and nothing else is looked at.       *)
LEMMA WholeMessage ==
  ASSUME IInv, handler = "handle"
  PROVE  /\ current \in 1 .. asked /\ current \in 1 .. Len(script)
         /\ total = Size(current) /\ buf[0] = <<current, 1>> /\ InBuf = Bytes(current)
<1>1. /\ script \in Scripts /\ Len(script) \in Nat /\ asked \in 0 .. Len(script)
      /\ Len(handled) \in Nat
  BY Sequences DEF IInv, Types, TypeOK
<1>2. /\ current \in 1 .. asked /\ current \in 1 .. Len(script) /\ current \in Nat \ {0}
      /\ total = Size(current) /\ \A p \in 0 .. total - 1 : buf[p] = <<current, p + 1>>
  BY <1>1 DEF IInv, Received, Within, current
<1>3. /\ script[current].kind \in Kinds /\ script[current].body \in Nat
      /\ script[current].kind # "segment" => script[current].body = 0
      /\ FixedLen[script[current].kind] \in Nat \ {0}
      /\ Size(current) \in Nat \ {0}
      /\ Size(current) = FixedLen[script[current].kind] + script[current].body
  BY <1>1, <1>2, MessageSizes DEF Size
<1>4. buf[0] = <<current, 1>> /\ KindOf(buf[0]) = script[current].kind
  <2>1. 0 \in 0 .. total - 1
    BY <1>2, <1>3
  <2>2. buf[0] = <<current, 1>>
    BY <1>2, <2>1
  <2> QED BY <1>2, <2>2, FirstByte
<1>5. ASSUME script[current].kind = "segment"
      PROVE  SizeIn(buf[SizeAt - 1]) = script[current].body
  <2>1. SizeAt \in 1 .. FixedLen["segment"] /\ FixedLen["segment"] \in Nat
    BY <1>3, <1>5, ConstantAssumption
  <2>2. SizeAt - 1 \in 0 .. total - 1 /\ SizeAt - 1 + 1 = SizeAt
    BY <1>2, <1>3, <1>5, <2>1
  <2>3. buf[SizeAt - 1] = <<current, SizeAt>>
    BY <1>2, <2>2
  <2> QED BY <1>2, <2>3, SizeByte
<1>6. InBuf = [i \in 1 .. Size(current) |-> buf[i - 1]]
  <2>1. CASE script[current].kind = "segment"
    BY <1>3, <1>4, <1>5, <2>1 DEF InBuf
  <2>2. CASE script[current].kind # "segment"
    BY <1>3, <1>4, <2>2 DEF InBuf
  <2> QED BY <2>1, <2>2
<1>7. \A i \in 1 .. Size(current) : buf[i - 1] = <<current, i>>
  <2> TAKE i \in 1 .. Size(current)
  <2>1. i - 1 \in 0 .. total - 1 /\ i - 1 + 1 = i
    BY <1>2, <1>3
  <2> QED BY <1>2, <2>1
<1>8. InBuf = [i \in 1 .. Size(current) |-> <<current, i>>]
  BY <1>6, <1>7
<1> QED BY <1>2, <1>4, <1>8 DEF Bytes, Size

(* What the node sends of a reply.                                         *)
SentOf(n) ==
  IF script[n].answer = None THEN <<>>
  ELSE SubSeq(ReplyBytes(n), 1, Least(room, Len(ReplyBytes(n))))

LEMMA SentIs ==
  ASSUME TypeOK, NEW n \in 1 .. Len(script)
  PROVE  /\ SentOf(n) \in Seq(Byte)
         /\ script[n].answer = None => SentOf(n) = <<>>
         /\ script[n].answer # None =>
              /\ Len(SentOf(n)) <= ReplySize(n)
              /\ \A i \in 1 .. Len(SentOf(n)) : SentOf(n)[i] = <<n, i>>
<1>1. CASE script[n].answer = None
  BY <1>1 DEF SentOf
<1>2. CASE script[n].answer # None
  <2>1. /\ ReplyBytes(n) \in Seq(Byte) /\ Len(ReplyBytes(n)) = ReplySize(n)
        /\ \A i \in 1 .. ReplySize(n) : ReplyBytes(n)[i] = <<n, i>>
        /\ ReplySize(n) \in Nat
    BY <1>2, ReplyIsBytes, ReplySizes DEF TypeOK
  <2>2. Least(room, Len(ReplyBytes(n))) \in 0 .. Len(ReplyBytes(n))
    BY <2>1, ConstantAssumption DEF Least, TypeOK
  <2>3. SentOf(n) \in Prefixes(ReplyBytes(n))
    BY <1>2, <2>2 DEF SentOf, Prefixes
  <2>4. /\ SentOf(n) \in Seq(Byte) /\ Len(SentOf(n)) <= ReplySize(n)
        /\ \A i \in 1 .. Len(SentOf(n)) : SentOf(n)[i] = ReplyBytes(n)[i]
    BY <2>1, <2>3, PrefixIs
  <2>5. \A i \in 1 .. Len(SentOf(n)) : i \in 1 .. ReplySize(n)
    BY <2>1, <2>4
  <2> QED BY <1>2, <2>1, <2>4, <2>5
<1> QED BY <1>1, <1>2

(* The node handles the message and replies, to a peer that may be gone.   *)
LEMMA HandleSteps ==
  ASSUME IInv, Handle
  PROVE  /\ UNCHANGED <<script, room, peerVars, up, inbox, mail, total, size, buf, node>>
         /\ node = "up" /\ handler = "handle" /\ handler' = "type"
         /\ handled' = Append(handled, Bytes(current))
         /\ \/ /\ SentOf(current) = <<>> \/ pc # "gone"
               /\ down' = down \o SentOf(current) /\ reset' = reset
            \/ /\ script[current].answer # None /\ pc = "gone"
               /\ down' = down /\ reset' = TRUE
<1>1. /\ UNCHANGED <<script, room, peerVars, up, inbox, mail, total, size, buf>>
      /\ handler = "handle" /\ handled' = Append(handled, InBuf)
  BY DEF Handle
<1>2. node = "up"
  BY <1>1 DEF IInv, Flow
<1>3. current \in 1 .. asked /\ buf[0][1] = current /\ InBuf = Bytes(current)
  BY <1>1, WholeMessage
<1>4. IF SentOf(current) = <<>> \/ pc # "gone"
        THEN down' = down \o SentOf(current) /\ handler' = "type" /\ node' = node /\ reset' = reset
        ELSE /\ node' = IF reset THEN "sigpipe" ELSE node
             /\ handler' = IF reset THEN "out" ELSE "type"
             /\ reset' = TRUE /\ down' = down
  <2>1. PICK n, sent : n = buf[0][1] /\ sent = SentOf(n)
    OBVIOUS
  <2>2. IF sent = <<>> \/ pc # "gone"
          THEN down' = down \o sent /\ handler' = "type" /\ UNCHANGED <<node, reset>>
          ELSE LET killed == reset \/ InOneSend(n) > 1
               IN  /\ node' = IF killed THEN "sigpipe" ELSE node
                   /\ handler' = IF killed THEN "out" ELSE "type"
                   /\ reset' = TRUE
                   /\ UNCHANGED down
    BY <2>1 DEF Handle, SentOf
  <2>3. sent = SentOf(current) /\ ~(InOneSend(n) > 1)
    BY <1>3, <2>1 DEF InOneSend
  <2>4. CASE sent = <<>> \/ pc # "gone"
    BY <2>2, <2>3, <2>4
  <2>5. CASE ~(sent = <<>> \/ pc # "gone")
    BY <2>2, <2>3, <2>5
  <2> QED BY <2>4, <2>5
<1>5. ASSUME SentOf(current) # <<>>
      PROVE  script[current].answer # None /\ ~reset
  <2>1. script[current].answer # None
    BY <1>5 DEF SentOf
  <2>2. Lacks(current)
    <3>1. Len(handled) \in Nat
      BY DEF IInv, Types
    <3> QED BY <2>1, <3>1 DEF Lacks, current
  <2> QED BY <1>2, <1>3, <2>1, <2>2 DEF IInv, Owed
<1> QED BY <1>1, <1>2, <1>3, <1>4, <1>5

LEMMA NodeHandles ==
  ASSUME IInv, Handle
  PROVE  IInv'
<1>1. /\ UNCHANGED <<script, room, peerVars, up, inbox, mail, total, size, buf, node>>
      /\ node = "up" /\ handler = "handle" /\ handler' = "type"
      /\ handled' = Append(handled, Bytes(current))
      /\ \/ /\ SentOf(current) = <<>> \/ pc # "gone"
            /\ down' = down \o SentOf(current) /\ reset' = reset
         \/ /\ script[current].answer # None /\ pc = "gone"
            /\ down' = down /\ reset' = TRUE
  BY HandleSteps
<1> USE DEF peerVars
<1>2. TypeOK /\ Types
  BY DEF IInv, Types
<1>3. /\ script \in Scripts /\ Len(script) \in Nat /\ asked \in 0 .. Len(script)
      /\ up \in Seq(Byte) /\ inbox \in Seq(Byte) /\ down \in Seq(Byte) /\ mail \in Seq(Byte)
      /\ Stream \in Seq(Byte) /\ Rest \in Seq(Byte) /\ reply \in Seq(Byte) /\ got \in Nat
      /\ handled \in Seq(Seq(Byte)) /\ Len(handled) \in Nat
  BY <1>2, Sequences DEF Types, TypeOK
<1>4. /\ current \in 1 .. asked /\ current \in 1 .. Len(script) /\ total = Size(current)
      /\ current = Len(handled) + 1
  BY <1>1, WholeMessage DEF current
<1>5. Bytes(current) \in Seq(Byte) /\ SentOf(current) \in Seq(Byte)
  BY <1>2, <1>3, <1>4, MessageBytes, SentIs
<1>6. /\ handled' \in Seq(Seq(Byte)) /\ Len(handled') = current
      /\ \A i \in 1 .. Len(handled) : handled'[i] = handled[i]
      /\ handled'[current] = Bytes(current)
  BY <1>1, <1>3, <1>4, <1>5, AppendProperties
<1>7. Types'
  <2>1. Byte' = Byte
    BY <1>1, Kept
  <2>2. down' \in Seq(Byte) /\ reset' \in BOOLEAN
    <3>1. down \o SentOf(current) \in Seq(Byte)
      BY <1>3, <1>5, ConcatProperties
    <3>2. reset \in BOOLEAN
      BY <1>2 DEF TypeOK
    <3> QED BY <1>1, <1>3, <3>1, <3>2
  <2>3. \A stream \in {reply, up, inbox, down, mail} : stream \in Seq(Byte)
    BY <1>2 DEF TypeOK
  <2>4. \A stream \in {reply', up', inbox', down', mail'} : stream \in Seq(Byte)
    BY <1>1, <2>2, <2>3
  <2>5. TypeOK'
    BY <1>1, <1>2, <2>1, <2>2, <2>4 DEF TypeOK
  <2> QED BY <1>1, <1>2, <1>6, <2>1, <2>5 DEF Types
<1>8. Received'
  <2>1. \A n : Bytes(n)' = Bytes(n)
    BY <1>1, Kept
  <2>2. ASSUME NEW i \in 1 .. Len(handled') PROVE handled'[i] = Bytes(i)
    <3>1. i \in 1 .. Len(handled) \/ i = current
      BY <1>3, <1>4, <1>6
    <3> QED BY <1>6, <3>1 DEF IInv, Received
  <2>3. Len(handled') <= asked' /\ ~Within'
    BY <1>1, <1>3, <1>4, <1>6 DEF Within
  <2> QED BY <1>1, <2>1, <2>2, <2>3 DEF Received, Within
<1>9. Flow'
  <2>1. Position = <<current, total>>
    BY <1>1 DEF Position, Within
  <2>2. Position' = <<current, Size(current)>>
    <3>1. ~Within' /\ Len(handled') # 0 /\ Len(handled)' = current
      BY <1>1, <1>4, <1>6 DEF Within
    <3>2. Size(Len(handled))' = Size(current)
      BY <1>1, <3>1 DEF Size
    <3> QED BY <3>1, <3>2 DEF Position
  <2>3. Position' = IF 0 = 0 THEN Position ELSE Stream[0]
    BY <1>4, <2>1, <2>2
  <2>4. Stream' = Stream /\ Len(Stream') = Len(Stream) - 0 /\ 0 \in 0 .. Len(Stream)
    BY <1>1, <1>3 DEF Stream
  <2>5. \A i \in 1 .. Len(Stream') : Stream'[i] = Stream[0 + i]
    BY <2>4
  <2>6. Flow /\ asked' = asked /\ pc' = pc
    BY <1>1 DEF IInv
  <2> QED BY <1>1, <1>3, <2>3, <2>4, <2>5, <2>6, FlowRead
<1>10. \A n \in 1 .. asked : Lacks(n)' => Lacks(n) /\ n # current
  BY <1>1, <1>3, <1>4, <1>6 DEF Lacks
<1>11. script[current].answer # None => Lacks(current)
  BY <1>3, <1>4 DEF Lacks
<1>12. Owed'
  <2>1. \A n \in 1 .. asked : Lacks(n) => n = asked /\ pc # "ready" /\ ~reset
    BY <1>1 DEF IInv, Owed
  <2>2. ASSUME NEW n \in 1 .. asked, Lacks(n)' PROVE n = asked /\ pc # "ready" /\ ~reset'
    <3>1. n = asked /\ pc # "ready" /\ ~reset
      BY <1>10, <2>1, <2>2
    <3>2. script[current].answer = None
      BY <1>4, <1>10, <1>11, <2>1, <2>2, <3>1
    <3> QED BY <1>1, <3>1, <3>2
  <2>3. reset' => pc = "gone"
    BY <1>1 DEF IInv, Owed
  <2> QED BY <1>1, <2>2, <2>3 DEF IInv, Owed, Waits, NodeSurvives
<1>13. Reading'
  <2>1. CASE pc = "gone"
    BY <1>1, <2>1 DEF Reading, Waits
  <2>2. CASE pc # "gone" /\ script[current].answer = None
    <3>1. down' = down /\ Rest' = Rest
      BY <1>1, <1>2, <1>3, <1>4, <2>2, SentIs, ConcatEmptySeq DEF Rest
    <3>2. Waits => Len(reply) + Len(Rest) = 0
      BY <1>3, <1>4 DEF IInv, Reading
    <3>3. ReplySize(asked)' = ReplySize(asked)
      BY <1>1 DEF ReplySize
    <3> QED BY <1>1, <3>1, <3>2, <3>3 DEF IInv, Reading, Waits
  <2>3. CASE pc # "gone" /\ script[current].answer # None
    <3>1. Waits /\ asked = current
      BY <1>1, <1>2, <1>4, <1>11, <2>3 DEF IInv, Owed, Waits, TypeOK
    <3>2. Len(reply) + Len(Rest) = 0 /\ got = 0
      BY <1>1, <1>3, <1>4, <3>1 DEF IInv, Reading
    <3>3. Len(reply) = 0 /\ Len(mail) = 0 /\ Len(down) = 0
      BY <1>2, <1>3, <3>2, Sequences
    <3>4. mail = <<>> /\ down = <<>>
      BY <1>3, <3>3
    <3>5. down' = SentOf(current) /\ Rest' = SentOf(current)
      BY <1>1, <1>5, <2>3, <3>4, ConcatEmptySeq DEF Rest
    <3>6. /\ Len(SentOf(current)) <= ReplySize(current)
          /\ \A i \in 1 .. Len(SentOf(current)) : SentOf(current)[i] = <<current, i>>
          /\ Len(SentOf(current)) \in Nat
      BY <1>2, <1>4, <1>5, <2>3, SentIs
    <3>7. /\ \A i \in 1 .. Len(reply') : reply'[i] = <<asked', i>>
          /\ \A i \in 1 .. Len(Rest') : Rest'[i] = <<asked', Len(reply') + i>>
          /\ Len(reply') + Len(Rest') <= ReplySize(current)
      BY <1>1, <3>1, <3>3, <3>5, <3>6
    <3>8. Len(handled') = asked' /\ got' = 0 /\ pc' # "ready"
      BY <1>1, <1>6, <2>3, <3>1, <3>2 DEF Waits
    <3>9. ReplySize(asked)' = ReplySize(current)
      BY <1>1, <3>1 DEF ReplySize
    <3>10. /\ pc' = "head" => Len(reply') = got' /\ got' < ReplyLen[script'[asked'].kind]
           /\ pc' = "body" => /\ Len(reply') = ReplyLen[script'[asked'].kind] + got'
                              /\ got' < script'[asked'].answer
      BY <1>1 DEF IInv, Reading
    <3> QED BY <3>7, <3>8, <3>9, <3>10 DEF Reading
  <2> QED BY <2>1, <2>2, <2>3
<1>14. Taken'
  BY <1>1, SameTaken DEF IInv
<1> QED BY <1>7, <1>8, <1>9, <1>12, <1>13, <1>14 DEF IInv

-----------------------------------------------------------------------------
(* How many more fingerprints a reply announces, once so much of it is read.*)
LEMMA AnswerRead ==
  ASSUME NEW n, NEW r, NEW l \in Nat, SizeAt <= l, \A i \in 1 .. l : r[i] = <<n, i>>
  PROVE  Announced(r) = script[n].answer
<1>1. SizeAt \in 1 .. l
  <2>1. SizeAt \in 1 .. FixedLen["segment"] /\ FixedLen["segment"] \in Nat
    BY ConstantAssumption DEF Kinds
  <2> QED BY <2>1
<1>2. r[SizeAt] = <<n, SizeAt>>
  BY <1>1
<1> QED BY <1>2 DEF Announced, AnswerIn

(* What the peer waits for is there, or there is no more and never will be; *)
(* so much of it as it has already read is missing then.                   *)
LEMMA PeerAwaits ==
  ASSUME IInv, Waits
  PROVE  /\ asked \in 1 .. Len(script) /\ script[asked].answer \in Nat
         /\ ReplySize(asked) = ReplyLen[script[asked].kind] + script[asked].answer
         /\ ReplyLen[script[asked].kind] \in Nat \ {0} /\ SizeAt <= ReplyLen[script[asked].kind]
         /\ Wanted = IF pc = "head" THEN ReplyLen[script[asked].kind] ELSE script[asked].answer
         /\ Wanted \in Nat /\ got < Wanted /\ got \in Nat
         /\ Len(reply) = got + (IF pc = "head" THEN 0 ELSE ReplyLen[script[asked].kind])
<1>1. /\ asked \in 1 .. Len(script) /\ script \in Scripts /\ script[asked].answer # None
      /\ got \in Nat /\ reply \in Seq(Byte)
  BY Sequences DEF IInv, Owed, Types, TypeOK
<1>2. /\ script[asked].answer \in Nat
      /\ ReplyLen[script[asked].kind] \in Nat \ {0} /\ SizeAt <= ReplyLen[script[asked].kind]
  BY <1>1, ReplySizes
<1>3. CASE pc = "head"
  BY <1>1, <1>2, <1>3 DEF IInv, Reading, Wanted, ReplySize
<1>4. CASE pc = "body"
  <2>1. /\ Len(reply) = ReplyLen[script[asked].kind] + got /\ got < script[asked].answer
        /\ \A i \in 1 .. Len(reply) : reply[i] = <<asked, i>>
    BY <1>4 DEF IInv, Reading, Waits
  <2>2. SizeAt <= Len(reply) /\ Len(reply) \in Nat
    <3>1. SizeAt \in Nat
      BY ConstantAssumption
    <3> QED BY <1>1, <1>2, <2>1, <3>1
  <2>3. Announced(reply) = script[asked].answer
    BY <2>1, <2>2, AnswerRead
  <2> QED BY <1>1, <1>2, <1>4, <2>1, <2>3 DEF Wanted, ReplySize
<1> QED BY <1>3, <1>4 DEF Waits

(* What the peer reads goes on from what it has read.                      *)
Behind(rest, read) == \A i \in 1 .. Len(rest) : rest[i] = <<asked, Len(read) + i>>

LEMMA MailRead ==
  ASSUME IInv, Waits, NEW part \in 0 .. Len(mail), mail' = Drop(mail, part), down' = down,
         NEW read, read = reply \o SubSeq(mail, 1, part)
  PROVE  /\ read \in Seq(Byte) /\ Len(read) = Len(reply) + part
         /\ \A i \in 1 .. Len(read) : read[i] = <<asked, i>>
         /\ mail' \in Seq(Byte) /\ Rest' \in Seq(Byte) /\ Len(Rest') = Len(Rest) - part
         /\ Behind(Rest', read)
<1>1. reply \in Seq(Byte) /\ mail \in Seq(Byte) /\ down \in Seq(Byte) /\ Rest \in Seq(Byte)
  BY Sequences DEF IInv, Types
<1>2. Len(reply) \in Nat /\ Len(mail) \in Nat /\ Len(Rest) \in Nat
  BY <1>1
<1>3. /\ \A i \in 1 .. Len(reply) : reply[i] = <<asked, i>>
      /\ \A i \in 1 .. Len(Rest) : Rest[i] = <<asked, Len(reply) + i>>
  BY DEF IInv, Reading
<1>4. /\ mail' \in Seq(Byte) /\ Rest' \in Seq(Byte) /\ Len(Rest') = Len(Rest) - part
      /\ \A i \in 1 .. Len(Rest') : Rest'[i] = Rest[part + i]
      /\ \A i \in 1 .. part : Rest[i] = mail[i]
      /\ part \in 0 .. Len(Rest)
  <2>1. PICK left : left = Drop(mail, part)
    OBVIOUS
  <2>2. /\ left \in Seq(Byte)
        /\ left \o down \in Seq(Byte) /\ Len(left \o down) = Len(mail \o down) - part
        /\ \A i \in 1 .. Len(left \o down) : (left \o down)[i] = (mail \o down)[part + i]
        /\ \A i \in 1 .. part : (mail \o down)[i] = mail[i]
        /\ part \in 0 .. Len(mail \o down)
    BY <1>1, <2>1, ReadFrom
  <2>3. mail' = left /\ Rest' = left \o down /\ Rest = mail \o down
    BY <2>1 DEF Rest
  <2> QED BY <2>2, <2>3
<1> DEFINE first == SubSeq(mail, 1, part)
<1>5. first \in Seq(Byte) /\ Len(first) = part /\ \A i \in 1 .. part : first[i] = mail[i]
  <2>1. first \in Prefixes(mail)
    BY DEF Prefixes
  <2>2. \A i \in 1 .. part : mail[i] \in Byte
    BY <1>1, <1>2
  <2>3. Len(first) = IF 1 <= part THEN part - 1 + 1 ELSE 0
    BY <2>2, SubSeqProperties
  <2>4. first \in Seq(Byte) /\ \A i \in 1 .. Len(first) : first[i] = mail[i]
    BY <1>1, <2>1, PrefixIs
  <2> QED BY <1>2, <2>3, <2>4
<1> HIDE DEF first
<1>6. /\ read \in Seq(Byte) /\ Len(read) = Len(reply) + part
      /\ \A i \in 1 .. Len(reply) + part :
           read[i] = IF i <= Len(reply) THEN reply[i] ELSE first[i - Len(reply)]
  <2>1. read = reply \o first
    BY DEF first
  <2> QED BY <1>1, <1>5, <2>1, ConcatProperties
<1>7. ASSUME NEW i \in 1 .. Len(read)
      PROVE  read[i] = <<asked, i>>
  <2>1. CASE i <= Len(reply)
    BY <1>2, <1>3, <1>6, <2>1
  <2>2. CASE ~(i <= Len(reply))
    <3>1. PICK j \in 1 .. part : j = i - Len(reply)
      <4>1. i - Len(reply) \in 1 .. part
        BY <1>2, <1>6, <2>2
      <4> QED BY <4>1
    <3>2. read[i] = first[j]
      BY <1>6, <2>2, <3>1
    <3>3. first[j] = Rest[j] /\ j \in 1 .. Len(Rest)
      BY <1>2, <1>4, <1>5
    <3>4. Rest[j] = <<asked, Len(reply) + j>> /\ Len(reply) + j = i
      BY <1>2, <1>3, <3>1, <3>3
    <3> QED BY <3>2, <3>3, <3>4
  <2> QED BY <2>1, <2>2
<1>8. ASSUME NEW i \in 1 .. Len(Rest')
      PROVE  Rest'[i] = <<asked, Len(read) + i>>
  <2>1. part + i \in 1 .. Len(Rest) /\ Len(reply) + (part + i) = Len(read) + i
    <3>1. part \in Nat /\ i \in Nat /\ i >= 1 /\ i <= Len(Rest) - part
      BY <1>2, <1>4
    <3> QED BY <1>2, <1>6, <3>1
  <2>2. Rest[part + i] = <<asked, Len(reply) + (part + i)>>
    BY <1>3, <2>1
  <2> QED BY <1>4, <2>1, <2>2
<1>9. Behind(Rest', read)
  BY <1>8 DEF Behind
<1> QED BY <1>4, <1>6, <1>7, <1>9

(* What one recv of the peer comes to: the head of a reply that goes on,    *)
(* the end of a reply, nothing more, or the last bytes of a dead node.     *)
HeadRead(read) ==
  /\ got = 0 /\ pc = "head" /\ script[asked].answer > 0
  /\ Len(read) = ReplyLen[script[asked].kind]
  /\ pc' = "body" /\ got' = 0 /\ reply' = read /\ UNCHANGED taken
ReplyRead(read) ==
  /\ Len(read) = ReplySize(asked)
  /\ got' = 0 /\ reply' = read /\ Take(read)
NothingRead ==
  /\ node # "up" /\ Len(Rest) = 0
  /\ UNCHANGED <<got, reply>> /\ Take(<<>>)
LastRead(read, part) ==
  /\ got = 0 /\ node # "up" /\ Len(Rest) = part /\ part \in 1 .. Wanted - 1
  /\ got' = part /\ reply' = read /\ UNCHANGED <<pc, taken>>

LEMMA ReceiveSteps ==
  ASSUME IInv, Receive
  PROVE  /\ UNCHANGED <<script, room, asked, up, inbox, down, nodeVars>> /\ Waits
         /\ \E part, read :
              /\ part \in 0 .. Len(mail) /\ read = reply \o SubSeq(mail, 1, part)
              /\ mail' = Drop(mail, part)
              /\ HeadRead(read) \/ ReplyRead(read) \/ NothingRead \/ LastRead(read, part)
<1>1. UNCHANGED <<script, room, asked, up, inbox, down, nodeVars>> /\ Waits
  BY DEF Receive, Waits
<1>2. PICK part, read :
        /\ part \in WaitedFor(Wanted) /\ read = reply \o SubSeq(mail, 1, part)
        /\ mail' = Drop(mail, part)
        /\ IF part = Wanted - got
             THEN /\ got' = 0
                  /\ reply' = read
                  /\ IF pc = "head" /\ Announced(read) > 0
                       THEN pc' = "body" /\ UNCHANGED taken
                       ELSE Take(read)
           ELSE IF part = 0
             THEN Take(<<>>) /\ UNCHANGED <<got, reply>>
           ELSE got' = got + part /\ reply' = read /\ UNCHANGED <<pc, taken>>
  BY DEF Receive
<1>3. /\ asked \in 1 .. Len(script) /\ script[asked].answer \in Nat
      /\ ReplySize(asked) = ReplyLen[script[asked].kind] + script[asked].answer
      /\ ReplyLen[script[asked].kind] \in Nat \ {0} /\ SizeAt <= ReplyLen[script[asked].kind]
      /\ Wanted = IF pc = "head" THEN ReplyLen[script[asked].kind] ELSE script[asked].answer
      /\ Wanted \in Nat /\ got < Wanted /\ got \in Nat
      /\ Len(reply) = got + (IF pc = "head" THEN 0 ELSE ReplyLen[script[asked].kind])
  BY <1>1, PeerAwaits
<1>4. /\ mail \in Seq(Byte) /\ down \in Seq(Byte) /\ Len(mail) \in Nat /\ Len(down) \in Nat
      /\ Len(Rest) = Len(mail) + Len(down)
  BY Sequences DEF IInv, Types
<1>5. \/ part = Wanted /\ Len(mail) >= Wanted
      \/ part = Len(mail) /\ part < Wanted /\ node # "up" /\ Len(down) = 0
  BY <1>2, <1>3, <1>4 DEF WaitedFor
<1>6. part \in 0 .. Len(mail) /\ part \in Nat
  BY <1>3, <1>4, <1>5
<1>7. got > 0 => node # "up" /\ Len(mail) = 0 /\ Len(down) = 0
  <2>1. got > 0 => node # "up" /\ Rest = <<>>
    BY <1>1 DEF IInv, Reading
  <2>2. Rest = <<>> => Len(Rest) = 0
    OBVIOUS
  <2>3. PICK m \in Nat, d \in Nat : m = Len(mail) /\ d = Len(down) /\ Len(Rest) = m + d
    BY <1>4
  <2>4. m + d = 0 => m = 0 /\ d = 0
    OBVIOUS
  <2> QED BY <2>1, <2>2, <2>3, <2>4
<1>8. HeadRead(read) \/ ReplyRead(read) \/ NothingRead \/ LastRead(read, part)
  <2>1. CASE part = Wanted - got
    <3>1. got = 0 /\ part = Wanted
      BY <1>3, <1>4, <1>5, <1>7, <2>1
    <3>2. Len(read) = Len(reply) + part /\ \A i \in 1 .. Len(read) : read[i] = <<asked, i>>
      BY <1>1, <1>2, <1>6, MailRead
    <3>3. CASE pc = "head"
      <4>1. Len(read) = ReplyLen[script[asked].kind] /\ Len(read) \in Nat
        BY <1>3, <3>1, <3>2, <3>3
      <4>2. Announced(read) = script[asked].answer
        BY <1>3, <3>2, <4>1, AnswerRead
      <4>3. CASE script[asked].answer > 0
        BY <1>2, <2>1, <3>1, <3>3, <4>1, <4>2, <4>3 DEF HeadRead
      <4>4. CASE ~(script[asked].answer > 0)
        <5>1. Len(read) = ReplySize(asked)
          BY <1>3, <4>1, <4>4
        <5> QED BY <1>2, <2>1, <4>2, <4>4, <5>1 DEF ReplyRead
      <4> QED BY <4>3, <4>4
    <3>4. CASE pc # "head"
      <4>1. Len(read) = ReplySize(asked)
        BY <1>3, <3>1, <3>2, <3>4
      <4> QED BY <1>2, <2>1, <3>4, <4>1 DEF ReplyRead
    <3> QED BY <3>3, <3>4
  <2>2. CASE part # Wanted - got
    <3>1. part = Len(mail) /\ part < Wanted /\ node # "up" /\ Len(down) = 0
      BY <1>3, <1>4, <1>5, <1>7, <2>2
    <3>2. CASE part = 0
      <4>1. Len(Rest) = 0
        BY <1>4, <3>1, <3>2
      <4> QED BY <1>2, <2>2, <3>1, <3>2, <4>1 DEF NothingRead
    <3>3. CASE part # 0
      <4>1. got = 0 /\ Len(Rest) = part /\ part \in 1 .. Wanted - 1 /\ got + part = part
        BY <1>3, <1>4, <1>6, <1>7, <3>1, <3>3
      <4> QED BY <1>2, <2>2, <3>1, <3>3, <4>1 DEF LastRead
    <3> QED BY <3>2, <3>3
  <2> QED BY <2>1, <2>2
<1> QED BY <1>1, <1>2, <1>6, <1>8

LEMMA TakeSteps ==
  ASSUME IInv, Waits, asked' = asked, script' = script, NEW bytes \in Seq(Byte), Take(bytes)
  PROVE  /\ taken' \in Seq([of : Nat, bytes : Seq(Byte)]) /\ pc' = "ready" /\ Taken'
         /\ Len(taken') = Len(taken) + 1 /\ Len(taken) \in Nat
         /\ \A i \in 1 .. Len(taken) : taken'[i] = taken[i]
         /\ taken'[Len(taken) + 1] = [of |-> asked, bytes |-> bytes]
<1>1. asked \in 1 .. Len(script) /\ asked \in Nat
  BY PeerAwaits DEF IInv, Types, TypeOK
<1> DEFINE new == [of |-> asked, bytes |-> bytes]
<1>2. new \in [of : Nat, bytes : Seq(Byte)] /\ new.of = asked
  BY <1>1
<1>3. taken' = Append(taken, new) /\ pc' = "ready"
  BY DEF Take
<1>4. taken \in Seq([of : Nat, bytes : Seq(Byte)]) /\ Len(taken) \in Nat
  BY DEF IInv, Types
<1> HIDE DEF new
<1>5. /\ taken' \in Seq([of : Nat, bytes : Seq(Byte)])
      /\ Len(taken') = Len(taken) + 1 /\ \A i \in 1 .. Len(taken) : taken'[i] = taken[i]
      /\ taken'[Len(taken) + 1] = new
  BY <1>2, <1>3, <1>4, AppendProperties
<1>6. ~Waits'
  BY <1>3 DEF Waits
<1>7. ASSUME NEW i \in 1 .. Len(taken') PROVE taken'[i].of \in 1 .. asked
  <2>1. i \in 1 .. Len(taken) \/ i = Len(taken) + 1
    BY <1>4, <1>5
  <2>2. CASE i \in 1 .. Len(taken)
    <3>1. taken[i].of \in 1 .. asked
      BY <2>2 DEF IInv, Taken
    <3> QED BY <1>5, <2>2, <3>1
  <2>3. CASE i = Len(taken) + 1
    <3>1. taken'[i] = new
      BY <1>5, <2>3
    <3> QED BY <1>1, <1>2, <3>1
  <2> QED BY <2>1, <2>2, <2>3
<1>8. Len(taken) + 1 \in 1 .. Len(taken') /\ taken'[Len(taken) + 1].of = asked
  BY <1>2, <1>4, <1>5
<1>9. Taken'
  BY <1>6, <1>7, <1>8 DEF Taken
<1> QED BY <1>3, <1>4, <1>5, <1>9 DEF new

LEMMA PeerReads ==
  ASSUME IInv, Receive
  PROVE  IInv'
<1>1. UNCHANGED <<script, room, asked, up, inbox, down, nodeVars>> /\ Waits
  BY ReceiveSteps
<1>2. PICK part, read :
        /\ part \in 0 .. Len(mail) /\ read = reply \o SubSeq(mail, 1, part)
        /\ mail' = Drop(mail, part)
        /\ HeadRead(read) \/ ReplyRead(read) \/ NothingRead \/ LastRead(read, part)
  BY ReceiveSteps
<1> USE DEF nodeVars
<1>3. /\ asked \in 1 .. Len(script) /\ script[asked].answer \in Nat
      /\ ReplySize(asked) = ReplyLen[script[asked].kind] + script[asked].answer
      /\ ReplyLen[script[asked].kind] \in Nat \ {0}
      /\ Wanted = IF pc = "head" THEN ReplyLen[script[asked].kind] ELSE script[asked].answer
      /\ Wanted \in Nat /\ got < Wanted /\ got \in Nat
      /\ Len(reply) = got + (IF pc = "head" THEN 0 ELSE ReplyLen[script[asked].kind])
  BY <1>1, PeerAwaits
<1>4. /\ read \in Seq(Byte) /\ Len(read) = Len(reply) + part
      /\ \A i \in 1 .. Len(read) : read[i] = <<asked, i>>
      /\ mail' \in Seq(Byte) /\ Rest' \in Seq(Byte) /\ Len(Rest') = Len(Rest) - part
      /\ \A i \in 1 .. Len(Rest') : Rest'[i] = <<asked, Len(read) + i>>
  <2>1. down' = down
    BY <1>1
  <2>2. part \in 0 .. Len(mail) /\ mail' = Drop(mail, part) /\ read = reply \o SubSeq(mail, 1, part)
    BY <1>2
  <2>3. /\ read \in Seq(Byte) /\ Len(read) = Len(reply) + part
        /\ \A i \in 1 .. Len(read) : read[i] = <<asked, i>>
    BY <1>1, <2>1, <2>2, MailRead
  <2>4. mail' \in Seq(Byte) /\ Rest' \in Seq(Byte) /\ Len(Rest') = Len(Rest) - part
    BY <1>1, <2>1, <2>2, MailRead
  <2>5. Behind(Rest', read)
    BY <1>1, <2>1, <2>2, MailRead
  <2>6. \A i \in 1 .. Len(Rest') : Rest'[i] = <<asked, Len(read) + i>>
    BY <2>5 DEF Behind
  <2> QED BY <2>3, <2>4, <2>6
<1>5. /\ TypeOK /\ Types /\ reply \in Seq(Byte) /\ mail \in Seq(Byte) /\ down \in Seq(Byte)
      /\ up \in Seq(Byte) /\ inbox \in Seq(Byte) /\ Rest \in Seq(Byte)
      /\ taken \in Seq([of : Nat, bytes : Seq(Byte)]) /\ asked \in 0 .. Len(script)
      /\ Len(handled) \in Nat /\ <<>> \in Seq(Byte) /\ Len(Rest) \in Nat /\ asked \in Nat
  BY Sequences DEF IInv, Types, TypeOK
<1>6. /\ Len(reply) + Len(Rest) <= ReplySize(asked)
      /\ Len(reply) + Len(Rest) > 0 => Len(handled) = asked
  BY <1>1 DEF IInv, Reading
<1>7. /\ Len(read) + Len(Rest') = Len(reply) + Len(Rest) /\ part \in Nat
      /\ Len(read) \in Nat /\ Len(reply) \in Nat /\ Len(Rest') \in Nat
  <2>1. Len(mail) \in Nat /\ Len(Rest') \in Nat /\ Len(read) \in Nat /\ Len(reply) \in Nat
    BY <1>4, <1>5
  <2>2. part \in Nat
    BY <1>2, <2>1
  <2>3. Len(Rest) \in Nat /\ Len(read) = Len(reply) + part /\ Len(Rest') = Len(Rest) - part
    BY <1>4, <1>5
  <2>4. Len(read) + Len(Rest') = Len(reply) + Len(Rest)
    BY <2>1, <2>2, <2>3
  <2> QED BY <2>1, <2>2, <2>3, <2>4
<1>8. HeadRead(read) \/ LastRead(read, part) => Taken' /\ taken' = taken /\ pc' \in {"head", "body"}
  BY <1>1 DEF IInv, Taken, Waits, HeadRead, LastRead
<1>9. ReplyRead(read) \/ NothingRead =>
        Taken' /\ taken' \in Seq([of : Nat, bytes : Seq(Byte)]) /\ pc' = "ready"
  BY <1>1, <1>4, <1>5, TakeSteps DEF ReplyRead, NothingRead
<1>10. Taken' /\ taken' \in Seq([of : Nat, bytes : Seq(Byte)]) /\ pc' \in {"ready", "head", "body"}
  BY <1>2, <1>5, <1>8, <1>9
<1>11. Types'
  <2>1. got' \in Nat
    BY <1>2, <1>3, <1>7 DEF HeadRead, ReplyRead, NothingRead, LastRead
  <2>2. reply' \in Seq(Byte)
    BY <1>2, <1>4, <1>5 DEF HeadRead, ReplyRead, NothingRead, LastRead
  <2> QED BY <1>1, <1>4, <1>5, <1>10, <2>1, <2>2, SameTypes DEF TypeOK
<1>12. Received'
  BY <1>1, <1>5, SameReceived DEF IInv, receiving
<1>13. Flow'
  <2>1. Position' = Position /\ Stream' = Stream
    BY <1>1, SamePosition DEF Stream
  <2> QED BY <1>1, <2>1, SameFlow DEF IInv, Waits
<1>14. Owed'
  <2>1. reset' = FALSE /\ (Waits' => asked' > 0 /\ script'[asked'].answer # None)
    BY <1>1, <1>5 DEF IInv, Owed, Waits, TypeOK
  <2>2. Len(handled) = asked \/ node # "up" \/ pc' # "ready"
    <3>1. CASE ReplyRead(read)
      <4>1. Len(read) > 0
        BY <1>3, <3>1 DEF ReplyRead
      <4>2. Len(reply) + Len(Rest) > 0
        BY <1>7, <4>1
      <4> QED BY <1>6, <4>2
    <3> QED BY <1>2, <1>8, <3>1 DEF NothingRead
  <2>3. ASSUME node = "up", NEW n \in 1 .. asked, Lacks(n)
        PROVE  n = asked /\ pc' # "ready"
    <3>1. n = asked
      BY <2>3 DEF IInv, Owed
    <3>2. Len(handled) # asked
      BY <1>5, <2>3, <3>1 DEF Lacks
    <3> QED BY <2>2, <2>3, <3>1, <3>2
  <2>4. \A n \in 1 .. asked : Lacks(n)' = Lacks(n)
    BY <1>1 DEF Lacks
  <2>5. NodeSurvives'
    BY <1>1 DEF IInv, Owed, NodeSurvives
  <2> QED BY <1>1, <2>1, <2>3, <2>4, <2>5 DEF Owed
<1>15. Reading'
  <2>0. ReplySize(asked)' = ReplySize(asked)
    BY <1>1 DEF ReplySize
  <2>1. ASSUME HeadRead(read) \/ LastRead(read, part) PROVE Reading'
    <3>1. reply' = read /\ pc' # "ready"
      BY <1>8, <2>1 DEF HeadRead, LastRead
    <3>2. /\ \A i \in 1 .. Len(reply') : reply'[i] = <<asked', i>>
          /\ \A i \in 1 .. Len(Rest') : Rest'[i] = <<asked', Len(reply') + i>>
      BY <1>1, <1>4, <3>1
    <3>3. /\ Len(reply') + Len(Rest') <= ReplySize(asked)
          /\ Len(reply') + Len(Rest') > 0 => Len(handled') = asked'
      BY <1>1, <1>6, <1>7, <3>1
    <3>4. got' > 0 => node' # "up" /\ Rest' = <<>>
      <4>1. CASE HeadRead(read)
        BY <4>1 DEF HeadRead
      <4>2. CASE LastRead(read, part)
        <5>1. Len(Rest') = 0
          BY <1>4, <1>7, <4>2 DEF LastRead
        <5> QED BY <1>1, <1>4, <4>2, <5>1 DEF LastRead
      <4> QED BY <2>1, <4>1, <4>2
    <3>5. /\ pc' = "head" => Len(reply') = got' /\ got' < ReplyLen[script[asked].kind]
          /\ pc' = "body" => /\ Len(reply') = ReplyLen[script[asked].kind] + got'
                             /\ got' < script[asked].answer
      <4>1. CASE HeadRead(read)
        BY <1>3, <3>1, <4>1 DEF HeadRead
      <4>2. CASE LastRead(read, part)
        <5>1. got = 0 /\ got' = part /\ pc' = pc /\ got' < Wanted
          BY <1>3, <4>2 DEF LastRead
        <5>2. Len(reply') = Len(reply) + got'
          BY <1>4, <3>1, <5>1
        <5> QED BY <1>3, <1>7, <5>1, <5>2
      <4> QED BY <2>1, <4>1, <4>2
    <3> QED BY <1>1, <2>0, <3>1, <3>2, <3>3, <3>4, <3>5 DEF Reading
  <2>2. ASSUME ReplyRead(read) \/ NothingRead PROVE Reading'
    <3>1. pc' = "ready"
      BY <1>9, <2>2
    <3>2. Len(Rest') = 0
      <4>1. CASE ReplyRead(read)
        BY <1>6, <1>7, <4>1 DEF ReplyRead
      <4>2. CASE NothingRead
        BY <1>4, <1>7, <4>2 DEF NothingRead
      <4> QED BY <2>2, <4>1, <4>2
    <3>3. Rest' = <<>>
      BY <1>4, <3>2
    <3> QED BY <3>1, <3>3 DEF Reading, Waits
  <2> QED BY <1>2, <2>1, <2>2
<1> QED BY <1>10, <1>11, <1>12, <1>13, <1>14, <1>15 DEF IInv

-----------------------------------------------------------------------------
LEMMA Step == IInv /\ [Next]_vars => IInv'
<1> SUFFICES ASSUME IInv, [Next]_vars PROVE IInv'
  OBVIOUS
<1>1. CASE Handler
  BY <1>1, HandlerMoves, HandlerLeaves, TypeArrives, RestArrives, NodeHandles DEF Handler
<1>2. CASE UNCHANGED vars
  <2>1. UNCHANGED <<script, room, peerVars, netVars, nodeVars>>
    BY <1>2 DEF vars
  <2> USE DEF peerVars, netVars, nodeVars
  <2>2. UNCHANGED <<Position, Stream, Rest>>
    BY <2>1, SamePosition DEF Stream, Rest
  <2>3. Types'
    <3>1. Byte' = Byte
      BY <2>1, Kept
    <3>2. TypeOK'
      BY <2>1, <3>1 DEF IInv, Types, TypeOK
    <3> QED BY <2>1, <3>1, <3>2 DEF IInv, Types
  <2>4. Received'
    <3>1. asked \in Nat /\ asked <= asked /\ Len(handled) \in Nat
      BY Sequences DEF IInv, Types
    <3> QED BY <2>1, <3>1, SameReceived DEF IInv, receiving
  <2> QED BY <2>1, <2>2, <2>3, <2>4, SameFlow, SameOwed, SameReading, SameTaken DEF IInv
<1>3. CASE Over
  BY <1>2, <1>3 DEF Over
<1> QED
  BY <1>1, <1>2, <1>3, PeerSends, PeerReads, PeerCloses, PeerDies, BytesArriveUp,
     BytesArriveDown, NodeDies DEF Next

(* The invariant holds for any messages, sizes and room in the kernel.     *)
THEOREM Invariance == Spec => []IInv
<1>1. Init => IInv
  BY Initially
<1>2. IInv /\ [Next]_vars => IInv'
  BY Step
<1> QED BY <1>1, <1>2, PTL DEF Spec

(* What is counted while a message arrives keeps its type and stays in      *)
(* recv_buf, whatever the bytes come in (server/communicate.c:53-62).      *)
THEOREM CountsInBounds == Spec => []Inv
<1>1. IInv => Inv
  <2> SUFFICES ASSUME IInv PROVE Inv
    OBVIOUS
  <2>1. TypeOK
    BY DEF IInv, Types
  <2>2. ASSUME handler \in {"fixed", "body"}
        PROVE  total + size <= BufSize
    <3>1. current \in 1 .. Len(script) /\ script \in Scripts
      <4>1. /\ Len(handled) \in Nat /\ asked \in 0 .. Len(script) /\ Len(script) \in Nat
            /\ script \in Scripts
        BY Sequences DEF IInv, Types
      <4>2. current <= asked
        BY <2>2 DEF IInv, Received, Within
      <4> QED BY <4>1, <4>2 DEF current
    <3>2. /\ Size(current) <= BufSize /\ FixedLen[script[current].kind] <= Size(current)
          /\ Size(current) \in Nat /\ FixedLen[script[current].kind] \in Nat
      BY <3>1, MessageSizes
    <3>3. total + size = FixedLen[script[current].kind] \/ total + size = Size(current)
      BY <2>2 DEF IInv, Received
    <3> QED BY <3>2, <3>3, ConstantAssumption
  <2>3. pc \in {"head", "body"} => got = 0 \/ node # "up"
    <3>1. got \in Nat
      BY <2>1 DEF TypeOK
    <3> QED BY <3>1 DEF IInv, Reading, Waits
  <2> QED BY <2>1, <2>2, <2>3 DEF Inv, InBounds
<1> QED BY <1>1, Invariance, PTL

(* The node sends at most once to a peer that has gone, and so is not killed *)
(* by SIGPIPE, however its peers die (server/communicate.c:112).           *)
THEOREM NodeOutlivesPeers == Spec => []NodeSurvives
<1>1. IInv => NodeSurvives
  BY DEF IInv, Owed
<1> QED BY <1>1, Invariance, PTL

-----------------------------------------------------------------------------
(* The exchange of whole messages that the bytes amount to.                *)
Numbers == [i \in DOMAIN handled |-> Which(handled[i])]
Words == [i \in DOMAIN taken |-> [of |-> taken[i].of, is |-> WhatIs(taken[i])]]

LEMMA BytesDiffer ==
  ASSUME script \in Scripts, NEW n \in 1 .. Len(script), NEW m \in 1 .. Len(script),
         Bytes(m) = Bytes(n)
  PROVE  m = n
<1>1. Size(n) \in Nat \ {0} /\ Size(m) \in Nat \ {0}
  BY MessageSizes
<1>2. 1 \in 1 .. Size(n) /\ 1 \in 1 .. Size(m)
  BY <1>1
<1>3. Bytes(n)[1] = <<n, 1>> /\ Bytes(m)[1] = <<m, 1>>
  BY <1>2, MessageBytes
<1> QED BY <1>3

LEMMA NumbersInOrder ==
  IInv => /\ Numbers = [i \in 1 .. Len(handled) |-> i]
          /\ Numbers \in Seq(Nat) /\ Len(Numbers) = Len(handled)
          /\ Len(handled) \in Nat
<1> SUFFICES ASSUME IInv
             PROVE  /\ Numbers = [i \in 1 .. Len(handled) |-> i]
                    /\ Numbers \in Seq(Nat) /\ Len(Numbers) = Len(handled)
                    /\ Len(handled) \in Nat
  OBVIOUS
<1>1. /\ handled \in Seq(Seq(Byte)) /\ Len(handled) \in Nat /\ Len(handled) <= asked
      /\ asked \in 0 .. Len(script) /\ script \in Scripts
      /\ script \in Seq(Messages) /\ Len(script) \in Nat
  BY Sequences DEF IInv, Types, Received
<1>2. ASSUME NEW i \in 1 .. Len(handled)
      PROVE  Which(handled[i]) = i
  <2>1. i \in 1 .. Len(script) /\ DOMAIN script = 1 .. Len(script)
    BY <1>1
  <2>2. handled[i] = Bytes(i)
    BY DEF IInv, Received
  <2>3. PICK m : m = CHOOSE n \in DOMAIN script : Bytes(n) = handled[i]
    OBVIOUS
  <2>4. m \in DOMAIN script /\ Bytes(m) = Bytes(i)
    BY <2>1, <2>2, <2>3
  <2>5. m = i
    BY <1>1, <2>1, <2>4, BytesDiffer
  <2> QED BY <2>1, <2>2, <2>3, <2>5 DEF Which
<1>3. DOMAIN handled = 1 .. Len(handled)
  BY <1>1
<1>4. Numbers = [i \in 1 .. Len(handled) |-> i]
  BY <1>2, <1>3 DEF Numbers
<1> QED BY <1>1, <1>4

LEMMA WordsFollow ==
  ASSUME script' = script, NEW bytes, NEW word, taken \in Seq([of : Nat, bytes : Seq(Byte)]),
         taken' = Append(taken, [of |-> asked, bytes |-> bytes]),
         WhatIs([of |-> asked, bytes |-> bytes]) = word
  PROVE  Words' = Append(Words, [of |-> asked, is |-> word])
<1>1. \A t : WhatIs(t)' = WhatIs(t)
  BY DEF WhatIs, ReplyBytes
<1>2. PICK new : new = [of |-> asked, bytes |-> bytes]
  OBVIOUS
<1>3. Len(taken) \in Nat /\ DOMAIN taken = 1 .. Len(taken)
  OBVIOUS
<1>4. /\ DOMAIN taken' = 1 .. Len(taken) + 1 /\ taken'[Len(taken) + 1] = new
      /\ \A i \in 1 .. Len(taken) : taken'[i] = taken[i]
  BY <1>2, <1>3
<1> DEFINE W(t) == [of |-> t.of, is |-> WhatIs(t)]
<1>5. Words = [i \in 1 .. Len(taken) |-> W(taken[i])]
  BY <1>3 DEF Words
<1>6. Words' = [i \in 1 .. Len(taken) + 1 |-> W(taken'[i])]
  BY <1>1, <1>4 DEF Words
<1>7. W(new) = [of |-> asked, is |-> word]
  BY <1>2
<1> HIDE DEF W
<1>8. Words' = [i \in 1 .. Len(taken) + 1 |->
                  IF i = Len(taken) + 1 THEN W(new) ELSE W(taken[i])]
  <2>1. ASSUME NEW i \in 1 .. Len(taken) + 1
        PROVE  W(taken'[i]) = IF i = Len(taken) + 1 THEN W(new) ELSE W(taken[i])
    <3>1. i # Len(taken) + 1 => i \in 1 .. Len(taken)
      BY <1>3
    <3> QED BY <1>4, <3>1
  <2> QED BY <1>6, <2>1
<1>9. Append(Words, W(new)) = [i \in 1 .. Len(taken) + 1 |->
                                 IF i = Len(taken) + 1 THEN W(new) ELSE W(taken[i])]
  <2> DEFINE T == {W(taken[i]) : i \in 1 .. Len(taken)} \cup {W(new)}
  <2>1. Words \in Seq(T) /\ Len(Words) = Len(taken) /\ W(new) \in T
    BY <1>3, <1>5
  <2> HIDE DEF T
  <2>2. PICK longer : longer = Append(Words, W(new))
    OBVIOUS
  <2>3. /\ longer \in Seq(T) /\ Len(longer) = Len(taken) + 1 /\ longer[Len(taken) + 1] = W(new)
        /\ \A i \in 1 .. Len(taken) : longer[i] = Words[i]
    BY <2>1, <2>2, AppendProperties
  <2>4. ASSUME NEW i \in 1 .. Len(taken) + 1
        PROVE  longer[i] = IF i = Len(taken) + 1 THEN W(new) ELSE W(taken[i])
    <3>1. CASE i = Len(taken) + 1
      BY <2>3, <3>1
    <3>2. CASE i # Len(taken) + 1
      <4>1. i \in 1 .. Len(taken)
        BY <1>3, <3>2
      <4> QED BY <1>5, <2>3, <3>2, <4>1
    <3> QED BY <3>1, <3>2
  <2>5. longer = [i \in 1 .. Len(taken) + 1 |-> longer[i]]
    BY <2>3
  <2> QED BY <2>2, <2>4, <2>5
<1> QED BY <1>7, <1>8, <1>9

LEMMA Stutters ==
  ASSUME IInv, UNCHANGED <<script, asked, taken, handled, node>>, Numbers' = Numbers
  PROVE  UNCHANGED Exchange!vars
<1>1. \A t : WhatIs(t)' = WhatIs(t)
  BY DEF WhatIs, ReplyBytes
<1>2. Words' = Words
  BY <1>1 DEF Words
<1>3. (node # "up")' = (node # "up")
  OBVIOUS
<1> QED BY <1>2, <1>3 DEF Exchange!vars, Numbers, Words

(* While the peer reads, the abstract client waits; when it is ready, not.  *)
LEMMA WaitsAlike ==
  ASSUME IInv
  PROVE  /\ Waits => Exchange!Waiting
         /\ pc = "ready" => ~Exchange!Waiting
<1>1. taken \in Seq([of : Nat, bytes : Seq(Byte)])
  BY DEF IInv, Types
<1>2. DOMAIN taken = 1 .. Len(taken) /\ DOMAIN Words = DOMAIN taken
  BY <1>1 DEF Words
<1>3. \A i \in DOMAIN Words : Words[i].of = taken[i].of
  BY <1>2 DEF Words
<1>4. Exchange!Waiting <=> /\ asked > 0 /\ script[asked].answer # None
                           /\ \A i \in DOMAIN Words : Words[i].of # asked
  BY DEF Exchange!Waiting, Words
<1>5. ASSUME Waits PROVE Exchange!Waiting
  BY <1>2, <1>3, <1>4, <1>5 DEF IInv, Owed, Taken
<1>6. ASSUME pc = "ready" PROVE ~Exchange!Waiting
  BY <1>2, <1>3, <1>4, <1>6 DEF IInv, Taken
<1> QED BY <1>5, <1>6

(* What the peer takes is the reply to its message, or nothing.            *)
LEMMA TakesAlike ==
  ASSUME IInv, Receive
  PROVE  [Exchange!Next]_(Exchange!vars)
<1>1. UNCHANGED <<script, room, asked, up, inbox, down, nodeVars>> /\ Waits
  BY ReceiveSteps
<1>2. PICK part, read :
        /\ part \in 0 .. Len(mail) /\ read = reply \o SubSeq(mail, 1, part)
        /\ mail' = Drop(mail, part)
        /\ HeadRead(read) \/ ReplyRead(read) \/ NothingRead \/ LastRead(read, part)
  BY ReceiveSteps
<1>3. UNCHANGED <<script, asked, handled, node>>
  BY <1>1 DEF nodeVars
<1>4. Numbers' = Numbers
  <2>1. \A b : Which(b)' = Which(b)
    BY <1>3 DEF Which, Bytes
  <2> QED BY <1>3, <2>1 DEF Numbers
<1>5. /\ read \in Seq(Byte) /\ Len(read) = Len(reply) + part
      /\ \A i \in 1 .. Len(read) : read[i] = <<asked, i>>
  BY <1>1, <1>2, MailRead
<1>6. /\ taken \in Seq([of : Nat, bytes : Seq(Byte)]) /\ reply \in Seq(Byte) /\ mail \in Seq(Byte)
      /\ Len(mail) \in Nat /\ Len(Rest) = Len(mail) + Len(down) /\ Len(down) \in Nat
      /\ Len(reply) \in Nat /\ script \in Scripts
  BY Sequences DEF IInv, Types
<1>7. /\ asked \in 1 .. Len(script) /\ script[asked].answer # None /\ ReplySize(asked) \in Nat \ {0}
  <2>1. asked \in 1 .. Len(script) /\ script[asked].answer # None
    BY <1>1, PeerAwaits DEF IInv, Owed
  <2> QED BY <1>6, <2>1, ReplySizes
<1>8. Exchange!Waiting
  BY <1>1, WaitsAlike
<1>9. (node # "up")' = (node # "up")
  BY <1>3
<1>10. CASE HeadRead(read) \/ LastRead(read, part)
  <2>1. UNCHANGED taken
    BY <1>10 DEF HeadRead, LastRead
  <2>2. UNCHANGED Exchange!vars
    BY <1>3, <1>4, <2>1, Stutters
  <2> QED BY <2>2
<1>11. CASE ReplyRead(read)
  <2>1. Len(read) = ReplySize(asked) /\ taken' = Append(taken, [of |-> asked, bytes |-> read])
    BY <1>11 DEF ReplyRead, Take
  <2>2. read = ReplyBytes(asked)
    <3>1. /\ ReplyBytes(asked) \in Seq(Byte) /\ Len(ReplyBytes(asked)) = ReplySize(asked)
          /\ \A i \in 1 .. ReplySize(asked) : ReplyBytes(asked)[i] = <<asked, i>>
      BY <1>6, <1>7, ReplyIsBytes
    <3>2. ReplyBytes(asked) = [i \in 1 .. ReplySize(asked) |-> ReplyBytes(asked)[i]]
      BY <3>1
    <3>3. read = [i \in 1 .. ReplySize(asked) |-> read[i]]
      BY <1>5, <2>1
    <3>4. \A i \in 1 .. ReplySize(asked) : ReplyBytes(asked)[i] = read[i]
      BY <1>5, <2>1, <3>1
    <3> QED BY <3>2, <3>3, <3>4
  <2>3. read # <<>>
    BY <1>7, <2>1
  <2>4. WhatIs([of |-> asked, bytes |-> read]) = "reply"
    BY <2>2, <2>3 DEF WhatIs
  <2>5. Words' = Append(Words, [of |-> asked, is |-> "reply"])
    BY <1>3, <1>6, <2>1, <2>4, WordsFollow
  <2>6. Len(handled) = asked
    <3>1. Len(reply) + Len(Rest) > 0
      <4>1. part \in Nat /\ part <= Len(mail) /\ Len(reply) + part > 0
        BY <1>2, <1>5, <1>6, <1>7, <2>1
      <4> QED BY <1>6, <4>1
    <3> QED BY <1>1, <3>1 DEF IInv, Reading
  <2>7. Len(Numbers) = asked
    BY <2>6, NumbersInOrder
  <2>8. Exchange!Take
    BY <1>3, <1>4, <1>8, <1>9, <2>5, <2>7 DEF Exchange!Take, Numbers, Words
  <2> QED BY <2>8 DEF Exchange!Next
<1>12. CASE NothingRead
  <2>1. node # "up" /\ taken' = Append(taken, [of |-> asked, bytes |-> <<>>])
    BY <1>12 DEF NothingRead, Take
  <2>2. WhatIs([of |-> asked, bytes |-> <<>>]) = "nothing"
    <3>1. Len(ReplyBytes(asked)) # 0
      BY <1>6, <1>7, ReplyIsBytes
    <3>2. ReplyBytes(asked) # <<>>
      BY <3>1
    <3>3. PICK t : t = [of |-> asked, bytes |-> <<>>]
      OBVIOUS
    <3>4. t.bytes = <<>> /\ ReplyBytes(t.of) # <<>>
      BY <3>2, <3>3
    <3>5. WhatIs(t) = "nothing"
      BY <3>4 DEF WhatIs
    <3> QED BY <3>3, <3>5
  <2>3. Words' = Append(Words, [of |-> asked, is |-> "nothing"])
    BY <1>3, <1>6, <2>1, <2>2, WordsFollow
  <2>4. Exchange!GoOnWithout
    BY <1>3, <1>4, <1>8, <1>9, <2>1, <2>3 DEF Exchange!GoOnWithout, Numbers, Words
  <2> QED BY <2>4 DEF Exchange!Next
<1> QED BY <1>2, <1>10, <1>11, <1>12

LEMMA HandlesAlike ==
  ASSUME IInv, Handle, Numbers' = [i \in 1 .. Len(handled') |-> i]
  PROVE  Exchange!Handle
<1>1. /\ UNCHANGED <<script, asked, taken, node>> /\ node = "up"
      /\ handled' = Append(handled, Bytes(current)) /\ handler = "handle"
  BY HandleSteps DEF peerVars
<1>2. Words' = Words
  <2>1. \A t : WhatIs(t)' = WhatIs(t)
    BY <1>1 DEF WhatIs, ReplyBytes
  <2> QED BY <1>1, <2>1 DEF Words
<1>3. /\ current \in 1 .. asked /\ current \in 1 .. Len(script)
      /\ handled \in Seq(Seq(Byte)) /\ Len(handled) \in Nat /\ asked \in Nat /\ script \in Scripts
      /\ Numbers = [i \in 1 .. Len(handled) |-> i] /\ Len(Numbers) = Len(handled)
  BY <1>1, WholeMessage, NumbersInOrder, Sequences DEF IInv, Types
<1>4. Len(handled') = Len(handled) + 1
  BY <1>1, <1>3, MessageBytes, AppendProperties
<1>5. Len(Numbers) < asked
  BY <1>3 DEF current
<1>6. Numbers' = Append(Numbers, Len(Numbers) + 1)
  BY <1>3, <1>4
<1>7. (node # "up")' = (node # "up")
  BY <1>1
<1> QED
  BY <1>1, <1>2, <1>5, <1>6, <1>7 DEF Exchange!Handle, Numbers, Words

LEMMA StepsAlike ==
  ASSUME IInv, [Next]_vars, Numbers' = [i \in 1 .. Len(handled') |-> i]
  PROVE  [Exchange!Next]_(Exchange!vars)
<1>1. ASSUME UNCHANGED <<script, handled>> PROVE Numbers' = Numbers
  BY <1>1, NumbersInOrder
<1>2. ASSUME UNCHANGED <<script, taken>> PROVE Words' = Words
  <2>1. \A t : WhatIs(t)' = WhatIs(t)
    BY <1>2 DEF WhatIs, ReplyBytes
  <2> QED BY <1>2, <2>1 DEF Words
<1>3. CASE Send
  <2>1. /\ UNCHANGED <<script, taken, handled, node>> /\ pc = "ready"
        /\ asked < Len(script) /\ asked' = asked + 1
    BY <1>3 DEF Send, nodeVars
  <2>2. UNCHANGED <<Numbers, Words>> /\ (node # "up")' = (node # "up")
    BY <1>1, <1>2, <2>1
  <2>3. ~Exchange!Waiting
    BY <2>1, WaitsAlike
  <2>4. Exchange!Ask
    BY <2>1, <2>2, <2>3 DEF Exchange!Ask, Numbers, Words
  <2> QED BY <2>4 DEF Exchange!Next
<1>4. CASE Receive
  BY <1>4, TakesAlike
<1>5. CASE Handle
  BY <1>5, HandlesAlike DEF Exchange!Next
<1>6. CASE Die
  <2>1. /\ UNCHANGED <<script, asked, taken, handled>>
        /\ node = "up" /\ node' = "dead"
    BY <1>6 DEF Die, peerVars
  <2>2. UNCHANGED <<Numbers, Words>> /\ (node # "up") = FALSE /\ (node # "up")' = TRUE
    BY <1>1, <1>2, <2>1
  <2>3. Exchange!Break
    BY <2>1, <2>2 DEF Exchange!Break, Numbers, Words
  <2> QED BY <2>3 DEF Exchange!Next
<1>7. ASSUME \/ Close \/ Abort \/ ArriveUp \/ ArriveDown \/ Over \/ UNCHANGED vars
             \/ Wake \/ Park \/ Leave \/ ReceiveType \/ ReceiveRest
      PROVE  UNCHANGED Exchange!vars
  <2>1. UNCHANGED <<script, asked, taken, handled, node>>
    BY <1>7 DEF Close, Abort, ArriveUp, ArriveDown, Over, vars, Wake, Park, Leave, ReceiveType,
                ReceiveRest, peerVars, nodeVars
  <2> QED BY <1>1, <2>1, Stutters
<1> QED BY <1>3, <1>4, <1>5, <1>6, <1>7 DEF Next, Handler

(* However the bytes are divided, whoever dies and however little of a      *)
(* reply is sent: the node handles the messages that were sent, in order,  *)
(* and the peer takes for a reply the reply to its message, or goes on     *)
(* without one when the node is gone (communicate.c on both sides).        *)
THEOREM FramingImplementsExchange == Spec => ImplementsExchange
<1>1. Init => Exchange!Init
  <2> SUFFICES ASSUME Init PROVE Exchange!Init
    OBVIOUS
  <2>1. asked = 0 /\ handled = <<>> /\ taken = <<>> /\ node = "up"
    BY DEF Init
  <2>2. Numbers = <<>> /\ Words = <<>>
    BY <2>1 DEF Numbers, Words
  <2> QED BY <2>1, <2>2 DEF Exchange!Init, Numbers, Words
<1>2. IInv => Numbers = [i \in 1 .. Len(handled) |-> i]
  BY NumbersInOrder
<1>3. IInv /\ [Next]_vars /\ (Numbers = [i \in 1 .. Len(handled) |-> i])'
      => [Exchange!Next]_(Exchange!vars)
  BY StepsAlike
<1> QED BY <1>1, <1>2, <1>3, Invariance, PTL DEF Spec, ImplementsExchange, Exchange!Spec
=============================================================================

-------------------------- MODULE HttpServerProofs --------------------------
(***************************************************************************)
(* The HTTP server, for every image, set of requests and size of buffers.  *)
(***************************************************************************)
EXTENDS HttpServer, TLAPS, SequenceTheorems, FiniteSetTheorems

Names == {None} \cup UNION {{r.url : r \in Requests[c]} : c \in Clients}
Urls == Files \cup {None}
Unit(c) == [req : Requests[c], at : Nat]
Sent == [code : Nat, len : Nat, seen : Seq(Nat)] \cup [url : Urls, at : Nat]
FileRecord ==
  [url : Urls, kind : Kinds, len : Nat, pos : Nat, seen : Seq(Nat)]
ClientRecord ==
  [file : FileRecord, left : Nat, replied : BOOLEAN, name : Names, post : BOOLEAN,
   state : {0, 1}, buf : Seq(Nat)]
Memory == [client : Int, handle : Int, data : Int, post : Int]
Working == [k : ClientRecord, tx : Seq(Sent), mem : Memory, ok : BOOLEAN]

(* What a client's record uses of the memory. *)
HandleUse(k) == IF k.file = NoFile THEN 0 ELSE 1
DataUse(k) == IF k.file.kind = "script" THEN 1 ELSE 0
PostUse(k) == IF k.post THEN 1 ELSE 0
FileKind(k) == k.file = NoFile <=> k.file.kind = "none"

(* e comes from w by steps that account for every block. *)
Accounts(e, w) ==
  /\ e.mem.client = w.mem.client
  /\ e.mem.handle - HandleUse(e.k) = w.mem.handle - HandleUse(w.k)
  /\ e.mem.data - DataUse(e.k) = w.mem.data - DataUse(w.k)
  /\ e.mem.post - PostUse(e.k) = w.mem.post - PostUse(w.k)

(* What sending does not touch. *)
SameFile(f, g) == f.url = g.url /\ f.kind = g.kind /\ f.len = g.len /\ f.seen = g.seen
SamePost(j, k) == j.name = k.name /\ j.post = k.post /\ j.state = k.state /\ j.buf = k.buf

LEMMA NoFileTyped == NoFile \in FileRecord /\ NoFile.kind = "none" /\ NoFile.url = None
  BY EmptySeq DEF NoFile, FileRecord, Kinds, Urls

LEMMA FcloseDoes ==
  ASSUME NEW m0 \in Memory, NEW f0, NEW n0, n0 = Fclose(m0, f0)
  PROVE  /\ n0 \in Memory /\ n0.client = m0.client /\ n0.handle = m0.handle - 1
         /\ n0.data = (IF f0.kind = "script" THEN m0.data - 1 ELSE m0.data) /\ n0.post = m0.post
  <1>1. PICK x \in Int : x = m0.handle - 1
    BY DEF Memory
  <1>2. PICK y \in Int : y = IF f0.kind = "script" THEN m0.data - 1 ELSE m0.data
    BY DEF Memory
  <1>3. n0 = [m0 EXCEPT !.handle = x, !.data = y]
    BY <1>1, <1>2 DEF Fclose, Memory
  <1>. QED BY <1>1, <1>2, <1>3 DEF Memory

LEMMA FileCloseDoes ==
  ASSUME NEW w \in Working, FileKind(w.k), NEW e, e = FileClose(w)
  PROVE  /\ e \in Working /\ e.k.file = NoFile /\ Accounts(e, w)
         /\ e.tx = w.tx /\ e.ok = w.ok
         /\ e.k.left = w.k.left /\ e.k.replied = w.k.replied /\ e.k.name = w.k.name
         /\ e.k.post = w.k.post /\ e.k.state = w.k.state /\ e.k.buf = w.k.buf
         /\ e.mem.post = w.mem.post
  <1>1. CASE w.k.file = NoFile
    BY <1>1 DEF FileClose, Accounts, Working, Memory
  <1>2. CASE w.k.file # NoFile
    <2>1. w.k \in ClientRecord /\ w.mem \in Memory /\ w.k.file \in FileRecord
      BY DEF Working, ClientRecord
    <2>2. PICK mNew \in Memory : mNew = Fclose(w.mem, w.k.file)
      BY <2>1, FcloseDoes
    <2>3. PICK kNew \in ClientRecord : kNew = [w.k EXCEPT !.file = NoFile]
      BY <2>1, NoFileTyped DEF ClientRecord
    <2>4. e = [w EXCEPT !.k = kNew, !.mem = mNew]
      BY <1>2, <2>2, <2>3 DEF FileClose, Working
    <2>5. e \in Working /\ e.k = kNew /\ e.mem = mNew /\ e.tx = w.tx /\ e.ok = w.ok
      BY <2>4 DEF Working
    <2>6. /\ kNew.file = NoFile /\ kNew.left = w.k.left /\ kNew.replied = w.k.replied
          /\ kNew.name = w.k.name /\ kNew.post = w.k.post /\ kNew.state = w.k.state
          /\ kNew.buf = w.k.buf
      BY <2>3, <2>1 DEF ClientRecord
    <2>7. /\ mNew.client = w.mem.client /\ mNew.handle = w.mem.handle - 1 /\ mNew.post = w.mem.post
          /\ mNew.data = IF w.k.file.kind = "script" THEN w.mem.data - 1 ELSE w.mem.data
      <3>1. PICK mOld \in Memory, fOld \in FileRecord : mOld = w.mem /\ fOld = w.k.file
        BY <2>1
      <3>2. mNew = Fclose(mOld, fOld)
        BY <2>2, <3>1
      <3>3. /\ mNew.client = mOld.client /\ mNew.handle = mOld.handle - 1 /\ mNew.post = mOld.post
            /\ mNew.data = IF fOld.kind = "script" THEN mOld.data - 1 ELSE mOld.data
        BY ONLY <3>2, FcloseDoes
      <3>. QED BY <3>1, <3>3
    <2>8. Accounts(e, w)
      BY <1>2, <2>1, <2>5, <2>6, <2>7, NoFileTyped
         DEF Accounts, HandleUse, DataUse, PostUse, Memory
    <2>. QED BY <2>5, <2>6, <2>7, <2>8
  <1>. QED BY <1>1, <1>2

(* prvPostClose's part for the buffer, when there is one. *)
LEMMA PostDoneDoes ==
  ASSUME NEW w \in Working, w.k.post, NEW e, e = PostDone(w)
  PROVE  /\ e \in Working /\ Accounts(e, w) /\ ~e.k.post /\ e.k.state = 0
         /\ e.tx = w.tx /\ e.ok = w.ok /\ e.k.file = w.k.file /\ e.k.left = w.k.left
         /\ e.k.replied = w.k.replied /\ e.k.name = w.k.name
  <1>1. w.k \in ClientRecord /\ w.mem \in Memory
    BY DEF Working
  <1>2. PICK kNew \in ClientRecord :
          kNew = [w.k EXCEPT !.post = FALSE, !.buf = <<>>, !.state = 0]
    BY <1>1, EmptySeq DEF ClientRecord
  <1>3. PICK mNew \in Memory : mNew = [w.mem EXCEPT !.post = @ - 1]
    <2>1. PICK x \in Int : x = w.mem.post - 1
      BY <1>1 DEF Memory
    <2>2. [w.mem EXCEPT !.post = x] \in Memory
      BY <1>1 DEF Memory
    <2>. QED BY <1>1, <2>1, <2>2 DEF Memory
  <1>4. e = [w EXCEPT !.k = kNew, !.mem = mNew]
    BY <1>2, <1>3 DEF PostDone, Working, ClientRecord, Memory
  <1>5. e \in Working /\ e.k = kNew /\ e.mem = mNew /\ e.tx = w.tx /\ e.ok = w.ok
    BY <1>4 DEF Working
  <1>6. /\ ~kNew.post /\ kNew.state = 0 /\ kNew.file = w.k.file /\ kNew.left = w.k.left
        /\ kNew.replied = w.k.replied /\ kNew.name = w.k.name
    BY <1>1, <1>2 DEF ClientRecord
  <1>7. /\ mNew.client = w.mem.client /\ mNew.handle = w.mem.handle
        /\ mNew.data = w.mem.data /\ mNew.post = w.mem.post - 1
    BY <1>1, <1>3 DEF Memory
  <1>8. Accounts(e, w)
    BY <1>1, <1>5, <1>6, <1>7
       DEF Accounts, HandleUse, DataUse, PostUse, Working, ClientRecord, Memory
  <1>. QED BY <1>5, <1>6, <1>8

LEMMA PostCloseDoes ==
  ASSUME NEW w \in Working, FileKind(w.k), w.k.state = 1 => w.k.post, NEW e, e = PostClose(w)
  PROVE  /\ e \in Working /\ Accounts(e, w) /\ ~e.k.post /\ e.k.state = 0
         /\ e.k.file = NoFile /\ e.tx = w.tx /\ e.k.left = w.k.left
  <1>1. PICK v : v = IF w.k.post THEN PostDone(w) ELSE w
    OBVIOUS
  <1>2. /\ v \in Working /\ Accounts(v, w) /\ ~v.k.post /\ v.k.state = 0
        /\ v.k.file = w.k.file /\ v.tx = w.tx /\ v.k.left = w.k.left
    <2>1. CASE w.k.post
      BY <1>1, <2>1, PostDoneDoes DEF Working, ClientRecord, Memory
    <2>2. CASE ~w.k.post
      BY <1>1, <2>2 DEF Accounts, Working, ClientRecord, Memory
    <2>. QED BY <2>1, <2>2
  <1>3. FileKind(v.k)
    BY <1>2 DEF FileKind, Working, ClientRecord
  <1>4. e = FileClose(v)
    BY <1>1 DEF PostClose
  <1>. QED BY <1>2, <1>3, <1>4, FileCloseDoes DEF Accounts, Working, ClientRecord, Memory

Replied(e, w) ==
  /\ e.mem = w.mem /\ e.k.replied /\ SamePost(e.k, w.k)
  /\ e.k.file = w.k.file /\ e.k.left = w.k.left

HeaderSent(e, w, code, len, seen) ==
  IF e.ok THEN Space(w) > 0 /\ e.tx = Append(w.tx, Header(code, len, seen)) ELSE e.tx = w.tx

(* prvSendReply: one unit, if there is room and a connection. *)
LEMMA SendReplyDoes ==
  ASSUME NEW w \in Working, NEW up \in BOOLEAN, NEW code \in Nat, NEW len \in Nat,
         NEW seen \in Seq(Nat), Len(w.tx) <= TxSize,
         NEW e, e = SendReply(w, up, code, len, seen)
  PROVE  /\ e \in Working /\ Len(e.tx) <= TxSize /\ Replied(e, w)
         /\ HeaderSent(e, w, code, len, seen)
  <1>1. w.k \in ClientRecord /\ w.tx \in Seq(Sent)
    BY DEF Working
  <1>2. Header(code, len, seen) \in Sent
    BY DEF Header, Sent
  <1>3. PICK tNew \in Seq(Sent) :
          tNew = IF up /\ Space(w) > 0 THEN Append(w.tx, Header(code, len, seen)) ELSE w.tx
    BY <1>1, <1>2, AppendProperties
  <1>4. PICK kNew \in ClientRecord : kNew = [w.k EXCEPT !.replied = TRUE]
    BY <1>1 DEF ClientRecord
  <1>5. PICK okNew \in BOOLEAN : okNew <=> up /\ Space(w) > 0
    OBVIOUS
  <1>6. e = [w EXCEPT !.k = kNew, !.ok = okNew, !.tx = tNew]
    BY <1>3, <1>4, <1>5 DEF SendReply, Working, ClientRecord
  <1>7. e \in Working /\ e.k = kNew /\ e.mem = w.mem /\ e.tx = tNew /\ e.ok = okNew
    BY <1>6 DEF Working
  <1>8. kNew.replied /\ kNew.file = w.k.file /\ kNew.left = w.k.left /\ SamePost(kNew, w.k)
    BY <1>1, <1>4 DEF ClientRecord, SamePost
  <1>9. Len(tNew) <= TxSize
    BY <1>1, <1>2, <1>3, AppendProperties, ServerAssumption DEF Space
  <1>10. Replied(e, w)
    BY <1>7, <1>8 DEF Replied
  <1>11. HeaderSent(e, w, code, len, seen)
    BY <1>3, <1>5, <1>7 DEF HeaderSent
  <1>. QED BY <1>7, <1>9, <1>10, <1>11

LEMMA CodeIs ==
  ASSUME NEW kind, NEW seen
  PROVE  ResponseCode(kind, seen) \in Nat
  BY DEF ResponseCode

LEMMA RefusalIs ==
  ASSUME NEW code \in Nat
  PROVE  /\ Refusal(code) \in Seq(Sent) /\ Len(Refusal(code)) = 3
         /\ Refusal(code)[1] = Header(code, 1, <<>>) /\ Refusal(code)[2] = Data(None, 1)
         /\ Refusal(code)[3] = EmptyLine /\ EmptyLine \in Sent
  <1>1. Header(code, 1, <<>>) \in Sent /\ Data(None, 1) \in Sent /\ EmptyLine \in Sent
    BY EmptySeq DEF Header, Data, EmptyLine, Sent, Urls
  <1>2. PICK x \in Sent, y \in Sent, z \in Sent :
          x = Header(code, 1, <<>>) /\ y = Data(None, 1) /\ z = EmptyLine
    BY <1>1
  <1>3. Refusal(code) = <<x, y, z>>
    BY <1>2 DEF Refusal
  <1>4. <<x, y, z>> \in Seq(Sent) /\ Len(<<x, y, z>>) = 3
    OBVIOUS
  <1>5. <<x, y, z>>[1] = x /\ <<x, y, z>>[2] = y /\ <<x, y, z>>[3] = z
    OBVIOUS
  <1>. QED BY <1>1, <1>2, <1>3, <1>4, <1>5

PartSent(e, w, up, code) ==
  /\ e.tx = IF up THEN w.tx \o SubSeq(Refusal(code), 1, Min2(3, Space(w))) ELSE w.tx
  /\ e.ok <=> up /\ Space(w) > 0

(* prvSendPostReply: as much of the refusal as there is room for. *)
LEMMA SendPostReplyDoes ==
  ASSUME NEW w \in Working, NEW up \in BOOLEAN, NEW code \in Nat, Len(w.tx) <= TxSize,
         NEW e, e = SendPostReply(w, up, code)
  PROVE  /\ e \in Working /\ Len(e.tx) <= TxSize /\ Replied(e, w) /\ PartSent(e, w, up, code)
  <1>1. w.k \in ClientRecord /\ w.tx \in Seq(Sent)
    BY DEF Working
  <1>2. PICK old \in Seq(Sent) : old = w.tx
    BY <1>1
  <1>3. PICK room \in Nat : room = Space(w) /\ room = TxSize - Len(old)
    BY <1>2, ServerAssumption DEF Space
  <1>4. PICK n \in 0 .. 3 : n = Min2(3, Space(w)) /\ n <= room
    BY <1>3 DEF Min2
  <1>5. PICK part \in Seq(Sent) : part = SubSeq(Refusal(code), 1, n) /\ Len(part) = n
    <2>1. PICK all \in Seq(Sent) : all = Refusal(code) /\ Len(all) = 3
      BY RefusalIs
    <2>2. SubSeq(all, 1, n) \in Seq(Sent) /\ Len(SubSeq(all, 1, n)) = n
      <3>1. PICK i \in Int, m \in Int : i = 1 /\ m = n
        OBVIOUS
      <3>2. ASSUME NEW j \in i .. m
            PROVE  all[j] \in Sent
        <4>1. j \in 1 .. 3
          BY <3>1
        <4>2. j \in 1 .. Len(all)
          BY <2>1, <4>1
        <4>. QED BY <4>2, ElementOfSeq
      <3>3. SubSeq(all, i, m) \in Seq(Sent) /\ Len(SubSeq(all, i, m)) = IF i <= m THEN m - i + 1 ELSE 0
        BY ONLY <3>2, SubSeqProperties, i \in Int, m \in Int
      <3>4. (IF i <= m THEN m - i + 1 ELSE 0) = n
        BY <3>1
      <3>. QED BY <3>1, <3>3, <3>4
    <2>. QED BY <2>1, <2>2
  <1>6. old \o part \in Seq(Sent) /\ Len(old \o part) = Len(old) + n
    BY <1>5, ConcatProperties
  <1>7. PICK tNew \in Seq(Sent) : tNew = IF up THEN old \o part ELSE old
    BY <1>6
  <1>8. PICK kNew \in ClientRecord : kNew = [w.k EXCEPT !.replied = TRUE]
    BY <1>1 DEF ClientRecord
  <1>9. PICK okNew \in BOOLEAN : okNew <=> up /\ Space(w) > 0
    OBVIOUS
  <1>10. e = [w EXCEPT !.k = kNew, !.ok = okNew, !.tx = tNew]
    BY <1>2, <1>4, <1>5, <1>7, <1>8, <1>9 DEF SendPostReply, Working, ClientRecord
  <1>11. e \in Working /\ e.k = kNew /\ e.mem = w.mem /\ e.tx = tNew /\ e.ok = okNew
    BY <1>10 DEF Working
  <1>12. kNew.replied /\ kNew.file = w.k.file /\ kNew.left = w.k.left /\ SamePost(kNew, w.k)
    BY <1>1, <1>8 DEF ClientRecord, SamePost
  <1>13. Len(tNew) <= TxSize
    <2>1. PICK l \in Nat : l = Len(old) /\ l <= TxSize
      BY <1>2
    <2>2. Len(old \o part) <= TxSize
      BY <1>3, <1>4, <1>6, <2>1, ServerAssumption
    <2>. QED BY <1>7, <2>1, <2>2
  <1>14. Replied(e, w)
    BY <1>11, <1>12 DEF Replied
  <1>15. PartSent(e, w, up, code)
    BY <1>2, <1>4, <1>5, <1>7, <1>9, <1>11 DEF PartSent
  <1>. QED BY <1>11, <1>13, <1>14, <1>15

LEMMA FreadIs ==
  ASSUME NEW f \in FileRecord, NEW n \in Nat
  PROVE  Fread(f, n) \in Seq(Sent) /\ Len(Fread(f, n)) = n
  <1>1. \A i \in 1 .. n :
          (IF f.kind = "script" THEN f.pos + i ELSE 1 + ((i - 1) % FileBuf)) \in Nat
    BY ServerAssumption DEF FileRecord
  <1>2. \A i \in 1 .. n :
          Data(f.url, IF f.kind = "script" THEN f.pos + i ELSE 1 + ((i - 1) % FileBuf)) \in Sent
    BY <1>1 DEF Data, Sent, FileRecord
  <1>3. Fread(f, n) \in [1 .. n -> Sent]
    BY <1>2 DEF Fread
  <1>. QED BY <1>3

LEMMA PositionIs ==
  ASSUME NEW f \in FileRecord, NEW n \in Nat
  PROVE  /\ Position(f, n) \in Nat
         /\ Position(f, n) = IF f.kind = "script" THEN f.pos + n ELSE f.pos
  BY DEF Position, FileRecord

(* The loop of prvSendFile: n units, all there are or all there is room for. *)
Bounded(n, w) ==
  /\ n \in Nat /\ n <= w.k.left /\ n <= Space(w)
  /\ n = w.k.left \/ n = Space(w)
Keeps(e, w) ==
  /\ e \in Working /\ e.mem = w.mem /\ Len(e.tx) <= TxSize /\ e.k.replied = w.k.replied
  /\ SamePost(e.k, w.k) /\ SameFile(e.k.file, w.k.file)
Sends(e, w, n) ==
  /\ e.ok <=> w.ok
  /\ e.k.left = w.k.left - n
  /\ e.tx = w.tx \o Fread(w.k.file, n)
  /\ e.k.file.pos = Position(w.k.file, n)

LEMMA BoundedIs ==
  ASSUME NEW w \in Working, Len(w.tx) <= TxSize, NEW n, n = Min2(w.k.left, Space(w))
  PROVE  Bounded(n, w)
  <1>1. w.tx \in Seq(Sent) /\ w.k.left \in Nat
    BY DEF Working, ClientRecord
  <1>2. Space(w) \in Nat
    BY <1>1, ServerAssumption DEF Space
  <1>. QED BY <1>1, <1>2 DEF Min2, Bounded

LEMMA SendPiecesDoes ==
  ASSUME NEW w \in Working, NEW up \in BOOLEAN, Len(w.tx) <= TxSize,
         NEW e, e = SendPieces(w, up), NEW n, n = Min2(w.k.left, Space(w))
  PROVE  /\ Bounded(n, w) /\ Keeps(e, w)
         /\ n = 0 => e = w
         /\ n > 0 /\ ~up => ~e.ok
         /\ n > 0 /\ up => Sends(e, w, n)
  <1>1. w.k \in ClientRecord /\ w.tx \in Seq(Sent) /\ w.k.file \in FileRecord /\ w.k.left \in Nat
    BY DEF Working, ClientRecord
  <1>2. Bounded(n, w) /\ n \in Nat
    BY BoundedIs DEF Bounded
  <1>3. CASE n = 0
    <2>1. e = w
      BY <1>3 DEF SendPieces
    <2>. QED BY <1>2, <1>3, <2>1 DEF Keeps, SamePost, SameFile
  <1>4. CASE n > 0 /\ ~up
    <2>1. PICK lNew \in Nat : lNew = w.k.left - Min2(n, FileBuf)
      BY <1>1, <1>2, ServerAssumption DEF Min2, Bounded
    <2>2. PICK kNew \in ClientRecord : kNew = [w.k EXCEPT !.left = lNew]
      BY <1>1 DEF ClientRecord
    <2>3. e = [w EXCEPT !.k.left = @ - Min2(n, FileBuf), !.ok = FALSE]
      BY <1>4 DEF SendPieces
    <2>4. e = [w EXCEPT !.k = kNew, !.ok = FALSE]
      BY <2>1, <2>2, <2>3 DEF Working, ClientRecord
    <2>5. e \in Working /\ e.k = kNew /\ ~e.ok /\ e.tx = w.tx /\ e.mem = w.mem
      BY <2>4 DEF Working
    <2>6. kNew.replied = w.k.replied /\ kNew.file = w.k.file /\ SamePost(kNew, w.k)
      BY <1>1, <2>2 DEF ClientRecord, SamePost
    <2>7. SameFile(kNew.file, w.k.file)
      BY <2>6 DEF SameFile
    <2>8. Keeps(e, w)
      BY <2>5, <2>6, <2>7 DEF Keeps
    <2>. QED BY <1>2, <1>4, <2>5, <2>8
  <1>5. CASE n > 0 /\ up
    <2>1. PICK lNew \in Nat : lNew = w.k.left - n
      BY <1>1, <1>2 DEF Bounded
    <2>2. PICK pNew \in Nat : pNew = Position(w.k.file, n)
      BY <1>1, <1>2, PositionIs
    <2>3. PICK fNew \in FileRecord : fNew = [w.k.file EXCEPT !.pos = pNew]
      BY <1>1 DEF FileRecord
    <2>4. PICK kNew \in ClientRecord : kNew = [w.k EXCEPT !.left = lNew, !.file = fNew]
      BY <1>1 DEF ClientRecord
    <2>5. PICK tNew \in Seq(Sent) :
            tNew = w.tx \o Fread(w.k.file, n) /\ Len(tNew) = Len(w.tx) + n
      <3>1. PICK read \in Seq(Sent) : read = Fread(w.k.file, n) /\ Len(read) = n
        BY <1>1, <1>2, FreadIs
      <3>2. PICK old \in Seq(Sent) : old = w.tx
        BY <1>1
      <3>3. old \o read \in Seq(Sent) /\ Len(old \o read) = Len(old) + n
        BY <3>1, ConcatProperties
      <3>. QED BY <3>1, <3>2, <3>3
    <2>6. e = [w EXCEPT !.tx = @ \o Fread(w.k.file, n), !.k.left = @ - n,
                        !.k.file.pos = Position(w.k.file, n)]
      BY <1>5 DEF SendPieces
    <2>7. e = [w EXCEPT !.tx = tNew, !.k = kNew]
      BY <2>1, <2>2, <2>3, <2>4, <2>5, <2>6 DEF Working, ClientRecord, FileRecord
    <2>8. e \in Working /\ e.k = kNew /\ e.ok = w.ok /\ e.tx = tNew /\ e.mem = w.mem
      BY <2>7 DEF Working
    <2>9. /\ kNew.replied = w.k.replied /\ kNew.file = fNew /\ kNew.left = lNew
          /\ SamePost(kNew, w.k)
      BY <1>1, <2>4 DEF ClientRecord, SamePost
    <2>10. SameFile(fNew, w.k.file) /\ fNew.pos = pNew
      BY <1>1, <2>3 DEF FileRecord, SameFile
    <2>11. Len(tNew) <= TxSize
      <3>1. PICK l \in Nat : l = Len(w.tx)
        BY <1>1
      <3>2. n <= TxSize - l /\ Len(tNew) = l + n /\ TxSize \in Nat
        BY <1>2, <2>5, <3>1, ServerAssumption DEF Space, Bounded
      <3>. QED BY ONLY <1>2, <3>2
    <2>12. Keeps(e, w)
      BY <2>8, <2>9, <2>10, <2>11 DEF Keeps
    <2>13. Sends(e, w, n)
      BY <2>1, <2>2, <2>5, <2>8, <2>9, <2>10 DEF Sends
    <2>14. n # 0 /\ ~(n > 0 /\ ~up)
      BY ONLY <1>2, <1>5
    <2>. QED BY ONLY <1>2, <2>12, <2>13, <2>14
  <1>. QED BY <1>2, <1>3, <1>4, <1>5

(* prvSendFile with a file open. *)
HasFile(k) == k.file # NoFile /\ k.file.kind # "none"

LEMMA SendFileDoes ==
  ASSUME NEW w \in Working, NEW up \in BOOLEAN, Len(w.tx) <= TxSize, HasFile(w.k),
         NEW e, e = SendFile(w, up)
  PROVE  /\ e \in Working /\ Len(e.tx) <= TxSize /\ Accounts(e, w) /\ SamePost(e.k, w.k)
         /\ FileKind(e.k) /\ e.k.replied /\ (e.k.file # NoFile => e.k.left > 0)
  <1>1. PICK r : r = IF w.k.replied THEN w
                     ELSE SendReply(w, up, ResponseCode(w.k.file.kind, w.k.file.seen),
                                    w.k.left, w.k.file.seen)
    OBVIOUS
  <1>2. PICK s : s = IF r.ok THEN SendPieces(r, up) ELSE r
    OBVIOUS
  <1>3. e = IF s.k.left = 0 THEN FileClose(s) ELSE s
    BY <1>1, <1>2 DEF SendFile
  <1>4. /\ r \in Working /\ r.mem = w.mem /\ Len(r.tx) <= TxSize /\ r.k.replied
        /\ SamePost(r.k, w.k) /\ r.k.file = w.k.file
    <2>1. CASE w.k.replied
      BY <1>1, <2>1 DEF SamePost
    <2>2. CASE ~w.k.replied
      <3>1. PICK code \in Nat, len \in Nat, seen \in Seq(Nat) :
              /\ code = ResponseCode(w.k.file.kind, w.k.file.seen)
              /\ len = w.k.left /\ seen = w.k.file.seen
        BY CodeIs DEF Working, ClientRecord, FileRecord
      <3>2. r = SendReply(w, up, code, len, seen)
        BY <1>1, <2>2, <3>1
      <3>3. r \in Working /\ Len(r.tx) <= TxSize /\ Replied(r, w)
        BY ONLY <3>2, SendReplyDoes, w \in Working, Len(w.tx) <= TxSize
      <3>. QED BY <3>3 DEF Replied
    <2>. QED BY <2>1, <2>2
  <1>5. /\ s \in Working /\ s.mem = w.mem /\ Len(s.tx) <= TxSize /\ s.k.replied
        /\ SamePost(s.k, w.k) /\ SameFile(s.k.file, w.k.file)
    <2>1. CASE r.ok
      <3>1. s = SendPieces(r, up)
        BY <1>2, <2>1
      <3>2. Keeps(s, r)
        BY ONLY <1>4, <3>1, SendPiecesDoes
      <3>. QED BY <1>4, <3>2 DEF Keeps, SamePost, SameFile
    <2>2. CASE ~r.ok
      BY <1>2, <1>4, <2>2 DEF SameFile
    <2>. QED BY <2>1, <2>2
  <1>6. HasFile(s.k) /\ FileKind(s.k)
    BY <1>5, NoFileTyped DEF HasFile, FileKind, SameFile
  <1>7. s.k \in ClientRecord /\ w.k \in ClientRecord /\ w.mem \in Memory
    BY <1>5 DEF Working
  <1>8. Accounts(s, w)
    <2>1. HandleUse(s.k) = HandleUse(w.k) /\ DataUse(s.k) = DataUse(w.k)
      BY <1>5, <1>6 DEF HandleUse, DataUse, HasFile, SameFile
    <2>2. PostUse(s.k) = PostUse(w.k)
      BY <1>5 DEF PostUse, SamePost
    <2>. QED BY <1>5, <2>1, <2>2 DEF Accounts
  <1>9. CASE s.k.left = 0
    <2>1. e = FileClose(s)
      BY <1>3, <1>9
    <2>2. /\ e \in Working /\ e.k.file = NoFile /\ Accounts(e, s) /\ e.tx = s.tx
          /\ e.k.replied = s.k.replied /\ SamePost(e.k, s.k)
      BY ONLY <1>5, <1>6, <2>1, FileCloseDoes DEF SamePost
    <2>3. Accounts(e, w)
      BY <1>8, <2>2 DEF Accounts
    <2>4. SamePost(e.k, w.k)
      BY <1>5, <2>2 DEF SamePost
    <2>5. FileKind(e.k)
      BY <2>2, NoFileTyped DEF FileKind
    <2>. QED BY <1>5, <2>2, <2>3, <2>4, <2>5
  <1>10. CASE s.k.left # 0
    <2>1. e = s
      BY <1>3, <1>10
    <2>2. s.k.left > 0
      BY <1>7, <1>10 DEF ClientRecord
    <2>. QED BY <1>5, <1>6, <1>8, <2>1, <2>2
  <1>. QED BY <1>9, <1>10

LEMMA LookupIs ==
  ASSUME NEW url, NEW method, Found(url, method)
  PROVE  /\ Lookup(url, method) \in Rom
         /\ Lookup(url, method).url = url /\ Lookup(url, method).method = method
  BY DEF Found, Lookup

LEMMA HandleIs ==
  ASSUME NEW x \in Rom, NEW seen \in Seq(Nat), NEW f, f = Handle(x, seen)
  PROVE  /\ f \in FileRecord /\ f.url = x.url /\ f.kind = x.kind /\ f.len = x.len
         /\ f.pos = 0 /\ f.seen = seen /\ f # NoFile /\ f.kind # "none"
  BY DataAssumption DEF Handle, FileRecord, Files, Kinds, NoFile, Urls

(* yaromfs_fopen gives no file, or the handle of one and the blocks it needs. *)
Opens(o) ==
  /\ o.file \in FileRecord
  /\ o.file = NoFile <=> o.file.kind = "none"
  /\ o.handle = IF o.file = NoFile THEN 0 ELSE 1
  /\ o.data = IF o.file.kind = "script" THEN 1 ELSE 0

LEMMA FopenDoes ==
  ASSUME NEW url, NEW fwd, NEW method, NEW seen \in Seq(Nat),
         fwd # None /\ Found(fwd, method) => Lookup(fwd, method).kind # "script",
         NEW o, o = Fopen(url, fwd, method, seen)
  PROVE  Opens(o)
  <1>1. PICK x : x = Lookup(url, method)
    OBVIOUS
  <1>2. CASE ~Found(url, method)
    <2>1. o = [file |-> NoFile, handle |-> 0, data |-> 0]
      BY <1>2 DEF Fopen
    <2>. QED BY <2>1, NoFileTyped DEF Opens
  <1>3. CASE Found(url, method) /\ (x.kind # "script" \/ fwd = None)
    <2>1. PICK f : f = Handle(x, seen)
      OBVIOUS
    <2>2. f \in FileRecord /\ f.kind = x.kind /\ f # NoFile /\ f.kind # "none"
      BY ONLY <1>1, <1>3, <2>1, LookupIs, HandleIs
    <2>3. o = [file |-> f, handle |-> 1, data |-> IF x.kind = "script" THEN 1 ELSE 0]
      BY <1>1, <1>3, <2>1 DEF Fopen
    <2>. QED BY <2>2, <2>3 DEF Opens
  <1>4. CASE Found(url, method) /\ ~(x.kind # "script" \/ fwd = None) /\ Found(fwd, method)
    <2>1. PICK y : y = Lookup(fwd, method)
      OBVIOUS
    <2>2. PICK empty \in Seq(Nat) : empty = <<>>
      BY EmptySeq
    <2>3. PICK f : f = Handle(y, empty)
      OBVIOUS
    <2>4. f \in FileRecord /\ f.kind = y.kind /\ f # NoFile /\ f.kind # "none"
      BY ONLY <1>4, <2>1, <2>3, LookupIs, HandleIs
    <2>5. o = [file |-> f, handle |-> 1, data |-> 0]
      BY <1>1, <1>4, <2>1, <2>2, <2>3 DEF Fopen
    <2>6. f.kind # "script"
      BY <1>4, <2>1, <2>4
    <2>. QED BY <2>4, <2>5, <2>6 DEF Opens
  <1>5. CASE Found(url, method) /\ ~(x.kind # "script" \/ fwd = None) /\ ~Found(fwd, method)
    <2>1. o = [file |-> NoFile, handle |-> 0, data |-> 0]
      BY <1>1, <1>5 DEF Fopen
    <2>. QED BY <2>1, NoFileTyped DEF Opens
  <1>. QED BY <1>2, <1>3, <1>4, <1>5

OpenedAs(e, w, f) ==
  /\ e.k.file = f /\ e.k.left = f.len /\ e.k.replied = w.k.replied /\ SamePost(e.k, w.k)
  /\ e.tx = w.tx /\ e.ok = w.ok /\ e.mem.post = w.mem.post

LEMMA OpenedDoes ==
  ASSUME NEW w \in Working, w.k.file = NoFile, NEW o, Opens(o), NEW e, e = Opened(w, o)
  PROVE  /\ e \in Working /\ Accounts(e, w) /\ FileKind(e.k) /\ OpenedAs(e, w, o.file)
  <1>1. w.k \in ClientRecord /\ w.mem \in Memory
    BY DEF Working
  <1>2. PICK f \in FileRecord : f = o.file
    BY DEF Opens
  <1>3. PICK lNew \in Nat : lNew = f.len
    BY DEF FileRecord
  <1>4. PICK kNew \in ClientRecord : kNew = [w.k EXCEPT !.file = f, !.left = lNew]
    BY <1>1 DEF ClientRecord
  <1>5. PICK hNew \in Int, dNew \in Int :
          hNew = w.mem.handle + o.handle /\ dNew = w.mem.data + o.data
    BY <1>1 DEF Opens, Memory
  <1>6. PICK mNew \in Memory : mNew = [w.mem EXCEPT !.handle = hNew, !.data = dNew]
    BY <1>1 DEF Memory
  <1>7. e = [w EXCEPT !.k.file = o.file, !.k.left = o.file.len,
                      !.mem.handle = @ + o.handle, !.mem.data = @ + o.data]
    BY DEF Opened
  <1>8. e = [w EXCEPT !.k = kNew, !.mem = mNew]
    BY <1>1, <1>2, <1>3, <1>4, <1>5, <1>6, <1>7 DEF Working, ClientRecord, Memory
  <1>9. e \in Working /\ e.k = kNew /\ e.mem = mNew /\ e.tx = w.tx /\ e.ok = w.ok
    BY <1>8 DEF Working
  <1>10. /\ kNew.file = f /\ kNew.left = lNew /\ kNew.replied = w.k.replied
         /\ SamePost(kNew, w.k)
    BY <1>1, <1>4 DEF ClientRecord, SamePost
  <1>11. /\ mNew.client = w.mem.client /\ mNew.handle = hNew /\ mNew.data = dNew
         /\ mNew.post = w.mem.post
    BY <1>1, <1>6 DEF Memory
  <1>12. FileKind(kNew)
    BY <1>2, <1>10 DEF FileKind, Opens
  <1>13. HandleUse(kNew) = o.handle /\ DataUse(kNew) = o.data
    BY <1>2, <1>10 DEF HandleUse, DataUse, Opens
  <1>14. HandleUse(w.k) = 0 /\ DataUse(w.k) = 0 /\ PostUse(kNew) = PostUse(w.k)
    BY <1>10, NoFileTyped DEF HandleUse, DataUse, PostUse, SamePost
  <1>15. Accounts(e, w)
    <2>1. w.mem.handle \in Int /\ w.mem.data \in Int /\ o.handle \in Int /\ o.data \in Int
      BY <1>1 DEF Memory, Opens
    <2>. QED BY <1>5, <1>9, <1>11, <1>13, <1>14, <2>1 DEF Accounts
  <1>. QED BY <1>2, <1>3, <1>9, <1>10, <1>11, <1>12, <1>15 DEF OpenedAs

(* The phase of a client between two calls of its work function, and what  *)
(* a call leaves of the memory, the send buffer and the client.            *)
Phase(k) ==
  /\ k.post <=> k.state = 1
  /\ k.post => k.file = NoFile /\ k.left > 0
  /\ k.file # NoFile => k.replied /\ k.left > 0
Worked(e, w) ==
  /\ e \in Working /\ Len(e.tx) <= TxSize /\ Accounts(e, w) /\ FileKind(e.k)
  /\ e.ok => Phase(e.k)
  /\ e.mem.post <= MaxPosts

LEMMA WorkedQuietly ==
  ASSUME NEW e \in Working, NEW w \in Working, Accounts(e, w), Len(e.tx) <= TxSize,
         FileKind(e.k), ~e.k.post, w.mem.post <= MaxPosts, e.ok => Phase(e.k)
  PROVE  Worked(e, w)
  <1>1. e.mem.post \in Int /\ w.mem.post \in Int
    BY DEF Working, Memory
  <1>2. PostUse(e.k) = 0 /\ (PostUse(w.k) = 0 \/ PostUse(w.k) = 1)
    BY DEF PostUse
  <1>3. e.mem.post <= MaxPosts
    BY <1>1, <1>2, ServerAssumption DEF Accounts
  <1>. QED BY <1>3 DEF Worked

LEMMA AccountsAdd ==
  ASSUME NEW w, NEW v, NEW e, Accounts(v, w), Accounts(e, v)
  PROVE  Accounts(e, w)
  BY DEF Accounts

LEMMA RepliedAccounts ==
  ASSUME NEW w, NEW e, Replied(e, w)
  PROVE  Accounts(e, w)
  BY DEF Replied, Accounts, HandleUse, DataUse, PostUse, SamePost

LEMMA ErrorHeader ==
  ASSUME NEW code0 \in Nat
  PROVE  \E code \in Nat, len \in Nat, seen \in Seq(Nat) :
           code = code0 /\ len = 0 /\ seen = <<>>
  <1>1. PICK seen0 \in Seq(Nat) : seen0 = <<>>
    BY EmptySeq
  <1>2. PICK len0 \in Nat : len0 = 0
    OBVIOUS
  <1>. QED BY <1>1, <1>2

(* prvOpenURL, for a request of any client. *)
LEMMA OpenURLDoes ==
  ASSUME NEW w \in Working, NEW up \in BOOLEAN, NEW c \in Clients, NEW q \in Requests[c],
         Len(w.tx) <= TxSize, w.mem.post <= MaxPosts, w.k.file = NoFile, ~w.k.post,
         w.k.state = 0, NEW e, e = OpenURL(w, up, q)
  PROVE  Worked(e, w)
  <1>1. PICK o : o = Fopen(q.url, q.fwd, "GET", <<>>)
    OBVIOUS
  <1>2. Opens(o)
    <2>1. q.fwd # None /\ Found(q.fwd, "GET") => Lookup(q.fwd, "GET").kind # "script"
      BY ScriptAssumption
    <2>2. PICK empty \in Seq(Nat) : empty = <<>>
      BY EmptySeq
    <2>3. PICK url, fwd, method : url = q.url /\ fwd = q.fwd /\ method = "GET"
      OBVIOUS
    <2>4. fwd # None /\ Found(fwd, method) => Lookup(fwd, method).kind # "script"
      BY <2>1, <2>3
    <2>5. o = Fopen(url, fwd, method, empty)
      BY <1>1, <2>2, <2>3
    <2>. QED BY ONLY <2>4, <2>5, FopenDoes
  <1>3. PICK x : x = Opened(w, o)
    OBVIOUS
  <1>4. x \in Working /\ Accounts(x, w) /\ FileKind(x.k) /\ OpenedAs(x, w, o.file)
    BY ONLY <1>2, <1>3, OpenedDoes, w \in Working, w.k.file = NoFile
  <1>5. PICK v : v = Unanswered(x)
    OBVIOUS
  <1>6. /\ v \in Working /\ v.k.file = x.k.file /\ v.tx = w.tx /\ ~v.k.replied
        /\ Accounts(v, x) /\ FileKind(v.k) /\ ~v.k.post /\ v.k.state = 0
    <2>1. x.k \in ClientRecord
      BY <1>4 DEF Working
    <2>2. PICK kNew \in ClientRecord : kNew = [x.k EXCEPT !.replied = FALSE]
      BY <2>1 DEF ClientRecord
    <2>3. v = [x EXCEPT !.k = kNew]
      BY <1>4, <1>5, <2>1, <2>2 DEF Unanswered, Working, ClientRecord
    <2>4. v \in Working /\ v.k = kNew /\ v.tx = x.tx /\ v.mem = x.mem
      BY <1>4, <2>3 DEF Working
    <2>5. kNew.file = x.k.file /\ ~kNew.replied /\ SamePost(kNew, x.k)
      BY <2>1, <2>2 DEF ClientRecord, SamePost
    <2>6. Accounts(v, x)
      BY <2>4, <2>5 DEF Accounts, HandleUse, DataUse, PostUse, SamePost
    <2>7. FileKind(v.k)
      BY <1>4, <2>4, <2>5 DEF FileKind
    <2>8. ~v.k.post /\ v.k.state = 0
      BY <1>4, <2>4, <2>5 DEF SamePost, OpenedAs
    <2>. QED BY <1>4, <2>4, <2>5, <2>6, <2>7, <2>8 DEF OpenedAs
  <1>7. Accounts(v, w) /\ Len(v.tx) <= TxSize
    BY <1>4, <1>6, AccountsAdd
  <1>8. CASE v.k.file = NoFile
    <2>1. PICK code \in Nat, len \in Nat, seen \in Seq(Nat) :
            code = 404 /\ len = 0 /\ seen = <<>>
      BY ErrorHeader
    <2>2. e = SendReply(v, up, code, len, seen)
      BY <1>1, <1>3, <1>5, <1>8, <2>1, NoFileTyped DEF OpenURL
    <2>3. e \in Working /\ Len(e.tx) <= TxSize /\ Replied(e, v)
      BY ONLY <1>6, <1>7, <2>2, SendReplyDoes
    <2>4. Accounts(e, w)
      BY <1>7, <2>3, AccountsAdd, RepliedAccounts
    <2>5. e.k.file = NoFile /\ ~e.k.post /\ e.k.state = 0
      BY <1>6, <1>8, <2>3 DEF Replied, SamePost
    <2>6. FileKind(e.k) /\ Phase(e.k)
      BY <2>5, NoFileTyped DEF FileKind, Phase
    <2>. QED BY <2>3, <2>4, <2>5, <2>6, WorkedQuietly
  <1>9. CASE v.k.file # NoFile /\ v.k.file.kind = "redirect"
    <2>1. PICK code \in Nat, len \in Nat, seen \in Seq(Nat) :
            code = 302 /\ len = 0 /\ seen = <<>>
      BY ErrorHeader
    <2>2. PICK s : s = SendReply(v, up, code, len, seen)
      OBVIOUS
    <2>3. e = FileClose(s)
      BY <1>1, <1>3, <1>5, <1>9, <2>1, <2>2 DEF OpenURL
    <2>4. s \in Working /\ Len(s.tx) <= TxSize /\ Replied(s, v)
      BY ONLY <1>6, <1>7, <2>2, SendReplyDoes
    <2>5. Accounts(s, w) /\ FileKind(s.k) /\ ~s.k.post /\ s.k.state = 0
      <3>1. Accounts(s, w)
        BY <1>7, <2>4, AccountsAdd, RepliedAccounts
      <3>. QED BY <1>6, <2>4, <3>1 DEF FileKind, Replied, SamePost
    <2>6. /\ e \in Working /\ e.k.file = NoFile /\ Accounts(e, s) /\ e.tx = s.tx
          /\ e.k.post = s.k.post /\ e.k.state = s.k.state
      BY ONLY <2>3, <2>4, <2>5, FileCloseDoes
    <2>7. Accounts(e, w)
      BY <2>5, <2>6, AccountsAdd
    <2>8. FileKind(e.k) /\ Phase(e.k) /\ ~e.k.post
      BY <2>5, <2>6, NoFileTyped DEF FileKind, Phase
    <2>. QED BY <2>4, <2>6, <2>7, <2>8, WorkedQuietly
  <1>10. CASE v.k.file # NoFile /\ v.k.file.kind # "redirect"
    <2>1. e = SendFile(v, up)
      BY <1>1, <1>3, <1>5, <1>10 DEF OpenURL
    <2>2. HasFile(v.k)
      BY <1>6, <1>10 DEF HasFile, FileKind
    <2>3. /\ e \in Working /\ Len(e.tx) <= TxSize /\ Accounts(e, v) /\ SamePost(e.k, v.k)
          /\ FileKind(e.k) /\ e.k.replied /\ (e.k.file # NoFile => e.k.left > 0)
      BY ONLY <1>6, <1>7, <2>1, <2>2, SendFileDoes
    <2>4. Accounts(e, w)
      BY <1>7, <2>3, AccountsAdd
    <2>5. ~e.k.post /\ Phase(e.k)
      BY <1>6, <2>3 DEF SamePost, Phase
    <2>. QED BY <2>3, <2>4, <2>5, WorkedQuietly
  <1>. QED BY <1>8, <1>9, <1>10

LEMMA ReturnsDoes ==
  ASSUME NEW w \in Working, NEW b \in BOOLEAN, NEW e, e = Returns(w, b)
  PROVE  e \in Working /\ e.k = w.k /\ e.tx = w.tx /\ e.mem = w.mem /\ (e.ok <=> b)
  BY DEF Returns, Working

LEMMA SameAccounts ==
  ASSUME NEW w, NEW e, e.k = w.k, e.mem = w.mem
  PROVE  Accounts(e, w)
  BY DEF Accounts

(* The end of a POST that is answered without its script. *)
LEMMA PostRefused ==
  ASSUME NEW w \in Working, NEW up \in BOOLEAN, NEW code \in Nat, Len(w.tx) <= TxSize,
         FileKind(w.k), w.k.state = 1 => w.k.post,
         NEW e, e = Returns(PostClose(SendPostReply(w, up, code)), TRUE)
  PROVE  /\ e \in Working /\ Accounts(e, w) /\ Len(e.tx) <= TxSize /\ e.k.file = NoFile
         /\ ~e.k.post /\ e.k.state = 0 /\ FileKind(e.k) /\ Phase(e.k) /\ e.k.left = w.k.left
         /\ e.tx = SendPostReply(w, up, code).tx
  <1>1. PICK s : s = SendPostReply(w, up, code)
    OBVIOUS
  <1>2. PICK x : x = PostClose(s)
    OBVIOUS
  <1>3. s \in Working /\ Len(s.tx) <= TxSize /\ Replied(s, w)
    BY <1>1, SendPostReplyDoes
  <1>4. Accounts(s, w)
    BY <1>3, RepliedAccounts
  <1>5. FileKind(s.k) /\ (s.k.state = 1 => s.k.post) /\ s.k.left = w.k.left
    BY <1>3 DEF FileKind, Replied, SamePost
  <1>6. /\ x \in Working /\ Accounts(x, s) /\ ~x.k.post /\ x.k.state = 0
        /\ x.k.file = NoFile /\ x.tx = s.tx /\ x.k.left = s.k.left
    BY ONLY <1>2, <1>3, <1>5, PostCloseDoes
  <1>7. PICK b \in BOOLEAN : b = TRUE
    OBVIOUS
  <1>8. e = Returns(x, b)
    BY <1>1, <1>2, <1>7
  <1>9. e \in Working /\ e.k = x.k /\ e.tx = x.tx /\ e.mem = x.mem
    BY ONLY <1>6, <1>8, ReturnsDoes
  <1>10. Accounts(e, w)
    BY <1>4, <1>6, <1>9, AccountsAdd, SameAccounts
  <1>11. FileKind(e.k) /\ Phase(e.k)
    <2>1. FileKind(x.k) /\ Phase(x.k)
      BY <1>6, NoFileTyped DEF FileKind, Phase
    <2>. QED BY <1>9, <2>1
  <1>. QED BY <1>1, <1>3, <1>5, <1>6, <1>9, <1>10, <1>11

LEMMA HandlePostDoes ==
  ASSUME NEW w \in Working, NEW up \in BOOLEAN, Len(w.tx) <= TxSize, w.mem.post <= MaxPosts,
         w.k.file = NoFile, w.k.post, NEW e, e = HandlePost(w, up)
  PROVE  Worked(e, w)
  <1>1. PICK o : o = Fopen(w.k.name, None, "POST", w.k.buf)
    OBVIOUS
  <1>2. Opens(o)
    <2>1. PICK url, method : url = w.k.name /\ method = "POST"
      OBVIOUS
    <2>2. PICK seen \in Seq(Nat) : seen = w.k.buf
      BY DEF Working, ClientRecord
    <2>3. o = Fopen(url, None, method, seen)
      BY <1>1, <2>1, <2>2
    <2>. QED BY ONLY <2>3, FopenDoes
  <1>3. PICK v : v = Opened(w, o)
    OBVIOUS
  <1>4. v \in Working /\ Accounts(v, w) /\ FileKind(v.k) /\ OpenedAs(v, w, o.file)
    BY ONLY <1>2, <1>3, OpenedDoes, w \in Working, w.k.file = NoFile
  <1>5. v.k.post /\ Len(v.tx) <= TxSize
    BY <1>4 DEF OpenedAs, SamePost
  <1>6. CASE v.k.file = NoFile
    <2>1. PICK code \in Nat : code = 404
      OBVIOUS
    <2>2. e = Returns(PostClose(SendPostReply(v, up, code)), TRUE)
      BY <1>1, <1>3, <1>6, <2>1 DEF HandlePost
    <2>3. /\ e \in Working /\ Accounts(e, v) /\ Len(e.tx) <= TxSize
          /\ ~e.k.post /\ FileKind(e.k) /\ Phase(e.k)
      BY ONLY <1>4, <1>5, <2>2, PostRefused
    <2>4. Accounts(e, w)
      BY <1>4, <2>3, AccountsAdd
    <2>. QED BY <2>3, <2>4, WorkedQuietly
  <1>7. CASE v.k.file # NoFile
    <2>1. PICK s : s = SendFile(v, up)
      OBVIOUS
    <2>2. e = PostDone(s)
      BY <1>1, <1>3, <1>7, <2>1 DEF HandlePost
    <2>3. HasFile(v.k)
      BY <1>4, <1>7 DEF HasFile, FileKind
    <2>4. /\ s \in Working /\ Len(s.tx) <= TxSize /\ Accounts(s, v) /\ SamePost(s.k, v.k)
          /\ FileKind(s.k) /\ s.k.replied /\ (s.k.file # NoFile => s.k.left > 0)
      BY ONLY <1>4, <1>5, <2>1, <2>3, SendFileDoes
    <2>5. s.k.post
      BY <1>5, <2>4 DEF SamePost
    <2>6. /\ e \in Working /\ Accounts(e, s) /\ ~e.k.post /\ e.k.state = 0
          /\ e.tx = s.tx /\ e.ok = s.ok /\ e.k.file = s.k.file /\ e.k.left = s.k.left
          /\ e.k.replied = s.k.replied
      BY ONLY <2>2, <2>4, <2>5, PostDoneDoes
    <2>7. Accounts(e, w)
      BY <1>4, <2>4, <2>6, AccountsAdd
    <2>8. FileKind(e.k) /\ Phase(e.k)
      BY <2>4, <2>6 DEF FileKind, Phase
    <2>. QED BY <2>4, <2>6, <2>7, <2>8, WorkedQuietly
  <1>. QED BY <1>6, <1>7

LEMMA PostNamedDoes ==
  ASSUME NEW w \in Working, NEW c \in Clients, NEW q \in Requests[c],
         NEW e, e = PostNamed(w, q)
  PROVE  /\ e \in Working /\ Accounts(e, w) /\ e.tx = w.tx /\ e.ok = w.ok
         /\ e.k.file = w.k.file /\ e.k.left = w.k.left /\ e.k.post = w.k.post
         /\ e.k.state = w.k.state /\ e.mem = w.mem /\ e.k.name = q.url /\ ~e.k.replied
  <1>1. w.k \in ClientRecord
    BY DEF Working
  <1>2. PICK name \in Names : name = q.url
    BY DEF Names
  <1>3. PICK kNew \in ClientRecord :
          kNew = [w.k EXCEPT !.replied = FALSE, !.name = name, !.buf = <<>>]
    BY <1>1, EmptySeq DEF ClientRecord
  <1>4. e = [w EXCEPT !.k.replied = FALSE, !.k.name = q.url, !.k.buf = <<>>]
    BY DEF PostNamed
  <1>5. e = [w EXCEPT !.k = kNew]
    BY <1>1, <1>2, <1>3, <1>4 DEF Working, ClientRecord
  <1>6. e \in Working /\ e.k = kNew /\ e.mem = w.mem /\ e.tx = w.tx /\ e.ok = w.ok
    BY <1>5 DEF Working
  <1>7. /\ kNew.file = w.k.file /\ kNew.left = w.k.left /\ kNew.post = w.k.post
        /\ kNew.state = w.k.state /\ kNew.name = name /\ ~kNew.replied
    BY <1>1, <1>3 DEF ClientRecord
  <1>8. Accounts(e, w)
    BY <1>6, <1>7 DEF Accounts, HandleUse, DataUse, PostUse
  <1>. QED BY <1>2, <1>6, <1>7, <1>8

LEMMA PostAllocatedDoes ==
  ASSUME NEW w \in Working, ~w.k.post, NEW e, e = PostAllocated(w)
  PROVE  /\ e \in Working /\ Accounts(e, w) /\ e.tx = w.tx /\ e.ok = w.ok
         /\ e.k.file = w.k.file /\ e.k.left = w.k.left /\ e.k.post
         /\ e.k.state = w.k.state /\ e.mem.post = w.mem.post + 1 /\ e.k.name = w.k.name /\ e.k.replied = w.k.replied
  <1>1. w.k \in ClientRecord /\ w.mem \in Memory
    BY DEF Working
  <1>2. PICK x \in Int : x = w.mem.post + 1
    BY <1>1 DEF Memory
  <1>3. PICK mNew \in Memory : mNew = [w.mem EXCEPT !.post = x]
    BY <1>1 DEF Memory
  <1>4. PICK kNew \in ClientRecord : kNew = [w.k EXCEPT !.post = TRUE]
    BY <1>1 DEF ClientRecord
  <1>5. e = [w EXCEPT !.k.post = TRUE, !.mem.post = @ + 1]
    BY DEF PostAllocated
  <1>6. e = [w EXCEPT !.k = kNew, !.mem = mNew]
    BY <1>1, <1>2, <1>3, <1>4, <1>5 DEF Working, ClientRecord, Memory
  <1>7. e \in Working /\ e.k = kNew /\ e.mem = mNew /\ e.tx = w.tx /\ e.ok = w.ok
    BY <1>6 DEF Working
  <1>8. /\ kNew.file = w.k.file /\ kNew.left = w.k.left /\ kNew.post
        /\ kNew.state = w.k.state /\ kNew.name = w.k.name /\ kNew.replied = w.k.replied
    BY <1>1, <1>4 DEF ClientRecord
  <1>9. /\ mNew.client = w.mem.client /\ mNew.handle = w.mem.handle
        /\ mNew.data = w.mem.data /\ mNew.post = x
    BY <1>1, <1>3 DEF Memory
  <1>10. PostUse(e.k) = 1 /\ PostUse(w.k) = 0
    BY <1>7, <1>8 DEF PostUse
  <1>11. HandleUse(e.k) = HandleUse(w.k) /\ DataUse(e.k) = DataUse(w.k)
    BY <1>7, <1>8 DEF HandleUse, DataUse
  <1>12. Accounts(e, w)
    <2>1. w.mem.post \in Int
      BY <1>1 DEF Memory
    <2>. QED BY <1>2, <1>7, <1>9, <1>10, <1>11, <2>1 DEF Accounts
  <1>. QED BY <1>2, <1>7, <1>8, <1>9, <1>12

Numbers(n) == [i \in 1 .. n |-> i]
LEMMA NumbersIs ==
  ASSUME NEW n \in Nat
  PROVE  Numbers(n) \in Seq(Nat) /\ Len(Numbers(n)) = n
  <1>1. Numbers(n) \in [1 .. n -> Nat]
    BY DEF Numbers
  <1>. QED BY <1>1

LEMMA FirstPartDoes ==
  ASSUME NEW w \in Working, NEW c \in Clients, NEW q \in Requests[c], NEW n \in Nat,
         n <= q.body, NEW e, e = FirstPart(w, q, n)
  PROVE  /\ e \in Working /\ Accounts(e, w) /\ e.tx = w.tx /\ e.ok = w.ok
         /\ e.k.file = w.k.file /\ e.k.left = q.body - n /\ e.k.post = w.k.post
         /\ e.k.state = w.k.state /\ e.mem = w.mem /\ e.k.name = w.k.name /\ e.k.replied = w.k.replied
         /\ e.k.buf = Numbers(n)
  <1>1. w.k \in ClientRecord
    BY DEF Working
  <1>2. PICK lNew \in Nat : lNew = q.body - n
    BY DataAssumption
  <1>3. PICK bNew \in Seq(Nat) : bNew = Numbers(n)
    BY NumbersIs
  <1>4. PICK kNew \in ClientRecord : kNew = [w.k EXCEPT !.buf = bNew, !.left = lNew]
    BY <1>1 DEF ClientRecord
  <1>5. e = [w EXCEPT !.k = kNew]
    BY <1>1, <1>2, <1>3, <1>4 DEF FirstPart, Numbers, Working, ClientRecord
  <1>6. e \in Working /\ e.k = kNew /\ e.mem = w.mem /\ e.tx = w.tx /\ e.ok = w.ok
    BY <1>5 DEF Working
  <1>7. /\ kNew.file = w.k.file /\ kNew.left = lNew /\ kNew.post = w.k.post
        /\ kNew.state = w.k.state /\ kNew.name = w.k.name /\ kNew.replied = w.k.replied /\ kNew.buf = bNew
    BY <1>1, <1>4 DEF ClientRecord
  <1>8. Accounts(e, w)
    BY <1>6, <1>7 DEF Accounts, HandleUse, DataUse, PostUse
  <1>. QED BY <1>2, <1>3, <1>6, <1>7, <1>8

LEMMA MoreToComeDoes ==
  ASSUME NEW w \in Working, NEW e, e = MoreToCome(w)
  PROVE  /\ e \in Working /\ Accounts(e, w) /\ e.tx = w.tx /\ e.ok = w.ok
         /\ e.k.file = w.k.file /\ e.k.left = w.k.left /\ e.k.post = w.k.post
         /\ e.k.state = 1 /\ e.mem = w.mem /\ e.k.name = w.k.name /\ e.k.replied = w.k.replied /\ e.k.buf = w.k.buf
  <1>1. w.k \in ClientRecord
    BY DEF Working
  <1>2. PICK kNew \in ClientRecord : kNew = [w.k EXCEPT !.state = 1]
    BY <1>1 DEF ClientRecord
  <1>3. e = [w EXCEPT !.k = kNew]
    BY <1>1, <1>2 DEF MoreToCome, Working, ClientRecord
  <1>4. e \in Working /\ e.k = kNew /\ e.mem = w.mem /\ e.tx = w.tx /\ e.ok = w.ok
    BY <1>3 DEF Working
  <1>5. /\ kNew.file = w.k.file /\ kNew.left = w.k.left /\ kNew.post = w.k.post
        /\ kNew.state = 1 /\ kNew.name = w.k.name /\ kNew.replied = w.k.replied /\ kNew.buf = w.k.buf
    BY <1>1, <1>2 DEF ClientRecord
  <1>6. Accounts(e, w)
    BY <1>4, <1>5 DEF Accounts, HandleUse, DataUse, PostUse
  <1>. QED BY <1>4, <1>5, <1>6

(* prvOpenPostUrl and the first call of prvGetPost, for a request of any   *)
(* client of which n units of the body came with the header.               *)
LEMMA OpenPostDoes ==
  ASSUME NEW w \in Working, NEW up \in BOOLEAN, NEW c \in Clients, NEW q \in Requests[c],
         NEW n \in Nat, n <= q.body, Len(w.tx) <= TxSize, w.mem.post <= MaxPosts,
         w.k.file = NoFile, ~w.k.post, w.k.state = 0, NEW e, e = OpenPost(w, up, q, n)
  PROVE  Worked(e, w)
  <1>1. PICK max : max = Lookup(q.url, "POST").max
    OBVIOUS
  <1>2. PICK v : v = PostNamed(w, q)
    OBVIOUS
  <1>3. PICK p : p = PostAllocated(v)
    OBVIOUS
  <1>4. PICK b : b = FirstPart(p, q, n)
    OBVIOUS
  <1>5. /\ v \in Working /\ Accounts(v, w) /\ v.tx = w.tx /\ v.k.file = NoFile
        /\ ~v.k.post /\ v.k.state = 0 /\ v.mem = w.mem
    BY ONLY <1>2, PostNamedDoes, w \in Working, w.k.file = NoFile, ~w.k.post, w.k.state = 0
  <1>6. /\ p \in Working /\ Accounts(p, v) /\ p.tx = v.tx /\ p.k.file = NoFile
        /\ p.k.post /\ p.k.state = 0 /\ p.mem.post = v.mem.post + 1
    BY ONLY <1>3, <1>5, PostAllocatedDoes
  <1>7. /\ b \in Working /\ Accounts(b, p) /\ b.tx = p.tx /\ b.k.file = NoFile
        /\ b.k.left = q.body - n /\ b.k.post /\ b.k.state = 0 /\ b.mem = p.mem
    BY ONLY <1>4, <1>6, FirstPartDoes, n <= q.body
  <1>8. Len(v.tx) <= TxSize /\ Len(p.tx) <= TxSize /\ Len(b.tx) <= TxSize
    BY <1>5, <1>6, <1>7
  <1>9. Accounts(p, w) /\ Accounts(b, w)
    BY <1>5, <1>6, <1>7, AccountsAdd
  <1>10. FileKind(v.k) /\ FileKind(p.k) /\ FileKind(b.k)
    BY <1>5, <1>6, <1>7, NoFileTyped DEF FileKind
  <1>11. ASSUME NEW code \in Nat, e = SendPostReply(v, up, code)
         PROVE  Worked(e, w)
    <2>3. e \in Working /\ Len(e.tx) <= TxSize /\ Replied(e, v)
      BY ONLY <1>5, <1>8, <1>11, SendPostReplyDoes
    <2>4. Accounts(e, w)
      BY <1>5, <2>3, AccountsAdd, RepliedAccounts
    <2>5. e.k.file = NoFile /\ ~e.k.post /\ e.k.state = 0
      BY <1>5, <2>3 DEF Replied, SamePost
    <2>6. FileKind(e.k) /\ Phase(e.k)
      BY <2>5, NoFileTyped DEF FileKind, Phase
    <2>. QED BY <2>3, <2>4, <2>5, <2>6, WorkedQuietly
  <1>12. CASE ~Found(q.url, "POST")
    <2>1. e = SendPostReply(v, up, 404)
      BY <1>2, <1>12 DEF OpenPost
    <2>. QED BY <1>11, <2>1
  <1>13. CASE Found(q.url, "POST") /\ w.mem.post = MaxPosts
    <2>1. e = SendPostReply(v, up, 500)
      <3>1. ~(w.mem.post < MaxPosts)
        BY <1>13, ServerAssumption
      <3>. QED BY <1>2, <1>13, <3>1 DEF OpenPost
    <2>. QED BY <1>11, <2>1
  <1>14. CASE Found(q.url, "POST") /\ w.mem.post < MaxPosts /\ q.body > max
    <2>1. w.mem.post # MaxPosts
      BY <1>14, ServerAssumption DEF Working, Memory
    <2>2. PICK code \in Nat : code = 400
      OBVIOUS
    <2>3. e = Returns(PostClose(SendPostReply(p, up, code)), TRUE)
      BY <1>1, <1>2, <1>3, <1>14, <2>1, <2>2 DEF OpenPost
    <2>4. /\ e \in Working /\ Accounts(e, p) /\ Len(e.tx) <= TxSize
          /\ ~e.k.post /\ FileKind(e.k) /\ Phase(e.k)
      BY ONLY <1>6, <1>8, <1>10, <2>3, PostRefused
    <2>5. Accounts(e, w)
      BY <1>9, <2>4, AccountsAdd
    <2>. QED BY <2>4, <2>5, WorkedQuietly
  <1>15. CASE /\ Found(q.url, "POST") /\ w.mem.post # MaxPosts
              /\ ~(w.mem.post < MaxPosts /\ q.body > max)
    <2>1. e = IF n < q.body THEN MoreToCome(b) ELSE HandlePost(b, up)
      BY <1>1, <1>2, <1>3, <1>4, <1>15 DEF OpenPost
    <2>2. b.mem.post <= MaxPosts
      <3>1. w.mem.post \in Int /\ b.mem.post = w.mem.post + 1
        BY <1>5, <1>6, <1>7 DEF Working, Memory
      <3>. QED BY <1>15, <3>1, ServerAssumption
    <2>3. CASE n < q.body
      <3>1. e = MoreToCome(b)
        BY <2>1, <2>3
      <3>2. /\ e \in Working /\ Accounts(e, b) /\ e.tx = b.tx
            /\ e.k.file = b.k.file /\ e.k.left = b.k.left /\ e.k.post = b.k.post
            /\ e.k.state = 1 /\ e.mem = b.mem
        BY ONLY <1>7, <3>1, MoreToComeDoes
      <3>3. Accounts(e, w)
        BY <1>9, <3>2, AccountsAdd
      <3>4. e.k.left > 0
        BY <1>7, <2>3, <3>2, DataAssumption
      <3>5. FileKind(e.k) /\ Phase(e.k)
        BY <1>7, <3>2, <3>4, NoFileTyped DEF FileKind, Phase
      <3>. QED BY <1>8, <2>2, <3>2, <3>3, <3>5 DEF Worked
    <2>4. CASE ~(n < q.body)
      <3>1. e = HandlePost(b, up)
        BY <2>1, <2>4
      <3>2. Worked(e, b)
        BY ONLY <1>7, <1>8, <2>2, <3>1, HandlePostDoes
      <3>. QED BY <1>9, <3>2, AccountsAdd DEF Worked
    <2>. QED BY <2>3, <2>4
  <1>. QED BY <1>12, <1>13, <1>14, <1>15

(* prvGetPost in state 1, with units of the body no more than are missing. *)
Positions(units) == [i \in 1 .. Len(units) |-> units[i].at]
LEMMA PositionsIs ==
  ASSUME NEW c \in Clients, NEW units \in Seq(Unit(c))
  PROVE  Positions(units) \in Seq(Nat) /\ Len(Positions(units)) = Len(units)
  <1>1. \A i \in 1 .. Len(units) : units[i].at \in Nat
    <2>1. \A i \in 1 .. Len(units) : units[i] \in Unit(c)
      OBVIOUS
    <2>. QED BY <2>1 DEF Unit
  <1>2. Positions(units) \in [1 .. Len(units) -> Nat]
    BY <1>1 DEF Positions
  <1>. QED BY <1>2

LEMMA GetBodyDoes ==
  ASSUME NEW w \in Working, NEW c \in Clients, NEW units \in Seq(Unit(c)),
         Len(units) <= w.k.left, NEW e, e = GetBody(w, units)
  PROVE  /\ e \in Working /\ Accounts(e, w) /\ e.tx = w.tx /\ e.ok = w.ok
         /\ e.k.file = w.k.file /\ e.k.left = w.k.left - Len(units) /\ e.k.post = w.k.post
         /\ e.k.state = w.k.state /\ e.mem = w.mem /\ e.k.name = w.k.name /\ e.k.replied = w.k.replied
         /\ e.k.buf = w.k.buf \o Positions(units)
  <1>1. w.k \in ClientRecord /\ w.k.left \in Nat /\ w.k.buf \in Seq(Nat)
    BY DEF Working, ClientRecord
  <1>2. PICK lNew \in Nat : lNew = w.k.left - Len(units)
    BY <1>1
  <1>3. PICK bNew \in Seq(Nat) : bNew = w.k.buf \o Positions(units)
    <2>1. PICK old \in Seq(Nat) : old = w.k.buf
      BY <1>1
    <2>2. PICK more \in Seq(Nat) : more = Positions(units)
      BY PositionsIs
    <2>3. old \o more \in Seq(Nat)
      BY ConcatProperties
    <2>. QED BY <2>1, <2>2, <2>3
  <1>4. PICK kNew \in ClientRecord : kNew = [w.k EXCEPT !.buf = bNew, !.left = lNew]
    BY <1>1 DEF ClientRecord
  <1>5. e = [w EXCEPT !.k = kNew]
    BY <1>1, <1>2, <1>3, <1>4 DEF GetBody, Positions, Working, ClientRecord
  <1>6. e \in Working /\ e.k = kNew /\ e.mem = w.mem /\ e.tx = w.tx /\ e.ok = w.ok
    BY <1>5 DEF Working
  <1>7. /\ kNew.file = w.k.file /\ kNew.left = lNew /\ kNew.post = w.k.post
        /\ kNew.state = w.k.state /\ kNew.name = w.k.name /\ kNew.replied = w.k.replied /\ kNew.buf = bNew
    BY <1>1, <1>4 DEF ClientRecord
  <1>8. Accounts(e, w)
    BY <1>6, <1>7 DEF Accounts, HandleUse, DataUse, PostUse
  <1>. QED BY <1>2, <1>3, <1>6, <1>7, <1>8

-----------------------------------------------------------------------------
(* The server's variables: types, the list, and what the clients own.      *)
ClientTypes(c) ==
  /\ want[c] \in Requests[c] \cup {None}
  /\ asks[c] \in 0 .. MaxAsks[c]
  /\ rx[c] \in Seq(Unit(c)) /\ todo[c] \in Seq(Unit(c))
  /\ tx[c] \in Seq(Sent) /\ Len(tx[c]) <= TxSize /\ got[c] \in Seq(Sent)
  /\ cl[c] \in ClientRecord /\ FileKind(cl[c]) /\ Phase(cl[c])
ServerTypes ==
  /\ conn \in [Clients -> {"none", "backlog", "open", "down", "closed"}]
  /\ asks = [c \in Clients |-> asks[c]] /\ want = [c \in Clients |-> want[c]]
  /\ rx = [c \in Clients |-> rx[c]] /\ todo = [c \in Clients |-> todo[c]]
  /\ tx = [c \in Clients |-> tx[c]] /\ got = [c \in Clients |-> got[c]]
  /\ cl = [c \in Clients |-> cl[c]]
  /\ mem \in Memory
  /\ \A c \in Clients : ClientTypes(c)

(* walk is the end of list, told element by element. *)
ListInv ==
  /\ list \in Seq(Clients) /\ walk \in Seq(Clients)
  /\ Len(walk) <= Len(list)
  /\ \A i \in 1 .. Len(walk) : walk[i] = list[Len(list) - Len(walk) + i]
  /\ \A i, j \in 1 .. Len(list) : list[i] = list[j] => i = j
  /\ \A c \in Clients : (\E i \in 1 .. Len(list) : list[i] = c) <=> conn[c] \in {"open", "down"}

WithFile == {c \in Clients : cl[c].file # NoFile}
WithScript == {c \in Clients : cl[c].file.kind = "script"}
WithPost == {c \in Clients : cl[c].post}
OwnedInv ==
  /\ mem.client = Len(list)
  /\ mem.handle = Cardinality(WithFile)
  /\ mem.data = Cardinality(WithScript)
  /\ mem.post >= Cardinality(WithPost) /\ mem.post <= MaxPosts

LEMMA RemoveAtIs ==
  ASSUME NEW S, NEW s \in Seq(S), NEW n \in 1 .. Len(s), NEW t, t = RemoveAt(s, n)
  PROVE  /\ t \in Seq(S) /\ Len(t) = Len(s) - 1
         /\ \A j \in 1 .. Len(s) - 1 : t[j] = IF j < n THEN s[j] ELSE s[j + 1]
  <1>1. PICK a : a = SubSeq(s, 1, n - 1)
    OBVIOUS
  <1>2. PICK b : b = SubSeq(s, n + 1, Len(s))
    OBVIOUS
  <1>3. /\ a \in Seq(S) /\ Len(a) = n - 1
        /\ \A j \in 1 .. n - 1 : a[j] = s[j]
    BY <1>1, SubSeqProperties
  <1>4. /\ b \in Seq(S) /\ Len(b) = Len(s) - n
        /\ \A j \in 1 .. Len(s) - n : b[j] = s[n + j]
    BY <1>2, SubSeqProperties
  <1>5. t = a \o b
    BY <1>1, <1>2 DEF RemoveAt
  <1>6. /\ t \in Seq(S) /\ Len(t) = Len(s) - 1
        /\ \A j \in 1 .. Len(t) : t[j] = IF j <= Len(a) THEN a[j] ELSE b[j - Len(a)]
    BY <1>3, <1>4, <1>5, ConcatProperties
  <1>7. ASSUME NEW j \in 1 .. Len(s) - 1
        PROVE  t[j] = IF j < n THEN s[j] ELSE s[j + 1]
    <2>1. CASE j < n
      BY <1>3, <1>6, <2>1
    <2>2. CASE j >= n
      <3>1. PICK i \in 1 .. Len(s) - n : i = j - Len(a) /\ n + i = j + 1
        BY <1>3, <2>2
      <3>2. t[j] = b[i]
        BY <1>3, <1>6, <2>2, <3>1
      <3>3. b[i] = s[n + i]
        BY <1>4
      <3>4. ~(j < n) /\ s[n + i] = s[j + 1]
        BY <2>2, <3>1
      <3>. QED BY ONLY <3>2, <3>3, <3>4
    <2>. QED BY <2>1, <2>2
  <1>. QED BY <1>6, <1>7

(* The number of members of a set that changes at one element only.        *)
LEMMA CountChange ==
  ASSUME NEW c \in Clients, NEW A \in SUBSET Clients, NEW B \in SUBSET Clients,
         \A d \in Clients : d # c => (d \in A <=> d \in B)
  PROVE  /\ Cardinality(A) \in Nat /\ Cardinality(B) \in Nat
         /\ (c \in A <=> c \in B) => Cardinality(A) = Cardinality(B)
         /\ c \in A /\ c \notin B => Cardinality(B) = Cardinality(A) - 1
         /\ c \notin A /\ c \in B => Cardinality(B) = Cardinality(A) + 1
  <1>1. IsFiniteSet(A) /\ IsFiniteSet(B)
    BY DataAssumption, FS_Subset
  <1>2. Cardinality(A) \in Nat /\ Cardinality(B) \in Nat
    BY <1>1, FS_CardinalityType
  <1>3. ASSUME c \in A <=> c \in B
        PROVE  Cardinality(A) = Cardinality(B)
    <2>1. A = B
      BY <1>3
    <2>. QED BY <2>1
  <1>4. ASSUME c \in A, c \notin B
        PROVE  Cardinality(B) = Cardinality(A) - 1
    <2>1. B = A \ {c}
      BY <1>4
    <2>. QED BY <1>1, <1>4, <2>1, FS_RemoveElement
  <1>5. ASSUME c \notin A, c \in B
        PROVE  Cardinality(B) = Cardinality(A) + 1
    <2>1. B = A \cup {c}
      BY <1>5
    <2>. QED BY <1>1, <1>5, <2>1, FS_AddElement
  <1>. QED BY <1>2, <1>3, <1>4, <1>5

-----------------------------------------------------------------------------
(* What a call of the work function does to the server.                    *)
LEMMA NewClientTyped ==
  /\ NewClient \in ClientRecord /\ FileKind(NewClient) /\ Phase(NewClient)
  /\ NewClient.file = NoFile /\ ~NewClient.post
  <1>1. PICK empty \in Seq(Nat) : empty = <<>>
    BY EmptySeq
  <1>2. NewClient = [file |-> NoFile, left |-> 0, replied |-> FALSE, name |-> None,
                     post |-> FALSE, state |-> 0, buf |-> empty]
    BY <1>1 DEF NewClient
  <1>3. NewClient \in ClientRecord
    BY <1>2, NoFileTyped DEF ClientRecord, Names
  <1>4. NewClient.file = NoFile /\ ~NewClient.post /\ NewClient.state = 0
    BY <1>2
  <1>. QED BY <1>3, <1>4, NoFileTyped DEF FileKind, Phase

(* The uses of client c and of the memory, before and after. *)
Balanced(c) ==
  /\ mem'.handle - HandleUse(cl[c])' = mem.handle - HandleUse(cl[c])
  /\ mem'.data - DataUse(cl[c])' = mem.data - DataUse(cl[c])
  /\ mem'.post - PostUse(cl[c])' >= mem.post - PostUse(cl[c])
  /\ mem'.post <= MaxPosts

LEMMA WIs ==
  ASSUME NEW c \in Clients, ServerTypes
  PROVE  /\ W(c) \in Working /\ W(c).k = cl[c] /\ W(c).tx = tx[c] /\ W(c).mem = mem
         /\ W(c).ok
  BY DEF W, Working, ServerTypes, ClientTypes

LEMMA FinishKept ==
  ASSUME ServerTypes, NEW c \in Clients, NEW w \in Working, Worked(w, W(c)), w.ok,
         NEW rest \in Seq(Unit(c)), Finish(c, w, rest)
  PROVE  /\ ServerTypes' /\ Balanced(c) /\ mem'.client = mem.client
         /\ walk' = Tail(walk) /\ list' = list /\ conn' = conn /\ todo' = todo
         /\ want' = want /\ got' = got
         /\ \A d \in Clients : d # c => cl'[d] = cl[d] /\ rx'[d] = rx[d] /\ tx'[d] = tx[d]
         /\ cl'[c] = w.k /\ rx'[c] = rest /\ tx'[c] = w.tx
  <1>1. /\ walk' = Tail(walk) /\ list' = list /\ conn' = conn /\ todo' = todo
        /\ want' = want /\ got' = got /\ asks' = asks /\ mem' = w.mem
        /\ cl' = [cl EXCEPT ![c] = w.k] /\ tx' = [tx EXCEPT ![c] = w.tx]
        /\ rx' = [rx EXCEPT ![c] = rest]
    BY DEF Finish
  <1>2. /\ \A d \in Clients : d # c => cl'[d] = cl[d] /\ rx'[d] = rx[d] /\ tx'[d] = tx[d]
        /\ cl'[c] = w.k /\ rx'[c] = rest /\ tx'[c] = w.tx
    BY <1>1 DEF ServerTypes
  <1>3. w.k \in ClientRecord /\ w.tx \in Seq(Sent) /\ w.mem \in Memory
    BY DEF Working
  <1>4. /\ cl' = [d \in Clients |-> cl'[d]] /\ rx' = [d \in Clients |-> rx'[d]]
        /\ tx' = [d \in Clients |-> tx'[d]]
    BY <1>1 DEF ServerTypes
  <1>5. ASSUME NEW d \in Clients
        PROVE  ClientTypes(d)'
    <2>1. ClientTypes(d)
      BY DEF ServerTypes
    <2>2. CASE d = c
      BY <1>1, <1>2, <1>3, <2>1, <2>2 DEF ClientTypes, Worked
    <2>3. CASE d # c
      BY <1>1, <1>2, <2>1, <2>3 DEF ClientTypes
    <2>. QED BY <2>2, <2>3
  <1>6. ServerTypes'
    BY <1>1, <1>3, <1>4, <1>5 DEF ServerTypes
  <1>7. Balanced(c) /\ mem'.client = mem.client
    <2>1. W(c).k = cl[c] /\ W(c).mem = mem
      BY WIs
    <2>2. mem.post \in Int /\ w.mem.post \in Int
      BY <1>3 DEF ServerTypes, Memory
    <2>3. /\ mem'.client = mem.client
          /\ mem'.handle - HandleUse(w.k) = mem.handle - HandleUse(cl[c])
          /\ mem'.data - DataUse(w.k) = mem.data - DataUse(cl[c])
          /\ mem'.post - PostUse(w.k) = mem.post - PostUse(cl[c])
          /\ mem'.post <= MaxPosts
      BY <1>1, <2>1 DEF Worked, Accounts
    <2>4. HandleUse(cl[c])' = HandleUse(w.k) /\ DataUse(cl[c])' = DataUse(w.k)
          /\ PostUse(cl[c])' = PostUse(w.k)
      BY <1>2 DEF HandleUse, DataUse, PostUse
    <2>5. mem'.post - PostUse(w.k) \in Int
      BY <1>1, <2>2 DEF PostUse
    <2>. QED BY <2>3, <2>4, <2>5 DEF Balanced
  <1>. QED BY <1>1, <1>2, <1>6, <1>7

LEMMA FreedDoes ==
  ASSUME NEW m \in Memory, NEW n, n = Freed(m)
  PROVE  /\ n \in Memory /\ n.client = m.client - 1 /\ n.handle = m.handle
         /\ n.data = m.data /\ n.post = m.post
  <1>1. PICK x \in Int : x = m.client - 1
    BY DEF Memory
  <1>2. n = [m EXCEPT !.client = x]
    BY <1>1 DEF Freed, Memory
  <1>. QED BY <1>1, <1>2 DEF Memory

LEMMA FinishClosed ==
  ASSUME ServerTypes, NEW c \in Clients, NEW w \in Working, Worked(w, W(c)), ~w.ok,
         NEW rest \in Seq(Unit(c)), Finish(c, w, rest)
  PROVE  /\ ServerTypes' /\ Balanced(c) /\ mem'.client = mem.client - 1
         /\ walk' = Tail(walk) /\ list' = Unlinked /\ conn' = [conn EXCEPT ![c] = "closed"]
         /\ todo' = todo /\ want' = want /\ got' = got
         /\ \A d \in Clients : d # c => cl'[d] = cl[d] /\ rx'[d] = rx[d] /\ tx'[d] = tx[d]
         /\ cl'[c] = NewClient /\ rx'[c] = <<>> /\ tx'[c] = <<>>
  <1>1. /\ walk' = Tail(walk) /\ list' = Unlinked /\ conn' = [conn EXCEPT ![c] = "closed"]
        /\ todo' = todo /\ want' = want /\ got' = got /\ asks' = asks
        /\ mem' = Freed(ClientDelete(w).mem)
        /\ cl' = [cl EXCEPT ![c] = NewClient] /\ tx' = [tx EXCEPT ![c] = <<>>]
        /\ rx' = [rx EXCEPT ![c] = <<>>]
    BY DEF Finish
  <1>2. /\ \A d \in Clients : d # c => cl'[d] = cl[d] /\ rx'[d] = rx[d] /\ tx'[d] = tx[d]
        /\ cl'[c] = NewClient /\ rx'[c] = <<>> /\ tx'[c] = <<>>
    BY <1>1 DEF ServerTypes
  <1>3. PICK v : v = ClientDelete(w)
    OBVIOUS
  <1>4. /\ v \in Working /\ v.k.file = NoFile /\ Accounts(v, w) /\ v.mem.post = w.mem.post
        /\ v.k.post = w.k.post
    <2>1. v = FileClose(w) /\ FileKind(w.k)
      BY <1>3 DEF ClientDelete, Worked
    <2>. QED BY <2>1, FileCloseDoes
  <1>5. v.mem \in Memory
    BY <1>4 DEF Working
  <1>6. PICK m \in Memory : m = v.mem
    BY <1>5
  <1>7. mem' = Freed(m)
    BY <1>1, <1>3, <1>6
  <1>8. /\ mem' \in Memory /\ mem'.client = m.client - 1 /\ mem'.handle = m.handle
        /\ mem'.data = m.data /\ mem'.post = m.post
    BY <1>7, FreedDoes
  <1>9. /\ cl' = [d \in Clients |-> cl'[d]] /\ rx' = [d \in Clients |-> rx'[d]]
        /\ tx' = [d \in Clients |-> tx'[d]]
    BY <1>1 DEF ServerTypes
  <1>10. ASSUME NEW d \in Clients
         PROVE  ClientTypes(d)'
    <2>1. ClientTypes(d)
      BY DEF ServerTypes
    <2>2. CASE d = c
      <3>1. rx'[d] \in Seq(Unit(d)) /\ tx'[d] \in Seq(Sent) /\ Len(tx'[d]) <= TxSize
        <4>1. <<>> \in Seq(Unit(d)) /\ <<>> \in Seq(Sent) /\ Len(<<>>) = 0
          BY EmptySeq
        <4>2. 0 <= TxSize
          BY ServerAssumption
        <4>. QED BY <1>2, <2>2, <4>1, <4>2
      <3>. QED BY <1>1, <1>2, <2>1, <2>2, <3>1, NewClientTyped DEF ClientTypes
    <2>3. CASE d # c
      BY <1>1, <1>2, <2>1, <2>3 DEF ClientTypes
    <2>. QED BY <2>2, <2>3
  <1>11. ServerTypes'
    <2>1. conn' \in [Clients -> {"none", "backlog", "open", "down", "closed"}]
      BY <1>1 DEF ServerTypes
    <2>. QED BY <1>1, <1>8, <1>9, <1>10, <2>1 DEF ServerTypes
  <1>12. Balanced(c) /\ mem'.client = mem.client - 1
    <2>1. W(c).k = cl[c] /\ W(c).mem = mem
      BY WIs
    <2>2. /\ mem.post \in Int /\ mem.client \in Int /\ w.mem.post \in Int
          /\ m.post \in Int /\ m.handle \in Int /\ m.data \in Int
      BY DEF ServerTypes, Memory, Working
    <2>3. Accounts(v, W(c))
      BY <1>4, AccountsAdd DEF Worked
    <2>4. HandleUse(v.k) = 0 /\ DataUse(v.k) = 0 /\ PostUse(v.k) \in {0, 1}
      BY <1>4, NoFileTyped DEF HandleUse, DataUse, PostUse
    <2>5. /\ mem'.client = mem.client - 1
          /\ mem'.handle = mem.handle - HandleUse(cl[c])
          /\ mem'.data = mem.data - DataUse(cl[c])
          /\ mem'.post - PostUse(v.k) = mem.post - PostUse(cl[c])
      BY <1>6, <1>8, <2>1, <2>2, <2>3, <2>4 DEF Accounts
    <2>6. HandleUse(cl[c])' = 0 /\ DataUse(cl[c])' = 0 /\ PostUse(cl[c])' = 0
      BY <1>2, NewClientTyped, NoFileTyped DEF HandleUse, DataUse, PostUse
    <2>7. HandleUse(cl[c]) \in Int /\ DataUse(cl[c]) \in Int /\ PostUse(cl[c]) \in Int
      BY DEF HandleUse, DataUse, PostUse
    <2>8. mem'.post <= MaxPosts
      BY <1>4, <1>6, <1>8 DEF Worked
    <2>9. mem'.handle \in Int /\ mem'.data \in Int /\ mem'.post \in Int
      BY <1>8, <2>2
    <2>. QED BY <2>2, <2>4, <2>5, <2>6, <2>7, <2>8, <2>9 DEF Balanced
  <1>. QED BY <1>1, <1>2, <1>11, <1>12

(* Unlinking the client the cycle has come to, or going on to the next.    *)
LEMMA ListKept ==
  ASSUME ListInv, walk # <<>>, walk' = Tail(walk), list' = list, conn' = conn
  PROVE  ListInv'
  <1>1. walk' \in Seq(Clients) /\ Len(walk') = Len(walk) - 1 /\ Len(walk) \in Nat
        /\ \A i \in 1 .. Len(walk') : walk'[i] = walk[i + 1]
    BY HeadTailProperties DEF ListInv
  <1>2. ASSUME NEW i \in 1 .. Len(walk')
        PROVE  walk'[i] = list'[Len(list') - Len(walk') + i]
    <2>1. PICK j \in 1 .. Len(walk) : j = i + 1
      BY <1>1
    <2>2. Len(list) - Len(walk) + j = Len(list') - Len(walk') + i
      BY <1>1, <2>1 DEF ListInv
    <2>. QED BY <1>1, <2>1, <2>2 DEF ListInv
  <1>. QED BY <1>1, <1>2 DEF ListInv

LEMMA UnlinkedIs ==
  ASSUME ListInv, walk # <<>>
  PROVE  LET at == Len(list) - Len(walk) + 1
         IN  /\ at \in 1 .. Len(list) /\ list[at] = Head(walk)
             /\ Unlinked \in Seq(Clients) /\ Len(Unlinked) = Len(list) - 1
             /\ \A j \in 1 .. Len(list) - 1 :
                  Unlinked[j] = IF j < at THEN list[j] ELSE list[j + 1]
  <1>1. Len(walk) \in Nat /\ Len(walk) > 0 /\ Len(list) \in Nat /\ Head(walk) = walk[1]
    BY HeadTailProperties, EmptySeq DEF ListInv
  <1>2. PICK at \in 1 .. Len(list) : at = Len(list) - Len(walk) + 1
    <2>1. Len(list) - Len(walk) + 1 \in 1 .. Len(list)
      BY <1>1 DEF ListInv
    <2>. QED BY <2>1
  <1>3. list[at] = Head(walk)
    <2>1. 1 \in 1 .. Len(walk)
      BY <1>1
    <2>2. walk[1] = list[Len(list) - Len(walk) + 1]
      BY <2>1 DEF ListInv
    <2>. QED BY <1>1, <1>2, <2>2
  <1>4. Unlinked = RemoveAt(list, at)
    BY <1>2 DEF Unlinked
  <1>5. /\ Unlinked \in Seq(Clients) /\ Len(Unlinked) = Len(list) - 1
        /\ \A j \in 1 .. Len(list) - 1 :
             Unlinked[j] = IF j < at THEN list[j] ELSE list[j + 1]
    <2>1. PICK t : t = Unlinked
      OBVIOUS
    <2>2. list \in Seq(Clients) /\ t = RemoveAt(list, at)
      BY <1>4, <2>1 DEF ListInv
    <2>. QED BY <2>1, <2>2, RemoveAtIs
  <1>. QED BY <1>2, <1>3, <1>5

LEMMA ListUnlinked ==
  ASSUME ListInv, ServerTypes, NEW c \in Clients, Current(c), walk' = Tail(walk),
         list' = Unlinked, conn' = [conn EXCEPT ![c] = "closed"]
  PROVE  ListInv'
  <1>. DEFINE at == Len(list) - Len(walk) + 1
  <1>1. walk # <<>> /\ c = Head(walk)
    BY DEF Current
  <1>2. walk' \in Seq(Clients) /\ Len(walk') = Len(walk) - 1 /\ Len(walk) \in Nat
        /\ \A i \in 1 .. Len(walk') : walk'[i] = walk[i + 1]
    BY <1>1, HeadTailProperties DEF ListInv
  <1>3. /\ at \in 1 .. Len(list) /\ list[at] = c
        /\ list' \in Seq(Clients) /\ Len(list') = Len(list) - 1
        /\ \A j \in 1 .. Len(list) - 1 : list'[j] = IF j < at THEN list[j] ELSE list[j + 1]
    BY <1>1, UnlinkedIs
  <1>4. Len(list) \in Nat /\ Len(walk) <= Len(list)
    BY DEF ListInv
  <1>5. at = Len(list) - Len(walk) + 1
    OBVIOUS
  <1>. HIDE DEF at
  <1>6. ASSUME NEW i \in 1 .. Len(walk')
        PROVE  walk'[i] = list'[Len(list') - Len(walk') + i]
    <2>1. PICK j \in 1 .. Len(walk) : j = i + 1
      BY <1>2
    <2>2. walk'[i] = list[Len(list) - Len(walk) + j]
      BY <1>2, <2>1 DEF ListInv
    <2>3. PICK n \in 1 .. Len(list) - 1 : n = Len(list') - Len(walk') + i
      <3>1. /\ Len(list') - Len(walk') + i = Len(list) - Len(walk) + i
            /\ Len(walk) - 1 >= i
        BY <1>2, <1>3, <1>4
      <3>2. i \in Nat /\ i >= 1
        BY <1>2
      <3>3. Len(list) - Len(walk) + i \in 1 .. Len(list) - 1
        BY ONLY <1>2, <1>4, <3>1, <3>2
      <3>. QED BY <3>1, <3>3
    <2>4. Len(list) - Len(walk) + j = n + 1 /\ ~(n < at)
      BY <1>2, <1>3, <1>4, <1>5, <2>1, <2>3
    <2>5. list'[n] = list[n + 1]
      BY <1>3, <2>4
    <2>. QED BY <2>2, <2>3, <2>4, <2>5
  <1>7. ASSUME NEW i \in 1 .. Len(list'), NEW j \in 1 .. Len(list'), list'[i] = list'[j]
        PROVE  i = j
    <2>1. PICK m \in 1 .. Len(list) : m = (IF i < at THEN i ELSE i + 1) /\ list'[i] = list[m]
      BY <1>3, <1>4
    <2>2. PICK n \in 1 .. Len(list) : n = (IF j < at THEN j ELSE j + 1) /\ list'[j] = list[n]
      BY <1>3, <1>4
    <2>3. m = n
      BY <1>7, <2>1, <2>2 DEF ListInv
    <2>. QED BY <1>3, <1>4, <2>1, <2>2, <2>3
  <1>8. ASSUME NEW d \in Clients
        PROVE  (\E i \in 1 .. Len(list') : list'[i] = d) <=> conn'[d] \in {"open", "down"}
    <2>1. CASE d = c
      <3>1. conn'[d] = "closed"
        BY <2>1 DEF ServerTypes
      <3>2. ASSUME NEW i \in 1 .. Len(list'), list'[i] = d
            PROVE  FALSE
        <4>1. PICK m \in 1 .. Len(list) :
                m = (IF i < at THEN i ELSE i + 1) /\ list'[i] = list[m]
          BY <1>3, <1>4
        <4>2. m = at
          BY <1>3, <2>1, <3>2, <4>1 DEF ListInv
        <4>. QED BY <1>3, <1>4, <4>1, <4>2
      <3>. QED BY <3>1, <3>2
    <2>2. CASE d # c
      <3>1. conn'[d] = conn[d]
        BY <2>2 DEF ServerTypes
      <3>2. (\E i \in 1 .. Len(list') : list'[i] = d) <=> (\E i \in 1 .. Len(list) : list[i] = d)
        <4>1. ASSUME NEW i \in 1 .. Len(list'), list'[i] = d
              PROVE  \E n \in 1 .. Len(list) : list[n] = d
          <5>1. PICK m \in 1 .. Len(list) : list'[i] = list[m]
            BY <1>3, <1>4
          <5>. QED BY <4>1, <5>1
        <4>2. ASSUME NEW n \in 1 .. Len(list), list[n] = d
              PROVE  \E i \in 1 .. Len(list') : list'[i] = d
          <5>1. n # at
            BY <1>3, <2>2, <4>2
          <5>2. CASE n < at
            <6>1. n \in 1 .. Len(list) - 1
              BY <1>3, <1>4, <5>2
            <6>. QED BY <1>3, <4>2, <5>2, <6>1
          <5>3. CASE n > at
            <6>1. PICK i \in 1 .. Len(list) - 1 : i = n - 1 /\ i + 1 = n
              BY <1>3, <1>4, <5>3
            <6>2. ~(i < at)
              BY <1>3, <5>3, <6>1
            <6>. QED BY <1>3, <4>2, <6>1, <6>2
          <5>. QED BY <1>3, <1>4, <5>1, <5>2, <5>3
        <4>. QED BY <4>1, <4>2
      <3>. QED BY <3>1, <3>2 DEF ListInv
    <2>. QED BY <2>1, <2>2
  <1>. QED BY <1>2, <1>3, <1>4, <1>6, <1>7, <1>8 DEF ListInv

LEMMA OwnedChange ==
  ASSUME OwnedInv, ServerTypes, mem' \in Memory, NEW c \in Clients, Balanced(c),
         \A d \in Clients : d # c => cl'[d] = cl[d], mem'.client = Len(list)'
  PROVE  OwnedInv'
  <1>1. PICK A, B : A = WithFile /\ B = WithFile'
    OBVIOUS
  <1>2. PICK C, D : C = WithScript /\ D = WithScript'
    OBVIOUS
  <1>3. PICK E, F : E = WithPost /\ F = WithPost'
    OBVIOUS
  <1>4. /\ A \in SUBSET Clients /\ B \in SUBSET Clients
        /\ \A d \in Clients : d # c => (d \in A <=> d \in B)
        /\ c \in A <=> cl[c].file # NoFile
        /\ c \in B <=> cl'[c].file # NoFile
    BY <1>1 DEF WithFile
  <1>5. /\ C \in SUBSET Clients /\ D \in SUBSET Clients
        /\ \A d \in Clients : d # c => (d \in C <=> d \in D)
        /\ c \in C <=> cl[c].file.kind = "script"
        /\ c \in D <=> cl'[c].file.kind = "script"
    BY <1>2 DEF WithScript
  <1>6. /\ E \in SUBSET Clients /\ F \in SUBSET Clients
        /\ \A d \in Clients : d # c => (d \in E <=> d \in F)
        /\ c \in E <=> cl[c].post
        /\ c \in F <=> cl'[c].post
    BY <1>3 DEF WithPost
  <1>7. /\ HandleUse(cl[c]) = IF c \in A THEN 1 ELSE 0
        /\ HandleUse(cl[c])' = IF c \in B THEN 1 ELSE 0
    BY <1>4 DEF HandleUse
  <1>8. /\ DataUse(cl[c]) = IF c \in C THEN 1 ELSE 0
        /\ DataUse(cl[c])' = IF c \in D THEN 1 ELSE 0
    BY <1>5 DEF DataUse
  <1>9. /\ PostUse(cl[c]) = IF c \in E THEN 1 ELSE 0
        /\ PostUse(cl[c])' = IF c \in F THEN 1 ELSE 0
    BY <1>6 DEF PostUse
  <1>10. /\ mem'.handle \in Int /\ mem'.data \in Int /\ mem'.post \in Int
         /\ mem.handle = Cardinality(A) /\ mem.data = Cardinality(C)
         /\ mem.post >= Cardinality(E) /\ mem.post \in Int
    BY <1>1, <1>2, <1>3 DEF OwnedInv, ServerTypes, Memory
  <1>11. mem'.handle = Cardinality(B)
    BY <1>4, <1>7, <1>10, CountChange DEF Balanced
  <1>12. mem'.data = Cardinality(D)
    BY <1>5, <1>8, <1>10, CountChange DEF Balanced
  <1>13. mem'.post >= Cardinality(F)
    BY <1>6, <1>9, <1>10, CountChange DEF Balanced
  <1>. QED BY <1>1, <1>2, <1>3, <1>11, <1>12, <1>13 DEF OwnedInv, Balanced

-----------------------------------------------------------------------------
(* The answer to a request: what has been sent of it (Reply), and what     *)
(* has arrived and will arrive of the request (rx \o todo).                *)
Begins(str, a) == Len(str) <= Len(a) /\ \A j \in 1 .. Len(str) : str[j] = a[j]
Whole(f) == Full(ResponseCode(f.kind, f.seen), f.url, f.len, f.seen)
Quiet(k) == k.file = NoFile /\ ~k.post
NoHeader(s) == \A i \in 1 .. Len(s) : s[i].at # 0
HeaderAt(s, q, i) ==
  /\ Len(s) = i + q.body
  /\ \A j \in 1 .. Len(s) : IF j < i THEN s[j].at # 0 ELSE s[j].req = q /\ s[j].at = j - i

(* The request has not been read. *)
Unread(str, s, q, k) ==
  Quiet(k) /\ q # None /\ str = <<>> /\ \E i \in 1 .. Len(s) : HeaderAt(s, q, i)
(* A body of which n units are in the POST buffer. *)
Receiving(q, k, n) ==
  /\ k.file = NoFile /\ k.post /\ ~k.replied /\ q.cmd = "POST" /\ k.name = q.url
  /\ Found(q.url, "POST") /\ q.body <= Lookup(q.url, "POST").max
  /\ n \in Nat /\ n < q.body /\ k.left = q.body - n /\ k.buf = Numbers(n)
(* The rest of the body is to come. *)
Posting(str, s, q, k) ==
  /\ q # None /\ str = <<>>
  /\ \E n \in Nat : /\ Receiving(q, k, n) /\ Len(s) = q.body - n
                    /\ \A j \in 1 .. Len(s) : s[j].at = n + j
(* Its answer is being sent; only a script's takes more than one call. *)
Continues(str, q, k) ==
  /\ HasFile(k) /\ str # <<>> /\ k.file.kind = "script" /\ k.file.pos = Len(str) - 1
  /\ Len(str) + k.left = 1 + k.file.len
  /\ Whole(k.file) \in Answers(q) /\ Begins(str, Whole(k.file))
Sending(str, s, q, k) == ~k.post /\ q # None /\ NoHeader(s) /\ Continues(str, q, k)
(* Nothing has been sent, and nothing will be. *)
Silent(str, s, q, k) == Quiet(k) /\ NoHeader(s) /\ str = <<>>
(* It has been answered. *)
Finished(str, q, k) == k.file = NoFile /\ str # <<>> /\ str \in Answers(q)
Done(str, s, q, k) == ~k.post /\ q # None /\ NoHeader(s) /\ Finished(str, q, k)
Peer(str, s, q, k) ==
  \/ Unread(str, s, q, k) \/ Posting(str, s, q, k) \/ Sending(str, s, q, k)
  \/ Silent(str, s, q, k) \/ Done(str, s, q, k)

AnswerBegun(str, q) ==
  IF q = None THEN str = <<>> ELSE \E a \in Answers(q) : Begins(str, a)
Skip(g, t) == g \o (IF g = <<>> /\ EmptyLineFirst(t) THEN Tail(t) ELSE t)
Line(c) == rx[c] \o todo[c]
Gone(c) == conn[c] = "closed" /\ cl[c] = NewClient /\ tx[c] = <<>> /\ AnswerBegun(got[c], want[c])
PeerAt(c) == Gone(c) \/ (conn[c] # "closed" /\ Peer(Reply(c), Line(c), want[c], cl[c]))
PeerInv == \A c \in Clients : PeerAt(c)

IsFull(a, code, url, len, seen) ==
  /\ a \in Seq(Sent) /\ Len(a) = 1 + len /\ a[1] = Header(code, len, seen)
  /\ \A j \in 1 .. len : a[j + 1] = Data(url, j)
LEMMA FullIs ==
  ASSUME NEW code \in Nat, NEW len \in Nat, NEW url \in Urls, NEW seen \in Seq(Nat)
  PROVE  IsFull(Full(code, url, len, seen), code, url, len, seen)
  <1>0. PICK a : a = Full(code, url, len, seen)
    OBVIOUS
  <1>1. PICK x \in Sent : x = Header(code, len, seen)
    BY DEF Header, Sent
  <1>2. PICK b : b = [i \in 1 .. len |-> Data(url, i)]
    OBVIOUS
  <1>3. \A i \in 1 .. len : Data(url, i) \in Sent
    BY DEF Data, Sent
  <1>4. b \in Seq(Sent) /\ Len(b) = len /\ \A i \in 1 .. len : b[i] = Data(url, i)
    <2>1. b \in [1 .. len -> Sent]
      BY <1>2, <1>3
    <2>. QED BY <1>2, <2>1
  <1>5. <<x>> \in Seq(Sent) /\ Len(<<x>>) = 1 /\ <<x>>[1] = x
    OBVIOUS
  <1>6. a = <<x>> \o b
    BY <1>0, <1>1, <1>2 DEF Full
  <1>7. /\ a \in Seq(Sent) /\ Len(a) = 1 + len
        /\ \A i \in 1 .. 1 + len : a[i] = IF i <= 1 THEN <<x>>[i] ELSE b[i - 1]
    BY <1>4, <1>5, <1>6, ConcatProperties
  <1>8. ASSUME NEW j \in 1 .. len
        PROVE  a[j + 1] = Data(url, j)
    <2>1. j + 1 \in 1 .. 1 + len /\ ~(j + 1 <= 1) /\ (j + 1) - 1 = j
      OBVIOUS
    <2>2. a[j + 1] = b[(j + 1) - 1]
      BY <1>7, <2>1
    <2>. QED BY <1>4, <2>1, <2>2
  <1>9. a[1] = x
    BY <1>5, <1>7
  <1>. QED BY <1>0, <1>1, <1>7, <1>8, <1>9 DEF IsFull

LEMMA EmptyIs ==
  ASSUME NEW code \in Nat
  PROVE  Append(<<>>, Header(code, 0, <<>>)) = Empty(code)
  <1>1. PICK len0 \in Nat, seen0 \in Seq(Nat) : len0 = 0 /\ seen0 = <<>>
    BY ErrorHeader
  <1>2. PICK x \in Sent : x = Header(code, len0, seen0)
    BY DEF Header, Sent
  <1>3. PICK url0 \in Urls : url0 = None
    BY DEF Urls
  <1>4. PICK a0 : a0 = Full(code, url0, len0, seen0)
    OBVIOUS
  <1>5. a0 \in Seq(Sent) /\ Len(a0) = 1 /\ a0[1] = x
    <2>1. IsFull(a0, code, url0, len0, seen0)
      BY <1>4, FullIs
    <2>. QED BY <1>1, <1>2, <2>1 DEF IsFull
  <1>6. a0 = <<x>>
    BY <1>5
  <1>7. Append(<<>>, x) = <<x>>
    OBVIOUS
  <1>. QED BY <1>1, <1>2, <1>3, <1>4, <1>6, <1>7 DEF Empty

(* Sending under way: the header is sent, the file open at its position.   *)
Underway(str, q, w) ==
  /\ HasFile(w.k) /\ str # <<>> /\ w.k.file.pos = Len(str) - 1
  /\ Len(str) + w.k.left = 1 + w.k.file.len
  /\ Whole(w.k.file) \in Answers(q) /\ Begins(str, Whole(w.k.file))
  /\ w.k.file.kind # "script" =>
       w.k.file.pos = 0 /\ w.k.left <= FileBuf /\ w.k.left <= Space(w)

LEMMA WholeIs ==
  ASSUME NEW f \in FileRecord, NEW whole, whole = Whole(f)
  PROVE  /\ whole \in Seq(Sent) /\ Len(whole) = 1 + f.len
         /\ whole[1] = Header(ResponseCode(f.kind, f.seen), f.len, f.seen)
         /\ \A j \in 1 .. f.len : whole[j + 1] = Data(f.url, j)
  <1>1. PICK code0 \in Nat : code0 = ResponseCode(f.kind, f.seen)
    BY CodeIs
  <1>2. PICK len0 \in Nat, url0 \in Urls, seen0 \in Seq(Nat) :
          len0 = f.len /\ url0 = f.url /\ seen0 = f.seen
    BY DEF FileRecord
  <1>3. whole = Full(code0, url0, len0, seen0)
    BY <1>1, <1>2 DEF Whole
  <1>4. IsFull(whole, code0, url0, len0, seen0)
    BY <1>3, FullIs
  <1>. QED BY <1>1, <1>2, <1>4 DEF IsFull

(* The units read are those that follow, as long as a file that is not a   *)
(* script's is read in one piece and from the start.                       *)
Follows(r, f, n) ==
  r \in Seq(Sent) /\ Len(r) = n /\ \A i \in 1 .. n : r[i] = Data(f.url, f.pos + i)
LEMMA FreadFollows ==
  ASSUME NEW f \in FileRecord, NEW n \in Nat, NEW r, r = Fread(f, n),
         f.kind # "script" => f.pos = 0 /\ n <= FileBuf
  PROVE  Follows(r, f, n)
  <1>1. r \in Seq(Sent) /\ Len(r) = n
    BY FreadIs
  <1>2. ASSUME NEW i \in 1 .. n
        PROVE  r[i] = Data(f.url, f.pos + i)
    <2>1. r[i] = Data(f.url, IF f.kind = "script" THEN f.pos + i ELSE 1 + ((i - 1) % FileBuf))
      BY DEF Fread
    <2>2. CASE f.kind = "script"
      BY <2>1, <2>2
    <2>3. CASE f.kind # "script"
      <3>1. f.pos = 0 /\ i - 1 \in Nat /\ i - 1 < FileBuf /\ FileBuf \in Nat
        BY <2>3, ServerAssumption
      <3>2. (i - 1) % FileBuf = i - 1
        BY <3>1
      <3>3. 1 + ((i - 1) % FileBuf) = f.pos + i
        BY <3>1, <3>2
      <3>. QED BY <2>1, <2>3, <3>3
    <2>. QED BY <2>2, <2>3
  <1>. QED BY <1>1, <1>2 DEF Follows

HasRoom(f, str, n) ==
  str # <<>> /\ f.pos = Len(str) - 1 /\ Len(str) + n <= 1 + f.len /\ Begins(str, Whole(f))
LEMMA BeginsMore ==
  ASSUME NEW f \in FileRecord, NEW str \in Seq(Sent), NEW n \in Nat, NEW r, Follows(r, f, n),
         HasRoom(f, str, n), NEW t, t = str \o r
  PROVE  t \in Seq(Sent) /\ Len(t) = Len(str) + n /\ Begins(t, Whole(f))
  <1>1. PICK a : a = Whole(f)
    OBVIOUS
  <1>0. r \in Seq(Sent) /\ Len(r) = n /\ \A i \in 1 .. n : r[i] = Data(f.url, f.pos + i)
    BY DEF Follows
  <1>2. /\ Len(a) = 1 + f.len
        /\ \A j \in 1 .. f.len : a[j + 1] = Data(f.url, j)
    BY <1>1, WholeIs
  <1>3. /\ t \in Seq(Sent) /\ Len(t) = Len(str) + n
        /\ \A i \in 1 .. Len(str) + n : t[i] = IF i <= Len(str) THEN str[i] ELSE r[i - Len(str)]
    BY <1>0, ConcatProperties
  <1>4. Len(str) \in Nat /\ f.len \in Nat /\ f.pos \in Nat
    BY DEF FileRecord
  <1>7. f.pos = Len(str) - 1 /\ Len(str) + n <= 1 + f.len
    BY DEF HasRoom
  <1>8. Begins(str, Whole(f))
    BY DEF HasRoom
  <1>5. ASSUME NEW i \in 1 .. Len(t)
        PROVE  t[i] = a[i]
    <2>1. CASE i <= Len(str)
      BY <1>1, <1>3, <1>4, <1>8, <2>1 DEF Begins
    <2>2. CASE i > Len(str)
      <3>0. i - Len(str) \in 1 .. n
        BY <1>3, <1>4, <2>2
      <3>1. PICK j \in 1 .. n : j = i - Len(str)
        BY <3>0
      <3>5. f.pos + j = i - 1 /\ i - 1 \in 1 .. f.len
        BY <1>3, <1>4, <1>7, <2>2, <3>1
      <3>2. PICK m \in 1 .. f.len : m = f.pos + j /\ m + 1 = i
        BY <1>3, <1>4, <3>5
      <3>3. t[i] = r[j]
        BY <1>0, <1>3, <1>4, <2>2, <3>1
      <3>4. a[m + 1] = Data(f.url, m)
        BY <1>2
      <3>. QED BY <1>0, <3>1, <3>2, <3>3, <3>4
    <2>. QED BY <1>4, <2>1, <2>2
  <1>6. Len(t) <= Len(a)
    BY <1>2, <1>3, <1>7
  <1>. QED BY <1>1, <1>3, <1>5, <1>6 DEF Begins

(* What one call sends: the pieces that fit, in order, or all there is.    *)
Advanced(str, q, k) ==
  /\ HasFile(k) /\ str # <<>> /\ Len(str) + k.left = 1 + k.file.len
  /\ Whole(k.file) \in Answers(q) /\ Begins(str, Whole(k.file))
  /\ IF k.file.kind = "script" THEN k.file.pos = Len(str) - 1 ELSE k.left = 0

LEMMA SameFileWhole ==
  ASSUME NEW f, NEW g, SameFile(f, g)
  PROVE  Whole(f) = Whole(g)
  BY DEF SameFile, Whole

LEMMA Regroup ==
  ASSUME NEW x \in Seq(Sent), NEW y \in Seq(Sent), NEW z \in Seq(Sent)
  PROVE  x \o (y \o z) = (x \o y) \o z
  BY ConcatAssociative

LEMMA HeaderFirst ==
  ASSUME NEW code, NEW len, NEW seen
  PROVE  Header(code, len, seen) # EmptyLine
  <1>1. "code" \in DOMAIN Header(code, len, seen)
    BY DEF Header
  <1>2. "code" \notin DOMAIN EmptyLine
    BY DEF EmptyLine, Data
  <1>. QED BY <1>1, <1>2

(* What is sent after something, or does not start with an empty line, is  *)
(* what the peer has more of the reply.                                    *)
LEMMA SkipMore ==
  ASSUME NEW g \in Seq(Sent), NEW t \in Seq(Sent), NEW u \in Seq(Sent),
         Skip(g, t) # <<>> \/ ~EmptyLineFirst(u)
  PROVE  Skip(g, t \o u) = Skip(g, t) \o u
  <1>1. t \o u \in Seq(Sent) /\ <<>> \o t = t /\ <<>> \o u = u /\ <<>> \o (t \o u) = t \o u
    OBVIOUS
  <1>2. CASE g # <<>>
    <2>1. g \o (t \o u) = (g \o t) \o u
      BY Regroup
    <2>. QED BY <1>2, <2>1 DEF Skip
  <1>3. CASE g = <<>> /\ t = <<>>
    <2>1. Skip(g, t) = <<>>
      BY <1>3, <1>1 DEF Skip, EmptyLineFirst
    <2>2. t \o u = u
      BY <1>1, <1>3
    <2>3. Skip(g, u) = u
      BY <1>1, <1>3, <2>1 DEF Skip
    <2>. QED BY <1>1, <2>1, <2>2, <2>3
  <1>4. CASE g = <<>> /\ t # <<>>
    <2>1. Head(t \o u) = Head(t) /\ t \o u # <<>>
      BY <1>4
    <2>2. Tail(t \o u) = Tail(t) \o u
      <3>1. Tail(t) \in Seq(Sent) /\ Len(Tail(t)) = Len(t) - 1
        BY <1>4
      <3>2. Len(Tail(t \o u)) = Len(Tail(t) \o u)
        BY <1>4, <3>1
      <3>3. ASSUME NEW i \in 1 .. Len(Tail(t \o u))
            PROVE  Tail(t \o u)[i] = (Tail(t) \o u)[i]
        BY <1>4, <3>1
      <3>. QED BY <1>1, <2>1, <3>1, <3>2, <3>3, SeqEqual
    <2>3. EmptyLineFirst(t \o u) <=> EmptyLineFirst(t)
      BY <1>4, <2>1 DEF EmptyLineFirst
    <2>4. Tail(t) \in Seq(Sent)
      BY <1>4
    <2>. QED BY <1>1, <1>4, <2>2, <2>3, <2>4 DEF Skip
  <1>. QED BY <1>2, <1>3, <1>4

LEMMA SkipTyped ==
  ASSUME NEW g \in Seq(Sent), NEW t \in Seq(Sent)
  PROVE  Skip(g, t) \in Seq(Sent)
  <1>1. PICK u \in Seq(Sent) : u = IF g = <<>> /\ EmptyLineFirst(t) THEN Tail(t) ELSE t
    <2>1. EmptyLineFirst(t) => Tail(t) \in Seq(Sent)
      BY DEF EmptyLineFirst
    <2>. QED BY <2>1
  <1>2. g \o u \in Seq(Sent)
    BY ConcatProperties
  <1>. QED BY <1>1, <1>2 DEF Skip

(* Nothing of a reply is there: at most an empty line is on its way.       *)
LEMMA NothingSent ==
  ASSUME NEW g \in Seq(Sent), NEW t \in Seq(Sent), Skip(g, t) = <<>>
  PROVE  /\ g = <<>> /\ Len(t) <= 1
         /\ \A u \in Seq(Sent) : ~EmptyLineFirst(u) => Skip(g, t \o u) = u
  <1>1. PICK v \in Seq(Sent) : v = IF g = <<>> /\ EmptyLineFirst(t) THEN Tail(t) ELSE t
    <2>1. EmptyLineFirst(t) => Tail(t) \in Seq(Sent)
      BY DEF EmptyLineFirst
    <2>. QED BY <2>1
  <1>2. g \o v = <<>>
    BY <1>1 DEF Skip
  <1>3. Len(g \o v) = Len(g) + Len(v)
    BY ConcatProperties
  <1>4. Len(g) = 0 /\ Len(v) = 0
    BY <1>2, <1>3
  <1>5. g = <<>> /\ v = <<>>
    BY <1>4
  <1>6. Len(t) <= 1
    <2>1. CASE t = <<>>
      BY <2>1
    <2>2. CASE t # <<>>
      BY <1>1, <1>4, <2>2
    <2>. QED BY <2>1, <2>2
  <1>7. ASSUME NEW u \in Seq(Sent), ~EmptyLineFirst(u)
        PROVE  Skip(g, t \o u) = u
    <2>1. Skip(g, t \o u) = Skip(g, t) \o u
      BY <1>7, SkipMore
    <2>2. <<>> \o u = u
      OBVIOUS
    <2>. QED BY <2>1, <2>2
  <1>. QED BY <1>5, <1>6, <1>7

LEMMA PiecesFollow ==
  ASSUME NEW w \in Working, NEW up \in BOOLEAN, Len(w.tx) <= TxSize, NEW g \in Seq(Sent),
         NEW q, Underway(Skip(g, w.tx), q, w), NEW e, e = SendPieces(w, up), e.ok
  PROVE  Advanced(Skip(g, e.tx), q, e.k)
  <1>1. PICK n : n = Min2(w.k.left, Space(w))
    OBVIOUS
  <1>2. /\ Bounded(n, w) /\ Keeps(e, w)
        /\ n = 0 => e = w
        /\ n > 0 /\ ~up => ~e.ok
        /\ n > 0 /\ up => Sends(e, w, n)
    BY <1>1, SendPiecesDoes
  <1>3. PICK f \in FileRecord, left0 \in Nat : f = w.k.file /\ left0 = w.k.left
    BY DEF Working, ClientRecord
  <1>4. n \in Nat /\ n <= left0 /\ (n = left0 \/ n = Space(w))
    BY <1>2, <1>3 DEF Bounded
  <1>5. PICK str \in Seq(Sent) : str = Skip(g, w.tx)
    BY SkipTyped DEF Working
  <1>6. /\ HasFile(w.k) /\ str # <<>> /\ f.pos = Len(str) - 1
        /\ Len(str) + left0 = 1 + f.len
        /\ Whole(f) \in Answers(q) /\ Begins(str, Whole(f))
        /\ f.kind # "script" => f.pos = 0 /\ left0 <= FileBuf /\ left0 <= Space(w)
    BY <1>3, <1>5 DEF Underway
  <1>7. CASE n = 0
    <2>1. e = w
      BY <1>2, <1>7
    <2>2. f.kind # "script" => left0 = 0
      BY <1>4, <1>6, <1>7, ServerAssumption DEF Space, Working
    <2>. QED BY <1>3, <1>5, <1>6, <2>1, <2>2 DEF Advanced
  <1>8. CASE n > 0
    <2>1. /\ e.k.left = left0 - n /\ e.tx = w.tx \o Fread(f, n)
          /\ e.k.file.pos = Position(f, n) /\ SameFile(e.k.file, f)
      BY <1>2, <1>3, <1>8 DEF Sends, Keeps
    <2>2. PICK r : r = Fread(f, n)
      OBVIOUS
    <2>3. f.kind # "script" => f.pos = 0 /\ n <= FileBuf
      BY <1>4, <1>6, ServerAssumption
    <2>4. Follows(r, f, n)
      BY <1>4, <2>2, <2>3, FreadFollows
    <2>5. PICK t : t = str \o r
      OBVIOUS
    <2>6. HasRoom(f, str, n)
      BY <1>4, <1>6 DEF FileRecord, HasRoom
    <2>7. t \in Seq(Sent) /\ Len(t) = Len(str) + n /\ Begins(t, Whole(f))
      <3>1. t \in Seq(Sent)
        BY <1>4, <2>4, <2>5, <2>6, BeginsMore
      <3>2. Len(t) = Len(str) + n
        BY <1>4, <2>4, <2>5, ConcatProperties DEF Follows
      <3>3. Begins(t, Whole(f))
        BY <1>4, <2>4, <2>5, <2>6, BeginsMore
      <3>. QED BY <3>1, <3>2, <3>3
    <2>8. Skip(g, e.tx) = t
      <3>1. PICK tx0 \in Seq(Sent) : tx0 = w.tx
        BY DEF Working
      <3>2. Skip(g, tx0 \o r) = Skip(g, tx0) \o r
        <4>1. Skip(g, tx0) # <<>> /\ r \in Seq(Sent)
          BY <1>5, <1>6, <2>4, <3>1 DEF Follows
        <4>. QED BY <4>1, SkipMore
      <3>. QED BY <1>5, <2>1, <2>2, <2>5, <3>1, <3>2
    <2>9. Whole(e.k.file) = Whole(f) /\ HasFile(e.k)
      BY <1>3, <1>6, <2>1, SameFileWhole, NoFileTyped DEF HasFile, SameFile
    <2>10. t # <<>> /\ Len(t) + e.k.left = 1 + e.k.file.len
      BY <1>4, <1>6, <2>1, <2>7 DEF SameFile
    <2>11. IF e.k.file.kind = "script" THEN e.k.file.pos = Len(t) - 1 ELSE e.k.left = 0
      <3>1. Position(f, n) = IF f.kind = "script" THEN f.pos + n ELSE f.pos
        BY <1>4, PositionIs
      <3>2. f.kind # "script" => n = left0
        BY <1>4, <1>6
      <3>. QED BY <1>4, <1>6, <2>1, <2>7, <3>1, <3>2 DEF SameFile
    <2>. QED BY <1>6, <2>7, <2>8, <2>9, <2>10, <2>11 DEF Advanced
  <1>. QED BY <1>4, <1>7, <1>8

(* Nothing sent yet, and the file just opened. *)
Fresh(str, q, w) ==
  /\ ~w.k.replied /\ HasFile(w.k) /\ str = <<>>
  /\ w.k.left = w.k.file.len /\ w.k.file.pos = 0 /\ Whole(w.k.file) \in Answers(q)
  /\ w.k.file.kind # "script" => w.k.file.len <= FileBuf /\ w.k.file.len + 1 < TxSize

LEMMA FileHeader ==
  ASSUME NEW w \in Working
  PROVE  \E code \in Nat, len \in Nat, seen \in Seq(Nat) :
           /\ code = ResponseCode(w.k.file.kind, w.k.file.seen)
           /\ len = w.k.left /\ seen = w.k.file.seen
  <1>1. w.k.left \in Nat /\ w.k.file \in FileRecord
    BY DEF Working, ClientRecord
  <1>2. w.k.file.seen \in Seq(Nat)
    BY <1>1 DEF FileRecord
  <1>3. PICK code0 \in Nat : code0 = ResponseCode(w.k.file.kind, w.k.file.seen)
    BY CodeIs
  <1>. QED BY <1>1, <1>2, <1>3

LEMMA HeaderFollows ==
  ASSUME NEW w \in Working, NEW up \in BOOLEAN, Len(w.tx) <= TxSize, NEW g \in Seq(Sent),
         NEW q, Fresh(Skip(g, w.tx), q, w), NEW e,
         e = SendReply(w, up, ResponseCode(w.k.file.kind, w.k.file.seen), w.k.left,
                       w.k.file.seen), e.ok
  PROVE  Underway(Skip(g, e.tx), q, e)
  <1>1. PICK code0 \in Nat, len0 \in Nat, seen0 \in Seq(Nat) :
          /\ code0 = ResponseCode(w.k.file.kind, w.k.file.seen)
          /\ len0 = w.k.left /\ seen0 = w.k.file.seen
    BY FileHeader
  <1>2. e = SendReply(w, up, code0, len0, seen0)
    BY <1>1
  <1>3. /\ e \in Working /\ Replied(e, w) /\ Space(w) > 0
        /\ e.tx = Append(w.tx, Header(code0, len0, seen0))
    <2>1. e \in Working /\ Replied(e, w) /\ HeaderSent(e, w, code0, len0, seen0)
      BY ONLY <1>2, SendReplyDoes, w \in Working, Len(w.tx) <= TxSize
    <2>. QED BY <2>1 DEF HeaderSent
  <1>4. PICK x \in Sent : x = Header(code0, len0, seen0)
    BY DEF Header, Sent
  <1>5. PICK old \in Seq(Sent) : old = w.tx
    BY DEF Working
  <1>6. Skip(g, old) = <<>>
    BY <1>5 DEF Fresh
  <1>8. PICK str \in Seq(Sent) : str = <<x>>
    <2>1. <<x>> \in Seq(Sent)
      OBVIOUS
    <2>. QED BY <2>1
  <1>7. Len(old) <= 1 /\ Skip(g, old \o str) = str
    <2>1. ~EmptyLineFirst(str)
      BY <1>4, <1>8, HeaderFirst DEF EmptyLineFirst
    <2>. QED BY <1>6, <2>1, NothingSent
  <1>9. Skip(g, e.tx) = str /\ Space(e) >= TxSize - 2 /\ Space(e) \in Int
    <2>1. e.tx = Append(old, x)
      BY <1>3, <1>4, <1>5
    <2>2. Append(old, x) = old \o str /\ Len(Append(old, x)) = Len(old) + 1
      BY <1>8
    <2>3. Len(e.tx) <= 2 /\ Len(e.tx) \in Nat
      BY <1>7, <2>1, <2>2
    <2>. QED BY <1>7, <2>1, <2>2, <2>3, ServerAssumption DEF Space
  <1>10. PICK f \in FileRecord : f = w.k.file
    BY DEF Working, ClientRecord
  <1>11. e.k.file = f /\ e.k.left = len0 /\ HasFile(e.k)
    BY <1>1, <1>3, <1>10 DEF Replied, HasFile, Fresh
  <1>12. /\ len0 = f.len /\ f.pos = 0 /\ Whole(f) \in Answers(q) /\ seen0 = f.seen
         /\ f.kind # "script" => f.len <= FileBuf /\ f.len + 1 < TxSize
    BY <1>1, <1>10 DEF Fresh
  <1>13. Begins(str, Whole(f))
    <2>1. PICK whole : whole = Whole(f)
      OBVIOUS
    <2>2. /\ Len(whole) = 1 + f.len
          /\ whole[1] = Header(ResponseCode(f.kind, f.seen), f.len, f.seen)
      BY <2>1, WholeIs
    <2>3. whole[1] = x /\ Len(whole) = 1 + len0
      BY <1>1, <1>4, <1>10, <1>12, <2>2
    <2>4. Len(str) = 1 /\ str[1] = x
      BY <1>8
    <2>. QED BY <2>1, <2>3, <2>4 DEF Begins
  <1>14. str # <<>> /\ Len(str) = 1
    BY <1>8
  <1>15. f.kind # "script" => f.pos = 0 /\ e.k.left <= FileBuf /\ e.k.left <= Space(e)
    <2>1. PICK room \in Int : room = Space(e) /\ room >= TxSize - 2
      BY <1>9
    <2>2. f.kind # "script" => len0 <= room
      BY <1>12, <2>1, ServerAssumption
    <2>. QED BY <1>11, <1>12, <2>1, <2>2
  <1>16. f.pos = Len(str) - 1 /\ Len(str) + e.k.left = 1 + f.len
    BY <1>11, <1>12, <1>14
  <1>. QED BY <1>9, <1>11, <1>12, <1>13, <1>14, <1>15, <1>16 DEF Underway

(* What a call of prvSendFile leaves: more to send, or the whole answer.   *)
Answering(str, q, k) == Continues(str, q, k) \/ Finished(str, q, k)
LEMMA SendFileFollows ==
  ASSUME NEW w \in Working, NEW up \in BOOLEAN, Len(w.tx) <= TxSize, NEW g \in Seq(Sent),
         NEW q, (w.k.replied /\ Underway(Skip(g, w.tx), q, w)) \/ Fresh(Skip(g, w.tx), q, w),
         NEW e, e = SendFile(w, up), e.ok
  PROVE  Answering(Skip(g, e.tx), q, e.k)
  <1>1. PICK r : r = IF w.k.replied THEN w
                     ELSE SendReply(w, up, ResponseCode(w.k.file.kind, w.k.file.seen),
                                    w.k.left, w.k.file.seen)
    OBVIOUS
  <1>2. PICK s : s = IF r.ok THEN SendPieces(r, up) ELSE r
    OBVIOUS
  <1>3. e = IF s.k.left = 0 THEN FileClose(s) ELSE s
    BY <1>1, <1>2 DEF SendFile
  <1>4. r \in Working /\ Len(r.tx) <= TxSize
    <2>1. CASE w.k.replied
      BY <1>1, <2>1
    <2>2. CASE ~w.k.replied
      <3>1. PICK code \in Nat, len \in Nat, seen \in Seq(Nat) :
              /\ code = ResponseCode(w.k.file.kind, w.k.file.seen)
           /\ len = w.k.left /\ seen = w.k.file.seen
        BY FileHeader
      <3>2. r = SendReply(w, up, code, len, seen)
        BY <1>1, <2>2, <3>1
      <3>. QED BY ONLY <3>2, SendReplyDoes, w \in Working, Len(w.tx) <= TxSize
    <2>. QED BY <2>1, <2>2
  <1>5. r.ok => Underway(Skip(g, r.tx), q, r)
    <2>1. CASE w.k.replied
      BY <1>1, <2>1 DEF Fresh
    <2>2. CASE ~w.k.replied
      <3>1. r = SendReply(w, up, ResponseCode(w.k.file.kind, w.k.file.seen), w.k.left,
                          w.k.file.seen)
        BY <1>1, <2>2
      <3>. QED BY <2>2, <3>1, HeaderFollows
    <2>. QED BY <2>1, <2>2
  <1>6. PICK n : n = Min2(r.k.left, Space(r))
    OBVIOUS
  <1>7. r.ok => s \in Working
    <2>1. SendPieces(r, up) \in Working
      BY <1>4, <1>6, SendPiecesDoes DEF Keeps
    <2>. QED BY <1>2, <2>1
  <1>8. s \in Working /\ s.ok /\ r.ok
    <2>1. CASE r.ok
      <3>1. s \in Working
        BY <1>7, <2>1
      <3>2. FileClose(s).ok = s.ok
        BY <3>1 DEF FileClose, Working
      <3>. QED BY <1>3, <2>1, <3>1, <3>2
    <2>2. CASE ~r.ok
      <3>1. s = r
        BY <1>2, <2>2
      <3>2. FileClose(s).ok = s.ok
        BY <1>4, <3>1 DEF FileClose, Working
      <3>. QED BY <1>3, <2>2, <3>1, <3>2
    <2>. QED BY <2>1, <2>2
  <1>9. Advanced(Skip(g, s.tx), q, s.k)
    <2>1. s = SendPieces(r, up)
      BY <1>2, <1>8
    <2>. QED BY <1>4, <1>5, <1>8, <2>1, PiecesFollow
  <1>10. PICK f \in FileRecord, left0 \in Nat : f = s.k.file /\ left0 = s.k.left
    BY <1>8 DEF Working, ClientRecord
  <1>11. PICK str \in Seq(Sent) : str = Skip(g, s.tx)
    BY <1>8, SkipTyped DEF Working
  <1>12. /\ HasFile(s.k) /\ str # <<>> /\ Len(str) + left0 = 1 + f.len
         /\ Whole(f) \in Answers(q) /\ Begins(str, Whole(f))
         /\ IF f.kind = "script" THEN f.pos = Len(str) - 1 ELSE left0 = 0
    BY <1>9, <1>10, <1>11 DEF Advanced
  <1>13. CASE s.k.left = 0
    <2>1. e = FileClose(s)
      BY <1>3, <1>13
    <2>2. e.k.file = NoFile /\ e.tx = s.tx
      BY <1>8, <1>12, <2>1 DEF FileClose, HasFile, Working, ClientRecord
    <2>3. PICK whole : whole = Whole(f)
      OBVIOUS
    <2>4. whole \in Seq(Sent) /\ Len(whole) = 1 + f.len
      BY <2>3, WholeIs
    <2>5. Len(str) = Len(whole) /\ \A j \in 1 .. Len(str) : str[j] = whole[j]
      BY <1>10, <1>12, <1>13, <2>3, <2>4 DEF Begins, FileRecord
    <2>6. str = whole
      BY <2>4, <2>5, SeqEqual
    <2>. QED BY <1>11, <1>12, <2>2, <2>3, <2>6 DEF Answering, Finished
  <1>14. CASE s.k.left # 0
    <2>1. e = s
      BY <1>3, <1>14
    <2>2. f.kind = "script"
      BY <1>10, <1>12, <1>14
    <2>. QED BY <1>10, <1>11, <1>12, <2>1, <2>2 DEF Answering, Continues
  <1>. QED BY <1>13, <1>14

(* What is opened for a request is what answers it. *)
Suits(f, q) ==
  /\ Whole(f) \in Answers(q) /\ f.pos = 0
  /\ f.kind # "script" => f.len <= FileBuf /\ f.len + 1 < TxSize

LEMMA HandleSuits ==
  ASSUME NEW x \in Rom, NEW seen \in Seq(Nat), NEW f, f = Handle(x, seen),
         NEW q, Full(ResponseCode(x.kind, seen), x.url, x.len, seen) \in Answers(q)
  PROVE  Suits(f, q)
  <1>1. /\ f.url = x.url /\ f.kind = x.kind /\ f.len = x.len /\ f.pos = 0 /\ f.seen = seen
    BY DEF Handle
  <1>2. Whole(f) = Full(ResponseCode(x.kind, seen), x.url, x.len, seen)
    BY <1>1 DEF Whole
  <1>3. x.kind # "script" => x.len <= FileBuf /\ x.len + 1 < TxSize
    BY ImageAssumption
  <1>. QED BY <1>1, <1>2, <1>3 DEF Suits

LEMMA GetOpens ==
  ASSUME NEW c \in Clients, NEW q \in Requests[c], q.cmd = "GET",
         NEW o, o = Fopen(q.url, q.fwd, "GET", <<>>)
  PROVE  /\ o.file = NoFile => Answers(q) = {Empty(404)}
         /\ o.file # NoFile /\ o.file.kind = "redirect" => Answers(q) = {Empty(302)}
         /\ o.file # NoFile /\ o.file.kind # "redirect" => Suits(o.file, q)
  <1>1. PICK x : x = Lookup(q.url, "GET")
    OBVIOUS
  <1>2. PICK u : u = IF q.fwd = None THEN q.url ELSE q.fwd
    OBVIOUS
  <1>3. PICK y : y = Lookup(u, "GET")
    OBVIOUS
  <1>4. PICK empty \in Seq(Nat) : empty = <<>>
    BY EmptySeq
  <1>5. CASE ~(Found(q.url, "GET") /\ Found(u, "GET"))
    <2>1. Answers(q) = {Empty(404)}
      BY <1>2, <1>5 DEF Answers
    <2>2. o.file = NoFile
      <3>1. CASE ~Found(q.url, "GET")
        BY <3>1 DEF Fopen
      <3>2. CASE Found(q.url, "GET")
        <4>1. u = q.fwd /\ q.fwd # None /\ ~Found(q.fwd, "GET")
          BY <1>2, <1>5, <3>2
        <4>2. x.kind = "script"
          BY <1>1, <3>2, <4>1, ScriptAssumption
        <4>. QED BY <1>1, <3>2, <4>1, <4>2 DEF Fopen
      <3>. QED BY <3>1, <3>2
    <2>. QED BY <2>1, <2>2
  <1>6. CASE Found(q.url, "GET") /\ Found(u, "GET")
    <2>1. y \in Rom /\ y.url = u
      BY <1>3, <1>6, LookupIs
    <2>2. PICK f : f = Handle(y, empty)
      OBVIOUS
    <2>3. f # NoFile /\ f.kind = y.kind
      BY <2>1, <2>2, HandleIs
    <2>4. o.file = f
      <3>1. CASE q.fwd = None
        BY <1>1, <1>2, <1>3, <1>4, <1>6, <2>2, <3>1 DEF Fopen
      <3>2. CASE q.fwd # None
        <4>1. x.kind = "script"
          BY <1>1, <1>6, <3>2, ScriptAssumption
        <4>. QED BY <1>1, <1>2, <1>3, <1>4, <1>6, <2>2, <3>2, <4>1 DEF Fopen
      <3>. QED BY <3>1, <3>2
    <2>5. x.kind = "redirect" <=> y.kind = "redirect"
      <3>1. CASE q.fwd = None
        BY <1>1, <1>2, <1>3, <3>1
      <3>2. CASE q.fwd # None
        <4>1. x.kind = "script" /\ y.kind = "static"
          BY <1>1, <1>2, <1>3, <1>6, <3>2, ScriptAssumption
        <4>. QED BY <4>1
      <3>. QED BY <3>1, <3>2
    <2>6. Answers(q) = IF x.kind = "redirect" THEN {Empty(302)}
                       ELSE {Full(200, u, y.len, <<>>)}
      BY <1>1, <1>2, <1>3, <1>6 DEF Answers
    <2>7. y.kind # "redirect" => Suits(f, q)
      <3>0. ResponseCode(y.kind, empty) = 200
        BY <1>4, ServerAssumption DEF ResponseCode
      <3>1. y.kind # "redirect" =>
              Full(ResponseCode(y.kind, empty), y.url, y.len, empty) \in Answers(q)
        BY <1>4, <2>1, <2>5, <2>6, <3>0
      <3>. QED BY <2>1, <2>2, <3>1, HandleSuits
    <2>. QED BY <2>3, <2>4, <2>5, <2>6, <2>7
  <1>. QED BY <1>5, <1>6

LEMMA PostOpens ==
  ASSUME NEW c \in Clients, NEW q \in Requests[c], q.cmd = "POST", Found(q.url, "POST"),
         q.body <= Lookup(q.url, "POST").max,
         NEW o, o = Fopen(q.url, None, "POST", Numbers(q.body))
  PROVE  o.file # NoFile /\ Suits(o.file, q)
  <1>1. PICK x \in Rom : x = Lookup(q.url, "POST") /\ x.url = q.url
    BY LookupIs
  <1>2. PICK seen \in Seq(Nat) : seen = Numbers(q.body)
    BY NumbersIs, DataAssumption
  <1>3. PICK f : f = Handle(x, seen)
    OBVIOUS
  <1>4. f # NoFile
    BY <1>3, HandleIs
  <1>5. o.file = f
    BY <1>1, <1>2, <1>3 DEF Fopen
  <1>6. q.fwd = None
    BY ScriptAssumption
  <1>7. ~(q.body > x.max)
    BY <1>1, DataAssumption
  <1>8. Answers(q) = {Refusal(500), Full(ResponseCode(x.kind, seen), q.url, x.len, seen)}
    BY <1>1, <1>2, <1>6, <1>7 DEF Answers, Numbers
  <1>. QED BY <1>1, <1>3, <1>4, <1>5, <1>8, HandleSuits

LEMMA FreshIs ==
  ASSUME NEW w, ~w.k.replied, HasFile(w.k), w.k.left = w.k.file.len, NEW q,
         Suits(w.k.file, q), NEW str, str = <<>>
  PROVE  Fresh(str, q, w)
  BY DEF Fresh, Suits

(* A reply without a body. *)
Says(e, g, a) ==
  IF e.ok THEN Skip(g, e.tx) = a /\ a # <<>> ELSE Skip(g, e.tx) = <<>>
LEMMA ErrorFollows ==
  ASSUME NEW w \in Working, NEW up \in BOOLEAN, Len(w.tx) <= TxSize, NEW g \in Seq(Sent),
         Skip(g, w.tx) = <<>>, NEW code0 \in Nat, NEW e,
         e = SendReply(w, up, code0, 0, <<>>)
  PROVE  e \in Working /\ Replied(e, w) /\ Says(e, g, Empty(code0))
  <1>1. PICK code \in Nat, len \in Nat, seen \in Seq(Nat) :
          code = code0 /\ len = 0 /\ seen = <<>>
    BY ErrorHeader
  <1>2. e = SendReply(w, up, code, len, seen)
    BY <1>1
  <1>3. e \in Working /\ Replied(e, w) /\ HeaderSent(e, w, code, len, seen)
    BY ONLY <1>2, SendReplyDoes, w \in Working, Len(w.tx) <= TxSize
  <1>4. PICK x \in Sent : x = Header(code, len, seen)
    BY DEF Header, Sent
  <1>5. PICK old \in Seq(Sent) : old = w.tx
    BY DEF Working
  <1>7. PICK str \in Seq(Sent) : str = Append(<<>>, x) /\ str # <<>> /\ Append(old, x) = old \o str
                                  /\ str[1] = x
    <2>1. <<x>> \in Seq(Sent) /\ <<x>> = Append(<<>>, x) /\ <<x>> # <<>>
      OBVIOUS
    <2>2. Append(old, x) = old \o <<x>> /\ <<x>>[1] = x
      OBVIOUS
    <2>. QED BY <2>1, <2>2
  <1>6. Skip(g, old \o str) = str
    <2>1. ~EmptyLineFirst(str)
      BY <1>4, <1>7, HeaderFirst DEF EmptyLineFirst
    <2>. QED BY <1>5, <2>1, NothingSent
  <1>8. str = Empty(code0)
    BY <1>1, <1>4, <1>7, EmptyIs
  <1>9. ASSUME e.ok
        PROVE  Skip(g, e.tx) = Empty(code0) /\ Empty(code0) # <<>>
    <2>1. e.tx = Append(old, x)
      BY <1>3, <1>4, <1>5, <1>9 DEF HeaderSent
    <2>. QED BY <1>6, <1>7, <1>8, <2>1
  <1>10. ~e.ok => Skip(g, e.tx) = <<>>
    BY <1>3 DEF HeaderSent
  <1>. QED BY <1>3, <1>9, <1>10 DEF Says

(* A refusal, which finds room enough behind what is there. *)
LEMMA RefusalFollows ==
  ASSUME NEW w \in Working, NEW up \in BOOLEAN, Len(w.tx) <= TxSize, NEW g \in Seq(Sent),
         Skip(g, w.tx) = <<>>, NEW code \in Nat, NEW e, e = SendPostReply(w, up, code)
  PROVE  e \in Working /\ Replied(e, w) /\ Says(e, g, Refusal(code))
  <1>1. e \in Working /\ Replied(e, w) /\ PartSent(e, w, up, code)
    BY SendPostReplyDoes
  <1>2. PICK old \in Seq(Sent) : old = w.tx
    BY DEF Working
  <1>3. PICK all \in Seq(Sent) : all = Refusal(code)
    BY RefusalIs
  <1>4. Len(all) = 3 /\ all[1] = Header(code, 1, <<>>)
    BY <1>3, RefusalIs
  <1>5. all # <<>> /\ ~EmptyLineFirst(all)
    <2>1. Head(all) = all[1] /\ all # <<>>
      BY <1>4
    <2>2. Header(code, 1, <<>>) # EmptyLine
      BY HeaderFirst
    <2>. QED BY <1>4, <2>1, <2>2 DEF EmptyLineFirst
  <1>6. Len(old) <= 1 /\ Skip(g, old \o all) = all
    BY <1>2, <1>5, NothingSent
  <1>7. Space(w) >= 3 /\ Space(w) \in Int
    BY <1>2, <1>6, ServerAssumption, ImageAssumption DEF Space
  <1>8. SubSeq(Refusal(code), 1, Min2(3, Space(w))) = all
    <2>1. Min2(3, Space(w)) = 3
      BY <1>7 DEF Min2
    <2>2. SubSeq(all, 1, 3) = all
      BY <1>4
    <2>. QED BY <1>3, <2>1, <2>2
  <1>9. e.ok <=> up
    BY <1>1, <1>7 DEF PartSent
  <1>10. e.tx = IF up THEN old \o all ELSE old
    BY <1>1, <1>2, <1>8 DEF PartSent
  <1>. QED BY <1>1, <1>2, <1>3, <1>5, <1>6, <1>9, <1>10 DEF Says

LEMMA FileCloseKeeps ==
  ASSUME NEW w \in Working, NEW e, e = FileClose(w)
  PROVE  e.tx = w.tx /\ e.ok = w.ok /\ e.k.file = NoFile /\ e.k.post = w.k.post
  BY DEF FileClose, Working, ClientRecord

(* prvOpenURL answers the request, or has begun to. *)
LEMMA OpenURLFollows ==
  ASSUME NEW w \in Working, NEW up \in BOOLEAN, NEW c \in Clients, NEW q \in Requests[c],
         q.cmd = "GET", Len(w.tx) <= TxSize, w.k.file = NoFile, ~w.k.post,
         NEW g \in Seq(Sent), Skip(g, w.tx) = <<>>, NEW e, e = OpenURL(w, up, q), e.ok
  PROVE  Answering(Skip(g, e.tx), q, e.k) /\ ~e.k.post
  <1>1. PICK o : o = Fopen(q.url, q.fwd, "GET", <<>>)
    OBVIOUS
  <1>2. Opens(o)
    <2>1. q.fwd # None /\ Found(q.fwd, "GET") => Lookup(q.fwd, "GET").kind # "script"
      BY ScriptAssumption
    <2>2. PICK empty \in Seq(Nat) : empty = <<>>
      BY EmptySeq
    <2>3. PICK url, fwd, method : url = q.url /\ fwd = q.fwd /\ method = "GET"
      OBVIOUS
    <2>4. fwd # None /\ Found(fwd, method) => Lookup(fwd, method).kind # "script"
      BY <2>1, <2>3
    <2>5. o = Fopen(url, fwd, method, empty)
      BY <1>1, <2>2, <2>3
    <2>. QED BY ONLY <2>4, <2>5, FopenDoes
  <1>3. PICK x : x = Opened(w, o)
    OBVIOUS
  <1>4. x \in Working /\ OpenedAs(x, w, o.file)
    BY ONLY <1>2, <1>3, OpenedDoes, w \in Working, w.k.file = NoFile
  <1>5. PICK v : v = Unanswered(x)
    OBVIOUS
  <1>6. /\ v \in Working /\ v.k.file = o.file /\ v.k.left = o.file.len /\ v.tx = w.tx
        /\ ~v.k.replied /\ ~v.k.post
    <2>1. x.k \in ClientRecord
      BY <1>4 DEF Working
    <2>2. PICK kNew \in ClientRecord : kNew = [x.k EXCEPT !.replied = FALSE]
      BY <2>1 DEF ClientRecord
    <2>3. v = [x EXCEPT !.k = kNew]
      BY <1>4, <1>5, <2>1, <2>2 DEF Unanswered, Working, ClientRecord
    <2>4. v \in Working /\ v.k = kNew /\ v.tx = x.tx
      BY <1>4, <2>3 DEF Working
    <2>5. kNew.file = x.k.file /\ kNew.left = x.k.left /\ ~kNew.replied /\ SamePost(kNew, x.k)
      BY <2>1, <2>2 DEF ClientRecord, SamePost
    <2>. QED BY <1>4, <2>4, <2>5 DEF OpenedAs, SamePost
  <1>7. /\ o.file = NoFile => Answers(q) = {Empty(404)}
        /\ o.file # NoFile /\ o.file.kind = "redirect" => Answers(q) = {Empty(302)}
        /\ o.file # NoFile /\ o.file.kind # "redirect" => Suits(o.file, q)
    BY <1>1, GetOpens
  <1>8. Len(v.tx) <= TxSize /\ Skip(g, v.tx) = <<>>
    BY <1>6
  <1>9. CASE v.k.file = NoFile
    <2>1. e = SendReply(v, up, 404, 0, <<>>)
      BY <1>1, <1>3, <1>5, <1>9, NoFileTyped DEF OpenURL
    <2>2. PICK code \in Nat : code = 404
      OBVIOUS
    <2>3. e = SendReply(v, up, code, 0, <<>>)
      BY <2>1, <2>2
    <2>4. Replied(e, v) /\ Says(e, g, Empty(code))
      BY <1>6, <1>8, <2>3, ErrorFollows
    <2>. QED BY <1>6, <1>7, <1>9, <2>2, <2>4 DEF Answering, Finished, Replied, SamePost, Says
  <1>10. CASE v.k.file # NoFile /\ v.k.file.kind = "redirect"
    <2>1. PICK s : s = SendReply(v, up, 302, 0, <<>>)
      OBVIOUS
    <2>2. e = FileClose(s)
      BY <1>1, <1>3, <1>5, <1>10, <2>1 DEF OpenURL
    <2>3. PICK code \in Nat : code = 302
      OBVIOUS
    <2>4. s = SendReply(v, up, code, 0, <<>>)
      BY <2>1, <2>3
    <2>5. s \in Working /\ Replied(s, v) /\ Says(s, g, Empty(code))
      BY <1>6, <1>8, <2>4, ErrorFollows
    <2>6. e.tx = s.tx /\ e.ok = s.ok /\ e.k.file = NoFile /\ e.k.post = s.k.post
      BY <2>2, <2>5, FileCloseKeeps
    <2>7. Skip(g, e.tx) = Empty(code) /\ Empty(code) # <<>>
      BY <2>5, <2>6 DEF Says
    <2>8. ~e.k.post
      BY <1>6, <2>5, <2>6 DEF Replied, SamePost
    <2>. QED BY <1>6, <1>7, <1>10, <2>3, <2>6, <2>7, <2>8 DEF Answering, Finished
  <1>11. CASE v.k.file # NoFile /\ v.k.file.kind # "redirect"
    <2>1. e = SendFile(v, up)
      BY <1>1, <1>3, <1>5, <1>11 DEF OpenURL
    <2>2. HasFile(v.k)
      BY <1>2, <1>6, <1>11 DEF HasFile, Opens
    <2>3. Suits(v.k.file, q)
      BY <1>6, <1>7, <1>11
    <2>4. Fresh(Skip(g, v.tx), q, v)
      BY <1>6, <1>8, <2>2, <2>3, FreshIs
    <2>5. Answering(Skip(g, e.tx), q, e.k)
      BY <1>6, <1>8, <2>1, <2>4, SendFileFollows
    <2>6. SamePost(e.k, v.k)
      BY ONLY <1>6, <1>8, <2>1, <2>2, SendFileDoes
    <2>. QED BY <1>6, <2>5, <2>6 DEF SamePost
  <1>. QED BY <1>9, <1>10, <1>11

(* prvHandlePost answers with the script that saw the whole body.          *)
LEMMA HandlePostFollows ==
  ASSUME NEW w \in Working, NEW up \in BOOLEAN, NEW c \in Clients, NEW q \in Requests[c],
         q.cmd = "POST", Found(q.url, "POST"), q.body <= Lookup(q.url, "POST").max,
         Len(w.tx) <= TxSize, w.k.file = NoFile, w.k.post, ~w.k.replied, w.k.name = q.url,
         w.k.buf = Numbers(q.body),
         NEW g \in Seq(Sent), Skip(g, w.tx) = <<>>, NEW e, e = HandlePost(w, up), e.ok
  PROVE  Answering(Skip(g, e.tx), q, e.k) /\ ~e.k.post
  <1>1. PICK o : o = Fopen(q.url, None, "POST", Numbers(q.body))
    OBVIOUS
  <1>2. o.file # NoFile /\ Suits(o.file, q)
    BY <1>1, PostOpens
  <1>3. Opens(o)
    <2>1. PICK url, method : url = q.url /\ method = "POST"
      OBVIOUS
    <2>2. PICK seen \in Seq(Nat) : seen = Numbers(q.body)
      BY NumbersIs, DataAssumption
    <2>3. o = Fopen(url, None, method, seen)
      BY <1>1, <2>1, <2>2
    <2>. QED BY ONLY <2>3, FopenDoes
  <1>4. PICK v : v = Opened(w, o)
    OBVIOUS
  <1>5. v \in Working /\ OpenedAs(v, w, o.file)
    BY ONLY <1>3, <1>4, OpenedDoes, w \in Working, w.k.file = NoFile
  <1>6. /\ v.k.file = o.file /\ v.k.left = o.file.len /\ v.tx = w.tx
        /\ ~v.k.replied /\ v.k.post
    BY <1>5 DEF OpenedAs, SamePost
  <1>7. Len(v.tx) <= TxSize /\ Skip(g, v.tx) = <<>>
    BY <1>6
  <1>8. PICK s : s = SendFile(v, up)
    OBVIOUS
  <1>9. e = PostDone(s)
    BY <1>1, <1>2, <1>4, <1>6, <1>8 DEF HandlePost
  <1>10. HasFile(v.k)
    BY <1>2, <1>3, <1>6 DEF HasFile, Opens
  <1>11. s \in Working /\ SamePost(s.k, v.k)
    BY ONLY <1>5, <1>7, <1>8, <1>10, SendFileDoes
  <1>12. s.k.post
    BY <1>6, <1>11 DEF SamePost
  <1>13. ~e.k.post /\ e.tx = s.tx /\ e.ok = s.ok /\ e.k.file = s.k.file /\ e.k.left = s.k.left
    BY ONLY <1>9, <1>11, <1>12, PostDoneDoes
  <1>14. Fresh(Skip(g, v.tx), q, v)
    BY <1>2, <1>6, <1>7, <1>10, FreshIs
  <1>15. Answering(Skip(g, s.tx), q, s.k)
    BY <1>5, <1>7, <1>8, <1>13, <1>14, SendFileFollows
  <1>. QED BY <1>13, <1>15 DEF Answering, Continues, Finished, HasFile

LEMMA PostErrors ==
  ASSUME NEW c \in Clients, NEW q \in Requests[c], q.cmd = "POST"
  PROVE  /\ ~Found(q.url, "POST") => Refusal(404) \in Answers(q)
         /\ Found(q.url, "POST") => Refusal(500) \in Answers(q)
         /\ Found(q.url, "POST") /\ q.body > Lookup(q.url, "POST").max =>
              Refusal(400) \in Answers(q)
  <1>1. q.fwd = None
    BY ScriptAssumption
  <1>2. CASE ~Found(q.url, "POST")
    BY <1>1, <1>2 DEF Answers
  <1>3. CASE Found(q.url, "POST")
    <2>1. CASE q.body > Lookup(q.url, "POST").max
      <3>1. Answers(q) = {Refusal(400), Refusal(500)}
        BY <1>1, <1>3, <2>1 DEF Answers
      <3>. QED BY <1>3, <3>1
    <2>2. CASE ~(q.body > Lookup(q.url, "POST").max)
      <3>1. Refusal(500) \in Answers(q)
        BY <1>1, <1>3, <2>2 DEF Answers
      <3>. QED BY <1>3, <2>2, <3>1
    <2>. QED BY <2>1, <2>2
  <1>. QED BY <1>2, <1>3

(* An answer, or none where a refused POST met a lost connection. *)
Replying(str, q, k) == ~k.post /\ (Answering(str, q, k) \/ (k.file = NoFile /\ str = <<>>))

(* prvOpenPostUrl receives the body, answers the request or refuses it.    *)
LEMMA OpenPostFollows ==
  ASSUME NEW w \in Working, NEW up \in BOOLEAN, NEW c \in Clients, NEW q \in Requests[c],
         q.cmd = "POST", NEW n \in Nat, n <= q.body, Len(w.tx) <= TxSize,
         w.mem.post <= MaxPosts, w.k.file = NoFile, ~w.k.post, w.k.state = 0,
         NEW g \in Seq(Sent), Skip(g, w.tx) = <<>>, NEW e, e = OpenPost(w, up, q, n), e.ok
  PROVE  (Receiving(q, e.k, n) /\ e.tx = w.tx) \/ Replying(Skip(g, e.tx), q, e.k)
  <1>1. PICK max : max = Lookup(q.url, "POST").max
    OBVIOUS
  <1>2. PICK v : v = PostNamed(w, q)
    OBVIOUS
  <1>3. PICK p : p = PostAllocated(v)
    OBVIOUS
  <1>4. PICK b : b = FirstPart(p, q, n)
    OBVIOUS
  <1>5. /\ v \in Working /\ v.tx = w.tx /\ v.k.file = NoFile /\ ~v.k.post
        /\ v.k.state = 0 /\ v.k.name = q.url /\ ~v.k.replied
    BY ONLY <1>2, PostNamedDoes, w \in Working, w.k.file = NoFile, ~w.k.post, w.k.state = 0
  <1>6. /\ p \in Working /\ p.tx = v.tx /\ p.k.file = NoFile /\ p.k.post
        /\ p.k.state = 0 /\ p.k.name = q.url /\ ~p.k.replied
    BY ONLY <1>3, <1>5, PostAllocatedDoes
  <1>7. /\ b \in Working /\ b.tx = p.tx /\ b.k.file = NoFile /\ b.k.post /\ b.k.state = 0
        /\ b.k.name = q.url /\ ~b.k.replied /\ b.k.left = q.body - n /\ b.k.buf = Numbers(n)
    BY ONLY <1>4, <1>6, FirstPartDoes, n <= q.body
  <1>8. /\ Len(v.tx) <= TxSize /\ Len(p.tx) <= TxSize /\ Len(b.tx) <= TxSize
        /\ Skip(g, v.tx) = <<>> /\ Skip(g, p.tx) = <<>> /\ Skip(g, b.tx) = <<>> /\ b.tx = w.tx
    BY <1>5, <1>6, <1>7
  <1>9. ASSUME NEW code0 \in Nat, e = SendPostReply(v, up, code0),
               Refusal(code0) \in Answers(q)
        PROVE  Replying(Skip(g, e.tx), q, e.k)
    <2>1. Replied(e, v) /\ Says(e, g, Refusal(code0))
      BY <1>5, <1>8, <1>9, RefusalFollows
    <2>2. e.k.file = NoFile /\ ~e.k.post
      BY <1>5, <2>1 DEF Replied, SamePost
    <2>. QED BY <1>9, <2>1, <2>2 DEF Says, Replying, Answering, Finished
  <1>10. CASE ~Found(q.url, "POST")
    <2>1. PICK code0 \in Nat : code0 = 404
      OBVIOUS
    <2>2. e = SendPostReply(v, up, code0)
      BY <1>2, <1>10, <2>1 DEF OpenPost
    <2>3. Refusal(code0) \in Answers(q)
      BY <1>10, <2>1, PostErrors
    <2>. QED BY <1>9, <2>2, <2>3
  <1>11. CASE Found(q.url, "POST") /\ w.mem.post = MaxPosts
    <2>1. PICK code0 \in Nat : code0 = 500
      OBVIOUS
    <2>2. ~(w.mem.post < MaxPosts)
      BY <1>11, ServerAssumption
    <2>3. e = SendPostReply(v, up, code0)
      BY <1>2, <1>11, <2>1, <2>2 DEF OpenPost
    <2>4. Refusal(code0) \in Answers(q)
      BY <1>11, <2>1, PostErrors
    <2>. QED BY <1>9, <2>3, <2>4
  <1>12. CASE Found(q.url, "POST") /\ w.mem.post < MaxPosts /\ q.body > max
    <2>1. w.mem.post # MaxPosts
      BY <1>12, ServerAssumption DEF Working, Memory
    <2>2. PICK s : s = SendPostReply(p, up, 400)
      OBVIOUS
    <2>3. PICK code0 \in Nat : code0 = 400
      OBVIOUS
    <2>4. s = SendPostReply(p, up, code0)
      BY <2>2, <2>3
    <2>5. s \in Working /\ Replied(s, p) /\ Says(s, g, Refusal(code0))
      BY <1>6, <1>8, <2>4, RefusalFollows
    <2>6. PICK x : x = PostClose(s)
      OBVIOUS
    <2>7. PICK yes \in BOOLEAN : yes = TRUE
      OBVIOUS
    <2>8. e = Returns(x, yes)
      BY <1>1, <1>2, <1>3, <1>12, <2>1, <2>2, <2>6, <2>7 DEF OpenPost
    <2>9. FileKind(s.k) /\ (s.k.state = 1 => s.k.post)
      BY <1>6, <2>5, NoFileTyped DEF Replied, SamePost, FileKind
    <2>10. x \in Working /\ ~x.k.post /\ x.k.file = NoFile /\ x.tx = s.tx
      BY ONLY <2>5, <2>6, <2>9, PostCloseDoes
    <2>11. e.k = x.k /\ e.tx = x.tx
      BY ONLY <2>8, <2>10, ReturnsDoes
    <2>12. Refusal(code0) \in Answers(q)
      BY <1>1, <1>12, <2>3, PostErrors
    <2>. QED BY <2>5, <2>10, <2>11, <2>12 DEF Says, Replying, Answering, Finished
  <1>13. CASE /\ Found(q.url, "POST") /\ w.mem.post # MaxPosts
              /\ ~(w.mem.post < MaxPosts /\ q.body > max)
    <2>1. e = IF n < q.body THEN MoreToCome(b) ELSE HandlePost(b, up)
      BY <1>1, <1>2, <1>3, <1>4, <1>13 DEF OpenPost
    <2>2. q.body <= max
      <3>1. w.mem.post < MaxPosts
        BY <1>13, ServerAssumption DEF Working, Memory
      <3>2. Lookup(q.url, "POST") \in Rom
        BY <1>13, LookupIs
      <3>3. max \in Nat /\ q.body \in Nat
        BY <1>1, <3>2, DataAssumption
      <3>. QED BY <1>13, <3>1, <3>3
    <2>3. CASE n < q.body
      <3>1. e = MoreToCome(b)
        BY <2>1, <2>3
      <3>2. /\ e.tx = b.tx /\ e.k.file = b.k.file /\ e.k.left = b.k.left /\ e.k.post = b.k.post
            /\ e.k.name = b.k.name /\ e.k.replied = b.k.replied /\ e.k.buf = b.k.buf
        BY ONLY <1>7, <3>1, MoreToComeDoes
      <3>. QED BY <1>1, <1>7, <1>8, <1>13, <2>2, <2>3, <3>2 DEF Receiving
    <2>4. CASE ~(n < q.body)
      <3>1. e = HandlePost(b, up)
        BY <2>1, <2>4
      <3>2. n = q.body
        BY <2>4, DataAssumption
      <3>3. b.k.buf = Numbers(q.body)
        BY <1>7, <3>2
      <3>4. Answering(Skip(g, e.tx), q, e.k) /\ ~e.k.post
        BY <1>1, <1>7, <1>8, <1>13, <2>2, <3>1, <3>3, HandlePostFollows
      <3>. QED BY <3>4 DEF Replying
    <2>. QED BY <2>3, <2>4
  <1>. QED BY <1>10, <1>11, <1>12, <1>13

(* An answer starts with a header and ends where that says, but for one    *)
(* empty line that may follow.                                             *)
EndsRight(a, n) == Len(a) = 1 + n \/ (Len(a) = 2 + n /\ a[Len(a)] = EmptyLine)
IsReply(a) ==
  /\ a \in Seq(Sent)
  /\ a # <<>> => a[1] # EmptyLine /\ a[1].len \in Nat /\ EndsRight(a, a[1].len)

LEMMA FullReply ==
  ASSUME NEW code \in Nat, NEW len \in Nat, NEW url \in Urls, NEW seen \in Seq(Nat)
  PROVE  IsReply(Full(code, url, len, seen))
  <1>1. PICK a : a = Full(code, url, len, seen)
    OBVIOUS
  <1>2. a \in Seq(Sent) /\ Len(a) = 1 + len /\ a[1] = Header(code, len, seen)
    BY <1>1, FullIs DEF IsFull
  <1>3. a[1].len = len /\ a[1] # EmptyLine
    BY <1>2, HeaderFirst DEF Header
  <1>. QED BY <1>1, <1>2, <1>3 DEF IsReply, EndsRight

LEMMA RefusalReply ==
  ASSUME NEW code \in Nat
  PROVE  IsReply(Refusal(code))
  <1>1. PICK a : a = Refusal(code)
    OBVIOUS
  <1>2. a \in Seq(Sent) /\ Len(a) = 3 /\ a[1] = Header(code, 1, <<>>) /\ a[3] = EmptyLine
    BY <1>1, RefusalIs
  <1>3. a[1].len = 1 /\ a[1] # EmptyLine
    BY <1>2, HeaderFirst DEF Header
  <1>. QED BY <1>1, <1>2, <1>3 DEF IsReply, EndsRight

LEMMA EmptyReply ==
  ASSUME NEW code \in Nat
  PROVE  IsReply(Empty(code))
  <1>1. PICK len \in Nat, seen \in Seq(Nat) : len = 0 /\ seen = <<>>
    BY ErrorHeader
  <1>2. PICK url \in Urls : url = None
    BY DEF Urls
  <1>. QED BY <1>1, <1>2, FullReply DEF Empty

LEMMA AnswersAre ==
  ASSUME NEW c \in Clients, NEW q \in Requests[c]
  PROVE  /\ \E a \in Answers(q) : TRUE
         /\ \A a \in Answers(q) : IsReply(a)
  <1>1. PICK u : u = IF q.fwd = None THEN q.url ELSE q.fwd
    OBVIOUS
  <1>2. CASE q.cmd \notin {"GET", "POST"}
    <2>1. Answers(q) = {<<>>}
      BY <1>2 DEF Answers
    <2>2. PICK empty \in Seq(Sent) : empty = <<>>
      BY EmptySeq
    <2>. QED BY <2>1, <2>2 DEF IsReply
  <1>3. CASE q.cmd \in {"GET", "POST"} /\ ~(Found(q.url, q.cmd) /\ Found(u, q.cmd))
    <2>1. Answers(q) = {Empty(404)} \/ Answers(q) = {Refusal(404)}
      BY <1>1, <1>3, ScriptAssumption DEF Answers
    <2>2. PICK code \in Nat : code = 404
      OBVIOUS
    <2>3. IsReply(Empty(code)) /\ IsReply(Refusal(code))
      BY EmptyReply, RefusalReply
    <2>. QED BY <2>1, <2>2, <2>3
  <1>4. CASE q.cmd = "GET" /\ Found(q.url, "GET") /\ Found(u, "GET")
    <2>1. PICK y \in Rom : y = Lookup(u, "GET") /\ y.url = u
      BY <1>4, LookupIs
    <2>2. Answers(q) = {Empty(302)} \/ Answers(q) = {Full(200, u, y.len, <<>>)}
      BY <1>1, <1>4, <2>1 DEF Answers
    <2>3. PICK code \in Nat, right \in Nat, len \in Nat, url \in Urls, seen \in Seq(Nat) :
            code = 302 /\ right = 200 /\ len = y.len /\ url = u /\ seen = <<>>
      <3>1. y.len \in Nat /\ u \in Urls
        BY <2>1, DataAssumption DEF Urls, Files
      <3>2. PICK empty \in Seq(Nat) : empty = <<>>
        BY EmptySeq
      <3>3. PICK a \in Nat, b \in Nat : a = 302 /\ b = 200
        OBVIOUS
      <3>. QED BY <3>1, <3>2, <3>3
    <2>4. IsReply(Empty(code)) /\ IsReply(Full(right, url, len, seen))
      BY EmptyReply, FullReply
    <2>. QED BY <2>2, <2>3, <2>4
  <1>5. CASE q.cmd = "POST" /\ Found(q.url, "POST") /\ Found(u, "POST")
    <2>1. PICK x \in Rom : x = Lookup(q.url, "POST") /\ x.url = q.url
      BY <1>5, LookupIs
    <2>2. q.fwd = None /\ u = q.url
      BY <1>1, <1>5, ScriptAssumption
    <2>0. PICK right \in Nat : right = ResponseCode(x.kind, Numbers(q.body))
      BY CodeIs
    <2>3. \/ Answers(q) = {Refusal(400), Refusal(500)}
          \/ Answers(q) = {Full(right, u, x.len, Numbers(q.body)), Refusal(500)}
      BY <1>1, <1>5, <2>0, <2>1 DEF Answers, Numbers
    <2>4. PICK code \in Nat, other \in Nat : code = 400 /\ other = 500
      <3>1. 400 \in Nat /\ 500 \in Nat
        OBVIOUS
      <3>. QED BY <3>1
    <2>5. PICK len \in Nat, url \in Urls, seen \in Seq(Nat) :
            len = x.len /\ url = u /\ seen = Numbers(q.body)
      <3>1. x.len \in Nat /\ u \in Urls /\ q.body \in Nat
        BY <2>1, <2>2, DataAssumption DEF Urls, Files
      <3>. QED BY <3>1, NumbersIs
    <2>6. /\ IsReply(Refusal(code)) /\ IsReply(Refusal(other))
          /\ IsReply(Full(right, url, len, seen))
      BY RefusalReply, FullReply
    <2>7. PICK a, b, d : a = Refusal(code) /\ b = Refusal(other) /\ d = Full(right, url, len, seen)
      OBVIOUS
    <2>8. Answers(q) = {a, b} \/ Answers(q) = {d, b}
      BY <2>3, <2>4, <2>5, <2>7
    <2>. QED BY <2>6, <2>7, <2>8
  <1>. QED BY <1>2, <1>3, <1>4, <1>5

LEMMA Joined ==
  ASSUME NEW T, NEW x \in Seq(T), NEW y \in Seq(T), NEW z, z = x \o y
  PROVE  /\ z \in Seq(T) /\ Len(z) = Len(x) + Len(y)
         /\ \A i \in 1 .. Len(x) + Len(y) : z[i] = IF i <= Len(x) THEN x[i] ELSE y[i - Len(x)]
  BY ConcatProperties

LEMMA BeginsEarlier ==
  ASSUME NEW x \in Seq(Sent), NEW y \in Seq(Sent), NEW z, z = x \o y,
         NEW a \in Seq(Sent), Begins(z, a)
  PROVE  Begins(x, a)
  <1>1. Len(z) = Len(x) + Len(y) /\ \A i \in 1 .. Len(x) : z[i] = x[i]
    BY Joined
  <1>2. Len(z) <= Len(a) /\ \A i \in 1 .. Len(z) : z[i] = a[i]
    BY DEF Begins
  <1>. QED BY <1>1, <1>2 DEF Begins

(* Whatever the phase, the peer has the beginning of an answer.            *)
LEMMA PeerBegun ==
  ASSUME NEW c \in Clients, NEW q \in Requests[c] \cup {None}, NEW g \in Seq(Sent),
         NEW x \in Seq(Sent), NEW s, NEW k0 \in ClientRecord, Peer(Skip(g, x), s, q, k0)
  PROVE  AnswerBegun(g, q) /\ AnswerBegun(Skip(g, x), q)
  <1>1. PICK str \in Seq(Sent) : str = Skip(g, x)
    BY SkipTyped
  <1>2. \/ q # None /\ str # <<>> /\ \E a \in Answers(q) : Begins(str, a)
        \/ str = <<>>
    <2>1. CASE Unread(str, s, q, k0) \/ Posting(str, s, q, k0) \/ Silent(str, s, q, k0)
      BY <2>1 DEF Unread, Posting, Silent
    <2>2. CASE Sending(str, s, q, k0)
      BY <2>2 DEF Sending, Continues
    <2>3. CASE Done(str, s, q, k0)
      <3>1. Begins(str, str)
        BY DEF Begins
      <3>. QED BY <2>3, <3>1 DEF Done, Finished
    <2>. QED BY <1>1, <2>1, <2>2, <2>3 DEF Peer
  <1>3. CASE str = <<>>
    <2>1. PICK empty \in Seq(Sent) : empty = <<>>
      BY EmptySeq
    <2>2. g = <<>>
      BY <1>1, <1>3, NothingSent
    <2>3. q # None => \E a \in Answers(q) : Begins(empty, a)
      <3>1. ASSUME q # None
            PROVE  \E a \in Answers(q) : Begins(empty, a)
        <4>1. PICK a \in Answers(q) : a \in Seq(Sent)
          BY <3>1, AnswersAre DEF IsReply
        <4>2. Begins(empty, a)
          BY <2>1, <4>1 DEF Begins
        <4>. QED BY <4>2
      <3>. QED BY <3>1
    <2>. QED BY <1>1, <1>3, <2>1, <2>2, <2>3 DEF AnswerBegun
  <1>4. CASE str # <<>>
    <2>1. PICK a \in Answers(q) : Begins(str, a)
      BY <1>2, <1>4
    <2>2. q # None /\ a \in Seq(Sent)
      BY <1>2, <1>4, AnswersAre DEF IsReply
    <2>3. Begins(g, a)
      <3>1. CASE g = <<>>
        BY <2>2, <3>1 DEF Begins
      <3>2. CASE g # <<>>
        <4>1. str = g \o x
          BY <1>1, <3>2 DEF Skip
        <4>. QED BY ONLY <4>1, <2>1, <2>2, BeginsEarlier, g \in Seq(Sent), x \in Seq(Sent)
      <3>. QED BY <3>1, <3>2
    <2>. QED BY <1>1, <2>1, <2>2, <2>3 DEF AnswerBegun
  <1>. QED BY <1>3, <1>4

-----------------------------------------------------------------------------
(* The peers, at every step of the work function.                          *)
ServerInv == ServerTypes /\ ListInv /\ OwnedInv /\ PeerInv

LEMMA Unchanged ==
  ASSUME NEW d \in Clients, PeerAt(d), conn'[d] = conn[d], cl'[d] = cl[d], rx'[d] = rx[d],
         tx'[d] = tx[d], todo'[d] = todo[d], want'[d] = want[d], got'[d] = got[d]
  PROVE  PeerAt(d)'
  BY DEF PeerAt, Gone, Reply, Skip, Line

LEMMA CurrentIs ==
  ASSUME ServerInv, NEW c \in Clients, Current(c)
  PROVE  /\ walk # <<>> /\ Len(list) >= 1 /\ conn[c] \in {"open", "down"}
         /\ Peer(Reply(c), Line(c), want[c], cl[c])
  <1>1. walk # <<>> /\ walk \in Seq(Clients) /\ Len(walk) <= Len(list) /\ list \in Seq(Clients)
    BY DEF Current, ServerInv, ListInv
  <1>2. Len(walk) \in Nat /\ Len(walk) >= 1 /\ Len(list) \in Nat
    BY <1>1
  <1>3. walk[1] = c /\ walk[1] = list[Len(list) - Len(walk) + 1]
    BY <1>1, <1>2 DEF Current, ServerInv, ListInv
  <1>4. Len(list) - Len(walk) + 1 \in 1 .. Len(list)
    BY <1>1, <1>2
  <1>5. conn[c] \in {"open", "down"}
    BY <1>3, <1>4 DEF ServerInv, ListInv
  <1>6. PeerAt(c) /\ conn[c] # "closed"
    BY <1>5 DEF ServerInv, PeerInv
  <1>. QED BY <1>1, <1>2, <1>5, <1>6 DEF PeerAt, Gone

(* What the task does with the result of a call keeps the invariant.       *)
LEMMA FinishInv ==
  ASSUME ServerInv, NEW c \in Clients, Current(c), NEW w \in Working, Worked(w, W(c)),
         NEW rest \in Seq(Unit(c)), Finish(c, w, rest),
         w.ok => Peer(Skip(got[c], w.tx), rest \o todo[c], want[c], w.k)
  PROVE  ServerInv'
  <1>1. /\ walk # <<>> /\ Len(list) >= 1 /\ conn[c] \in {"open", "down"}
        /\ Peer(Reply(c), Line(c), want[c], cl[c])
    BY CurrentIs
  <1>2. ServerTypes /\ ListInv /\ OwnedInv /\ PeerInv
    BY DEF ServerInv
  <1>3. CASE w.ok
    <2>1. /\ ServerTypes' /\ Balanced(c) /\ mem'.client = mem.client
          /\ walk' = Tail(walk) /\ list' = list /\ conn' = conn /\ todo' = todo
          /\ want' = want /\ got' = got
          /\ \A d \in Clients : d # c => cl'[d] = cl[d] /\ rx'[d] = rx[d] /\ tx'[d] = tx[d]
          /\ cl'[c] = w.k /\ rx'[c] = rest /\ tx'[c] = w.tx
      BY ONLY <1>2, <1>3, FinishKept, Worked(w, W(c)), Finish(c, w, rest)
    <2>2. ListInv'
      BY <1>1, <1>2, <2>1, ListKept
    <2>3. OwnedInv'
      <3>1. mem' \in Memory
        BY <2>1 DEF ServerTypes
      <3>2. mem'.client = Len(list)'
        BY <1>2, <2>1 DEF OwnedInv
      <3>. QED BY <1>2, <2>1, <3>1, <3>2, OwnedChange
    <2>4. ASSUME NEW d \in Clients
          PROVE  PeerAt(d)'
      <3>1. CASE d = c
        <4>1. conn'[d] # "closed"
          BY <1>1, <2>1, <3>1
        <4>2. Peer(Reply(d), Line(d), want[d], cl[d])'
          BY <1>3, <2>1, <3>1 DEF Reply, Skip, Line
        <4>. QED BY <4>1, <4>2 DEF PeerAt
      <3>2. CASE d # c
        BY <1>2, <2>1, <3>2, Unchanged DEF PeerInv
      <3>. QED BY <3>1, <3>2
    <2>. QED BY <2>1, <2>2, <2>3, <2>4 DEF ServerInv, PeerInv
  <1>4. CASE ~w.ok
    <2>1. /\ ServerTypes' /\ Balanced(c) /\ mem'.client = mem.client - 1
          /\ walk' = Tail(walk) /\ list' = Unlinked /\ conn' = [conn EXCEPT ![c] = "closed"]
          /\ todo' = todo /\ want' = want /\ got' = got
          /\ \A d \in Clients : d # c => cl'[d] = cl[d] /\ rx'[d] = rx[d] /\ tx'[d] = tx[d]
          /\ cl'[c] = NewClient /\ rx'[c] = <<>> /\ tx'[c] = <<>>
      BY ONLY <1>2, <1>4, FinishClosed, Worked(w, W(c)), Finish(c, w, rest)
    <2>2. ListInv'
      BY <1>2, <2>1, ListUnlinked
    <2>3. OwnedInv'
      <3>1. mem' \in Memory
        BY <2>1 DEF ServerTypes
      <3>2. Len(Unlinked) = Len(list) - 1
        BY <1>1, <1>2, UnlinkedIs
      <3>3. mem'.client = Len(list)'
        BY <1>2, <2>1, <3>2 DEF OwnedInv
      <3>. QED BY <1>2, <2>1, <3>1, <3>3, OwnedChange
    <2>4. ASSUME NEW d \in Clients
          PROVE  PeerAt(d)'
      <3>1. CASE d = c
        <4>1. conn'[d] = "closed"
          BY <1>2, <2>1, <3>1 DEF ServerTypes
        <4>2. AnswerBegun(got[d], want[d])
          <5>1. PICK g \in Seq(Sent), x \in Seq(Sent), q \in Requests[c] \cup {None},
                     kOld \in ClientRecord :
                  g = got[c] /\ x = tx[c] /\ q = want[c] /\ kOld = cl[c]
            BY <1>2 DEF ServerTypes, ClientTypes
          <5>2. Peer(Skip(g, x), Line(c), q, kOld)
            BY <1>1, <5>1 DEF Reply, Skip
          <5>3. AnswerBegun(g, q)
            BY <5>2, PeerBegun
          <5>. QED BY <3>1, <5>1, <5>3
        <4>3. AnswerBegun(got[d], want[d])'
          BY <2>1, <4>2
        <4>. QED BY <2>1, <3>1, <4>1, <4>3 DEF PeerAt, Gone
      <3>2. CASE d # c
        <4>1. conn'[d] = conn[d]
          BY <1>2, <2>1, <3>2 DEF ServerTypes
        <4>. QED BY <1>2, <2>1, <3>2, <4>1, Unchanged DEF PeerInv
      <3>. QED BY <3>1, <3>2
    <2>. QED BY <2>1, <2>2, <2>3, <2>4 DEF ServerInv, PeerInv
  <1>. QED BY <1>3, <1>4

LEMMA ReplyingPeer ==
  ASSUME NEW str, NEW s, NEW q, NEW k0, q # None, NoHeader(s), Replying(str, q, k0)
  PROVE  Peer(str, s, q, k0)
  BY DEF Peer, Sending, Done, Silent, Quiet, Replying, Answering, Finished

LEMMA CurrentTypes ==
  ASSUME ServerInv, NEW c \in Clients
  PROVE  /\ cl[c] \in ClientRecord /\ FileKind(cl[c]) /\ Phase(cl[c])
         /\ rx[c] \in Seq(Unit(c)) /\ todo[c] \in Seq(Unit(c))
         /\ tx[c] \in Seq(Sent) /\ Len(tx[c]) <= TxSize /\ got[c] \in Seq(Sent)
         /\ want[c] \in Requests[c] \cup {None} /\ mem.post <= MaxPosts /\ mem.post \in Int
         /\ W(c) \in Working /\ W(c).k = cl[c] /\ W(c).tx = tx[c] /\ W(c).mem = mem /\ W(c).ok
         /\ Up(c) \in BOOLEAN
  <1>1. ServerTypes /\ mem.post <= MaxPosts
    BY DEF ServerInv, OwnedInv
  <1>2. ClientTypes(c) /\ mem.post \in Int
    BY <1>1 DEF ServerTypes, Memory
  <1>. QED BY <1>1, <1>2, WIs DEF ClientTypes, Up

LEMMA WorkFileInv ==
  ASSUME ServerInv, NEW c \in Clients, WorkFile(c)
  PROVE  ServerInv'
  <1>1. Current(c) /\ cl[c].file # NoFile
    BY DEF WorkFile
  <1>2. Peer(Reply(c), Line(c), want[c], cl[c])
    BY <1>1, CurrentIs
  <1>3. Sending(Reply(c), Line(c), want[c], cl[c])
    BY <1>1, <1>2 DEF Peer, Unread, Posting, Silent, Done, Finished, Receiving, Quiet
  <1>4. /\ cl[c] \in ClientRecord /\ FileKind(cl[c]) /\ Phase(cl[c]) /\ rx[c] \in Seq(Unit(c))
        /\ tx[c] \in Seq(Sent) /\ Len(tx[c]) <= TxSize /\ got[c] \in Seq(Sent)
        /\ mem.post <= MaxPosts
        /\ W(c) \in Working /\ W(c).k = cl[c] /\ W(c).tx = tx[c] /\ W(c).mem = mem
        /\ Up(c) \in BOOLEAN
    BY CurrentTypes
  <1>5. PICK u \in Working : u = W(c)
    BY <1>4
  <1>6. PICK w : w = SendFile(u, Up(c))
    OBVIOUS
  <1>7. /\ HasFile(u.k) /\ u.k.replied /\ ~u.k.post /\ u.k.state # 1 /\ Len(u.tx) <= TxSize
        /\ u.mem.post <= MaxPosts
    BY <1>1, <1>3, <1>4, <1>5 DEF Sending, Continues, Phase
  <1>8. /\ w \in Working /\ Len(w.tx) <= TxSize /\ Accounts(w, u) /\ SamePost(w.k, u.k)
        /\ FileKind(w.k) /\ w.k.replied /\ (w.k.file # NoFile => w.k.left > 0)
    BY ONLY <1>4, <1>6, <1>7, SendFileDoes
  <1>9. ~w.k.post /\ Phase(w.k)
    BY <1>7, <1>8 DEF SamePost, Phase
  <1>10. Worked(w, u)
    BY <1>7, <1>8, <1>9, WorkedQuietly
  <1>11. ASSUME w.ok
         PROVE  Peer(Skip(got[c], w.tx), rx[c] \o todo[c], want[c], w.k)
    <2>1. PICK g \in Seq(Sent), q \in Requests[c] \cup {None} : g = got[c] /\ q = want[c]
      BY CurrentTypes
    <2>2. Underway(Skip(g, u.tx), q, u)
      BY <1>3, <1>4, <1>5, <2>1 DEF Sending, Continues, Underway, Reply, Skip
    <2>3. Answering(Skip(g, w.tx), q, w.k)
      BY <1>4, <1>6, <1>7, <1>11, <2>2, SendFileFollows
    <2>. QED BY <1>3, <1>9, <2>1, <2>3, ReplyingPeer DEF Sending, Replying, Line
  <1>12. Finish(c, w, rx[c])
    BY <1>5, <1>6 DEF WorkFile
  <1>. QED BY <1>1, <1>4, <1>5, <1>8, <1>10, <1>11, <1>12, FinishInv

LEMMA WorkIdleInv ==
  ASSUME ServerInv, NEW c \in Clients, WorkIdle(c)
  PROVE  ServerInv'
  <1>1. Current(c) /\ rx[c] = <<>>
    BY DEF WorkIdle, Waiting
  <1>2. Peer(Reply(c), Line(c), want[c], cl[c])
    BY <1>1, CurrentIs
  <1>3. /\ FileKind(cl[c]) /\ Phase(cl[c]) /\ rx[c] \in Seq(Unit(c)) /\ Len(tx[c]) <= TxSize
        /\ mem.post <= MaxPosts
        /\ W(c) \in Working /\ W(c).k = cl[c] /\ W(c).tx = tx[c] /\ W(c).mem = mem
    BY CurrentTypes
  <1>4. PICK b \in BOOLEAN : b = Received(c, 0)
    BY DEF Received, Up
  <1>5. PICK w : w = Returns(W(c), b)
    OBVIOUS
  <1>6. w \in Working /\ w.k = cl[c] /\ w.tx = tx[c] /\ w.mem = mem
    BY <1>3, <1>5, ReturnsDoes
  <1>7. Worked(w, W(c))
    BY <1>3, <1>6, SameAccounts DEF Worked
  <1>8. Peer(Skip(got[c], w.tx), rx[c] \o todo[c], want[c], w.k)
    BY <1>2, <1>6 DEF Reply, Skip, Line
  <1>9. Finish(c, w, rx[c])
    BY <1>1, <1>4, <1>5 DEF WorkIdle
  <1>. QED BY <1>1, <1>3, <1>6, <1>7, <1>8, <1>9, FinishInv

LEMMA NumbersJoin ==
  ASSUME NEW c \in Clients, NEW n \in Nat, NEW units \in Seq(Unit(c)),
         \A j \in 1 .. Len(units) : units[j].at = n + j
  PROVE  Numbers(n) \o Positions(units) = Numbers(n + Len(units))
  <1>1. PICK a \in Seq(Nat) : a = Numbers(n) /\ Len(a) = n
    BY NumbersIs
  <1>2. PICK b \in Seq(Nat) : b = Positions(units) /\ Len(b) = Len(units)
    BY PositionsIs
  <1>3. PICK m \in Nat : m = n + Len(units)
    OBVIOUS
  <1>4. PICK d \in Seq(Nat) : d = Numbers(m) /\ Len(d) = m
    BY NumbersIs
  <1>5. PICK s : s = a \o b
    OBVIOUS
  <1>6. /\ s \in Seq(Nat) /\ Len(s) = n + Len(units)
        /\ \A i \in 1 .. n + Len(units) : s[i] = IF i <= n THEN a[i] ELSE b[i - n]
    <2>1. /\ s \in Seq(Nat) /\ Len(s) = Len(a) + Len(b)
          /\ \A i \in 1 .. Len(a) + Len(b) : s[i] = IF i <= Len(a) THEN a[i] ELSE b[i - Len(a)]
      BY ONLY <1>5, Joined
    <2>. QED BY <1>1, <1>2, <2>1
  <1>7. ASSUME NEW i \in 1 .. Len(s)
        PROVE  s[i] = d[i]
    <2>1. d[i] = i
      BY <1>3, <1>4, <1>6 DEF Numbers
    <2>2. CASE i <= n
      <3>1. a[i] = i
        BY <1>1, <2>2 DEF Numbers
      <3>. QED BY <1>3, <1>6, <2>1, <2>2, <3>1
    <2>3. CASE ~(i <= n)
      <3>1. i - n \in 1 .. Len(units)
        BY <1>6, <2>3
      <3>2. PICK j \in 1 .. Len(units) : j = i - n
        BY <3>1
      <3>3. b[j] = n + j
        BY <1>2 DEF Positions
      <3>. QED BY <1>6, <2>1, <2>3, <3>2, <3>3
    <2>. QED BY <2>2, <2>3
  <1>8. s = d
    BY <1>3, <1>4, <1>6, <1>7, SeqEqual
  <1>. QED BY <1>1, <1>2, <1>3, <1>4, <1>5, <1>8

LEMMA WorkPostInv ==
  ASSUME ServerInv, NEW c \in Clients, WorkPost(c)
  PROVE  ServerInv'
  <1>1. Current(c) /\ cl[c].file = NoFile /\ cl[c].post
    BY DEF WorkPost
  <1>2. Peer(Reply(c), Line(c), want[c], cl[c])
    BY <1>1, CurrentIs
  <1>3. Posting(Reply(c), Line(c), want[c], cl[c])
    BY <1>1, <1>2 DEF Peer, Unread, Sending, Silent, Done, Quiet
  <1>4. /\ cl[c] \in ClientRecord /\ FileKind(cl[c]) /\ Phase(cl[c])
        /\ rx[c] \in Seq(Unit(c)) /\ todo[c] \in Seq(Unit(c))
        /\ tx[c] \in Seq(Sent) /\ Len(tx[c]) <= TxSize /\ got[c] \in Seq(Sent)
        /\ want[c] \in Requests[c] \cup {None} /\ mem.post <= MaxPosts
        /\ W(c) \in Working /\ W(c).k = cl[c] /\ W(c).tx = tx[c] /\ W(c).mem = mem
        /\ Up(c) \in BOOLEAN
    BY CurrentTypes
  <1>5. PICK q \in Requests[c], g \in Seq(Sent), x \in Seq(Sent), a \in Seq(Unit(c)),
             b \in Seq(Unit(c)), u \in Working :
          /\ q = want[c] /\ g = got[c] /\ x = tx[c] /\ a = rx[c] /\ b = todo[c] /\ u = W(c)
    BY <1>3, <1>4 DEF Posting
  <1>6. PICK s : s = a \o b
    OBVIOUS
  <1>7. /\ s \in Seq(Unit(c)) /\ Len(s) = Len(a) + Len(b)
        /\ \A i \in 1 .. Len(a) + Len(b) : s[i] = IF i <= Len(a) THEN a[i] ELSE b[i - Len(a)]
    BY <1>6, Joined
  <1>8. Skip(g, x) = <<>> /\ q # None
    BY <1>3, <1>5 DEF Posting, Reply, Skip
  <1>9. PICK n \in Nat : /\ Receiving(q, u.k, n) /\ Len(s) = q.body - n
                         /\ \A j \in 1 .. Len(s) : s[j].at = n + j
    BY <1>3, <1>4, <1>5, <1>6 DEF Posting, Line
  <1>10. /\ u.k.file = NoFile /\ u.k.post /\ ~u.k.replied /\ q.cmd = "POST" /\ u.k.name = q.url
         /\ Found(q.url, "POST") /\ q.body <= Lookup(q.url, "POST").max
         /\ n < q.body /\ u.k.left = q.body - n /\ u.k.buf = Numbers(n)
    BY <1>9 DEF Receiving
  <1>11. Len(a) \in Nat /\ Len(b) \in Nat /\ q.body \in Nat /\ Len(a) + Len(b) = q.body - n
    BY <1>7, <1>9, DataAssumption
  <1>24. PICK body \in Nat, la \in Nat, lb \in Nat :
           q.body = body /\ Len(a) = la /\ Len(b) = lb
    BY <1>11
  <1>25. body = n + (la + lb) /\ la + lb > 0
    BY <1>10, <1>11, <1>24
  <1>12. Min2(cl[c].left, Len(rx[c])) = Len(a)
    <2>1. cl[c].left = la + lb /\ Len(rx[c]) = la
      <3>1. cl[c].left = body - n
        BY <1>4, <1>5, <1>10, <1>24
      <3>. QED BY <1>5, <1>24, <1>25, <3>1
    <2>2. Min2(la + lb, la) = la
      BY DEF Min2
    <2>. QED BY <1>24, <2>1, <2>2
  <1>13. /\ SubSeq(a, 1, Len(a)) = a
         /\ SubSeq(a, Len(a) + 1, Len(a)) = <<>>
    OBVIOUS
  <1>14. PICK e : e = GetBody(u, a)
    OBVIOUS
  <1>15. /\ e \in Working /\ Accounts(e, u) /\ e.tx = u.tx /\ e.ok = u.ok
         /\ e.k.file = u.k.file /\ e.k.left = u.k.left - Len(a) /\ e.k.post = u.k.post
         /\ e.k.state = u.k.state /\ e.mem = u.mem
         /\ e.k.name = u.k.name /\ e.k.replied = u.k.replied
         /\ e.k.buf = u.k.buf \o Positions(a)
    <2>1. Len(a) <= u.k.left
      BY <1>10, <1>11
    <2>. QED BY <1>14, <2>1, GetBodyDoes
  <1>26. e.k.left = lb
    <2>1. u.k.left = la + lb
      BY <1>4, <1>5, <1>10, <1>24, <1>25
    <2>2. e.k.left = la + lb - la
      BY <1>15, <1>24, <2>1
    <2>. QED BY <2>2
  <1>27. Len(s) = la + lb
    BY <1>7, <1>24
  <1>16. e.k.buf = Numbers(n + Len(a))
    <2>1. ASSUME NEW j \in 1 .. Len(a)
          PROVE  a[j].at = n + j
      <3>1. PICK l \in 1 .. Len(s) : l = j
        BY <1>24, <1>27
      <3>2. s[l] = a[j]
        BY <1>7, <1>24, <1>27, <3>1
      <3>3. s[l].at = n + l
        BY <1>9
      <3>. QED BY <3>1, <3>2, <3>3
    <2>2. Numbers(n) \o Positions(a) = Numbers(n + Len(a))
      BY <2>1, NumbersJoin
    <2>. QED BY <1>10, <1>15, <2>2
  <1>17. PICK empty \in Seq(Unit(c)) : empty = <<>> /\ empty \o b = b
    BY EmptySeq, ConcatEmptySeq
  <1>18. PICK yes \in BOOLEAN : yes = Received(c, Len(a))
    BY DEF Received, Up
  <1>19. PICK w : w = IF e.k.left = 0 THEN HandlePost(e, Up(c)) ELSE Returns(e, yes)
    OBVIOUS
  <1>20. Finish(c, w, empty)
    BY <1>5, <1>12, <1>13, <1>14, <1>17, <1>18, <1>19 DEF WorkPost
  <1>21. Len(e.tx) <= TxSize /\ e.mem.post <= MaxPosts /\ Skip(g, e.tx) = <<>>
    BY <1>4, <1>5, <1>8, <1>15
  <1>22. CASE e.k.left = 0
    <2>1. w = HandlePost(e, Up(c))
      BY <1>19, <1>22
    <2>2. e.k.file = NoFile /\ e.k.post /\ ~e.k.replied /\ e.k.name = q.url
      BY <1>10, <1>15
    <2>3. Worked(w, e)
      BY ONLY <1>4, <1>15, <1>21, <2>1, <2>2, HandlePostDoes
    <2>4. Worked(w, u) /\ w \in Working
      BY <1>15, <2>3, AccountsAdd DEF Worked
    <2>5. n + Len(a) = q.body /\ Len(b) = 0
      <3>1. lb = 0
        BY <1>22, <1>26
      <3>2. body = n + la
        BY <1>25, <3>1
      <3>. QED BY <1>24, <3>1, <3>2
    <2>6. e.k.buf = Numbers(q.body)
      BY <1>16, <2>5
    <2>7. w.ok => Answering(Skip(g, w.tx), q, w.k) /\ ~w.k.post
      BY <1>4, <1>10, <1>15, <1>21, <2>1, <2>2, <2>6, HandlePostFollows
    <2>8. NoHeader(b)
      BY <2>5 DEF NoHeader
    <2>9. w.ok => Peer(Skip(g, w.tx), b, q, w.k)
      BY <1>8, <2>7, <2>8, ReplyingPeer DEF Replying
    <2>. QED BY <1>1, <1>5, <1>17, <1>20, <2>4, <2>9, FinishInv
  <1>23. CASE e.k.left # 0
    <2>1. w = Returns(e, yes)
      BY <1>19, <1>23
    <2>2. w \in Working /\ w.k = e.k /\ w.tx = e.tx /\ w.mem = e.mem
      BY <1>15, <2>1, ReturnsDoes
    <2>3. e.k.left > 0 /\ n + Len(a) < q.body
      <3>1. lb > 0
        BY <1>23, <1>26
      <3>2. n + la < body
        BY <1>25, <3>1
      <3>. QED BY <1>24, <1>26, <3>1, <3>2
    <2>4. FileKind(e.k) /\ Phase(e.k)
      BY <1>4, <1>5, <1>10, <1>15, <2>3, NoFileTyped DEF FileKind, Phase
    <2>5. Worked(w, u)
      BY <1>15, <1>21, <2>2, <2>4, AccountsAdd, SameAccounts DEF Worked
    <2>6. PICK m \in Nat : m = n + Len(a)
      BY <1>11
    <2>7. Receiving(q, w.k, m)
      <3>1. w.k.left = q.body - m
        <4>1. m = n + la
          BY <1>24, <2>6
        <4>2. lb = body - m
          BY <1>25, <4>1
        <4>. QED BY <1>24, <1>26, <2>2, <4>2
      <3>2. w.k.buf = Numbers(m) /\ m < q.body
        BY <1>16, <2>2, <2>3, <2>6
      <3>. QED BY <1>10, <1>15, <2>2, <3>1, <3>2 DEF Receiving
    <2>8. Len(b) = q.body - m
      <3>1. m = n + la
        BY <1>24, <2>6
      <3>2. lb = body - m
        BY <1>25, <3>1
      <3>. QED BY <1>24, <3>2
    <2>9. ASSUME NEW j \in 1 .. Len(b)
          PROVE  b[j].at = m + j
      <3>1. Len(a) + j \in 1 .. Len(a) + Len(b)
        BY <1>11
      <3>2. PICK i \in 1 .. Len(a) + Len(b) : i = Len(a) + j
        BY <3>1
      <3>3. s[i] = b[j]
        <4>1. ~(i <= Len(a)) /\ i - Len(a) = j
          BY <1>24, <3>2
        <4>. QED BY <1>7, <4>1
      <3>4. PICK l \in 1 .. Len(s) : l = i
        BY <1>7
      <3>5. s[l].at = n + l
        BY <1>9
      <3>6. n + i = m + j
        BY <1>24, <2>6, <3>2
      <3>. QED BY <3>3, <3>4, <3>5, <3>6
    <2>10. Posting(Skip(g, w.tx), b, q, w.k)
      BY <1>8, <1>21, <2>2, <2>7, <2>8, <2>9 DEF Posting
    <2>. QED BY <1>1, <1>5, <1>17, <1>20, <2>2, <2>5, <2>10, FinishInv DEF Peer
  <1>. QED BY <1>22, <1>23

(* What a waiting client finds at the start of what has arrived.           *)
Read(str, a, b, q, k) ==
  /\ a[1].at # 0 => Peer(str, b, q, k)
  /\ a[1].at = 0 => /\ q # None /\ str = <<>> /\ NoHeader(b) /\ a[1].req = q
                    /\ Len(a) + Len(b) = 1 + q.body
                    /\ \A j \in 1 .. Len(b) : b[j].at = Len(a) - 1 + j
LEMMA HeaderRead ==
  ASSUME NEW c \in Clients, NEW q \in Requests[c] \cup {None}, NEW a \in Seq(Unit(c)),
         NEW b \in Seq(Unit(c)), NEW s, s = a \o b, a # <<>>, NEW str, NEW k0,
         Peer(str, s, q, k0), k0.file = NoFile, ~k0.post
  PROVE  Read(str, a, b, q, k0)
  <1>1. PICK la \in Nat, lb \in Nat : Len(a) = la /\ Len(b) = lb
    OBVIOUS
  <1>2. /\ Len(s) = la + lb
        /\ \A i \in 1 .. la + lb : s[i] = IF i <= la THEN a[i] ELSE b[i - la]
    <2>1. /\ Len(s) = Len(a) + Len(b)
          /\ \A i \in 1 .. Len(a) + Len(b) : s[i] = IF i <= Len(a) THEN a[i] ELSE b[i - Len(a)]
      BY Joined
    <2>. QED BY <1>1, <2>1
  <1>3. la >= 1
    BY <1>1
  <1>4. s[1] = a[1] /\ 1 \in 1 .. Len(s)
    BY <1>2, <1>3
  <1>5. ASSUME NEW j \in 1 .. lb
        PROVE  la + j \in 1 .. Len(s) /\ b[j] = s[la + j]
    <2>1. PICK i \in 1 .. la + lb : i = la + j
      BY <1>3
    <2>2. ~(i <= la) /\ i - la = j
      BY <1>3, <2>1
    <2>. QED BY <1>2, <2>1, <2>2
  <1>6. NoHeader(s) => NoHeader(b) /\ a[1].at # 0
    BY <1>1, <1>4, <1>5 DEF NoHeader
  <1>7. CASE NoHeader(s)
    <2>1. Silent(str, s, q, k0) \/ Done(str, s, q, k0) \/ Unread(str, s, q, k0)
      BY DEF Peer, Posting, Sending, Continues, HasFile, Receiving
    <2>2. CASE Silent(str, s, q, k0) \/ Done(str, s, q, k0)
      BY <1>6, <1>7, <2>2 DEF Peer, Silent, Done, Read
    <2>3. CASE Unread(str, s, q, k0)
      BY <1>6, <1>7, <2>3 DEF Peer, Silent, Unread, Read
    <2>. QED BY <2>1, <2>2, <2>3
  <1>8. CASE ~NoHeader(s)
    <2>1. Unread(str, s, q, k0)
      BY <1>8 DEF Peer, Posting, Sending, Silent, Done, Continues, HasFile, Receiving
    <2>2. PICK i \in 1 .. Len(s) : HeaderAt(s, q, i)
      BY <2>1 DEF Unread
    <2>3. q # None /\ str = <<>> /\ Quiet(k0)
      BY <2>1 DEF Unread
    <2>4. PICK body \in Nat : q.body = body
      BY <2>3, DataAssumption
    <2>5. /\ la + lb = i + body
          /\ \A j \in 1 .. la + lb : IF j < i THEN s[j].at # 0 ELSE s[j].req = q /\ s[j].at = j - i
      BY <1>2, <2>2, <2>4 DEF HeaderAt
    <2>6. i \in Nat /\ i >= 1 /\ i <= la + lb
      BY <1>2
    <2>7. CASE i = 1
      <3>1. a[1].at = 0 /\ a[1].req = q
        <4>1. 1 \in 1 .. la + lb /\ ~(1 < i) /\ 1 - i = 0
          BY <1>2, <1>4, <2>7
        <4>. QED BY <1>4, <2>5, <4>1
      <3>2. ASSUME NEW j \in 1 .. lb
            PROVE  b[j].at = la - 1 + j
        <4>1. PICK l \in 1 .. la + lb : l = la + j
          BY <1>2, <1>5
        <4>4. ~(l < i)
          BY <2>7
        <4>2. s[l].at = l - i
          BY <2>5, <4>4
        <4>3. l - i = la - 1 + j
          BY <2>7, <4>1
        <4>. QED BY <1>5, <4>1, <4>2, <4>3
      <3>3. NoHeader(b)
        BY <1>1, <1>3, <3>2 DEF NoHeader
      <3>4. Len(a) + Len(b) = 1 + q.body
        BY <1>1, <2>4, <2>5, <2>7
      <3>. QED BY <1>1, <2>3, <3>1, <3>2, <3>3, <3>4 DEF Read
    <2>8. CASE i > 1 /\ i <= la
      <3>1. a[1].at # 0
        <4>1. 1 \in 1 .. la + lb /\ 1 < i
          BY <1>2, <1>4, <2>8
        <4>. QED BY <1>4, <2>5, <4>1
      <3>2. ASSUME NEW j \in 1 .. lb
            PROVE  b[j].at # 0
        <4>1. PICK l \in 1 .. la + lb : l = la + j
          BY <1>2, <1>5
        <4>2. ~(l < i) /\ l - i # 0
          BY <2>6, <2>8, <4>1
        <4>3. s[l].at = l - i
          BY <2>5, <4>2
        <4>. QED BY <1>5, <4>1, <4>2, <4>3
      <3>3. NoHeader(b)
        BY <1>1, <3>2 DEF NoHeader
      <3>. QED BY <2>3, <3>1, <3>3 DEF Peer, Silent, Read
    <2>9. CASE i > la
      <3>1. a[1].at # 0
        <4>1. 1 \in 1 .. la + lb /\ 1 < i
          BY <1>2, <1>3, <1>4, <2>6, <2>9
        <4>. QED BY <1>4, <2>5, <4>1
      <3>2. PICK m \in 1 .. lb : m + la = i
        <4>1. i - la \in 1 .. lb /\ (i - la) + la = i
          BY <2>6, <2>9
        <4>. QED BY <4>1
      <3>3. lb = m + body
        <4>1. la + lb = (m + la) + body
          BY <2>5, <3>2
        <4>2. m \in Nat
          OBVIOUS
        <4>. QED BY <4>1, <4>2
      <3>4. ASSUME NEW j \in 1 .. lb
            PROVE  IF j < m THEN b[j].at # 0 ELSE b[j].req = q /\ b[j].at = j - m
        <4>1. PICK l \in 1 .. la + lb : l = la + j
          BY <1>2, <1>5
        <4>2. b[j] = s[l]
          BY <1>5, <4>1
        <4>3. (l < i <=> j < m) /\ l - i = j - m
          BY <3>2, <4>1
        <4>4. IF l < i THEN s[l].at # 0 ELSE s[l].req = q /\ s[l].at = l - i
          BY <2>5
        <4>. QED BY <4>2, <4>3, <4>4
      <3>5. HeaderAt(b, q, m)
        BY <1>1, <2>4, <3>3, <3>4 DEF HeaderAt
      <3>6. Unread(str, b, q, k0)
        BY <1>1, <2>3, <3>5 DEF Unread
      <3>. QED BY <3>1, <3>6 DEF Peer, Read
    <2>. QED BY <2>6, <2>7, <2>8, <2>9
  <1>. QED BY <1>7, <1>8

LEMMA WorkCommandInv ==
  ASSUME ServerInv, NEW c \in Clients, WorkCommand(c)
  PROVE  ServerInv'
  <1>1. Current(c) /\ cl[c].file = NoFile /\ ~cl[c].post /\ rx[c] # <<>>
    BY DEF WorkCommand, Waiting
  <1>2. Peer(Reply(c), Line(c), want[c], cl[c])
    BY <1>1, CurrentIs
  <1>3. /\ cl[c] \in ClientRecord /\ FileKind(cl[c]) /\ Phase(cl[c])
        /\ rx[c] \in Seq(Unit(c)) /\ todo[c] \in Seq(Unit(c))
        /\ tx[c] \in Seq(Sent) /\ Len(tx[c]) <= TxSize /\ got[c] \in Seq(Sent)
        /\ want[c] \in Requests[c] \cup {None} /\ mem.post <= MaxPosts
        /\ W(c) \in Working /\ W(c).k = cl[c] /\ W(c).tx = tx[c] /\ W(c).mem = mem
        /\ Up(c) \in BOOLEAN
    BY CurrentTypes
  <1>4. PICK g \in Seq(Sent), x \in Seq(Sent), a \in Seq(Unit(c)), b \in Seq(Unit(c)),
             u \in Working, q0 \in Requests[c] \cup {None} :
          /\ g = got[c] /\ x = tx[c] /\ a = rx[c] /\ b = todo[c] /\ u = W(c) /\ q0 = want[c]
    BY <1>3
  <1>5. /\ u.k.file = NoFile /\ ~u.k.post /\ u.k.state = 0 /\ FileKind(u.k) /\ Phase(u.k)
        /\ Len(u.tx) <= TxSize /\ u.mem.post <= MaxPosts /\ u.tx = x
    <2>1. cl[c].state \in {0, 1}
      BY <1>3 DEF ClientRecord
    <2>. QED BY <1>1, <1>3, <1>4, <2>1 DEF Phase
  <1>6. /\ a[1].at # 0 => Peer(Skip(g, x), b, q0, u.k)
        /\ a[1].at = 0 => /\ q0 # None /\ Skip(g, x) = <<>> /\ NoHeader(b) /\ a[1].req = q0
                          /\ Len(a) + Len(b) = 1 + q0.body
                          /\ \A j \in 1 .. Len(b) : b[j].at = Len(a) - 1 + j
    <2>1. PICK s, str : s = a \o b /\ str = Skip(g, x)
      OBVIOUS
    <2>2. Peer(str, s, q0, u.k) /\ a # <<>>
      BY <1>1, <1>2, <1>3, <1>4, <2>1 DEF Reply, Skip, Line
    <2>3. Read(str, a, b, q0, u.k)
      BY <1>5, <2>1, <2>2, HeaderRead
    <2>. QED BY <2>1, <2>3 DEF Read
  <1>7. PICK empty \in Seq(Unit(c)) : empty = <<>> /\ empty \o b = b
    BY EmptySeq, ConcatEmptySeq
  <1>8. PICK h \in Unit(c) : h = a[1] /\ h = Head(a)
    BY <1>1, <1>4
  <1>9. PICK w : w = CASE h.at = 0 /\ h.req.cmd = "GET"  -> OpenURL(u, Up(c), h.req)
                       [] h.at = 0 /\ h.req.cmd = "POST" ->
                            OpenPost(u, Up(c), h.req, Len(a) - 1)
                       [] OTHER -> u
    OBVIOUS
  <1>10. Finish(c, w, empty)
    BY <1>4, <1>7, <1>8, <1>9 DEF WorkCommand
  <1>11. ASSUME w \in Working, Worked(w, u), w.ok => Peer(Skip(g, w.tx), b, q0, w.k)
         PROVE  ServerInv'
    BY <1>1, <1>4, <1>7, <1>10, <1>11, FinishInv
  <1>12. Worked(u, u)
    BY <1>5, SameAccounts DEF Worked
  <1>13. CASE h.at # 0
    <2>1. w = u
      BY <1>9, <1>13
    <2>2. Peer(Skip(g, w.tx), b, q0, w.k)
      BY <1>5, <1>6, <1>8, <1>13, <2>1
    <2>. QED BY <1>11, <1>12, <2>1, <2>2
  <1>14. CASE h.at = 0
    <2>1. /\ q0 # None /\ Skip(g, x) = <<>> /\ NoHeader(b) /\ h.req = q0
          /\ Len(a) + Len(b) = 1 + q0.body
          /\ \A j \in 1 .. Len(b) : b[j].at = Len(a) - 1 + j
      BY <1>6, <1>8, <1>14
    <2>2. PICK q \in Requests[c] : q = q0
      BY <2>1
    <2>3. Skip(g, u.tx) = <<>>
      BY <1>5, <2>1
    <2>4. CASE q.cmd = "GET"
      <3>1. w = OpenURL(u, Up(c), q)
        BY <1>9, <1>14, <2>1, <2>2, <2>4
      <3>2. Worked(w, u)
        BY <1>3, <1>5, <3>1, OpenURLDoes
      <3>3. w \in Working
        BY <3>2 DEF Worked
      <3>4. w.ok => Answering(Skip(g, w.tx), q, w.k) /\ ~w.k.post
        BY <1>3, <1>5, <2>3, <2>4, <3>1, OpenURLFollows
      <3>5. w.ok => Peer(Skip(g, w.tx), b, q, w.k)
        BY <2>1, <2>2, <3>4, ReplyingPeer DEF Replying
      <3>. QED BY <1>11, <2>2, <3>2, <3>3, <3>5
    <2>5. CASE q.cmd = "POST"
      <3>1. PICK body \in Nat, n \in Nat, lb \in Nat :
              q.body = body /\ Len(a) - 1 = n /\ Len(b) = lb /\ body = n + lb
        <4>1. Len(a) \in Nat /\ Len(a) >= 1 /\ Len(b) \in Nat
          BY <1>1, <1>4
        <4>2. PICK body \in Nat : q.body = body
          BY DataAssumption
        <4>3. Len(a) + Len(b) = 1 + body
          BY <2>1, <2>2, <4>2
        <4>4. Len(a) - 1 \in Nat /\ body = (Len(a) - 1) + Len(b)
          BY <4>1, <4>3
        <4>. QED BY <4>1, <4>2, <4>4
      <3>2. w = OpenPost(u, Up(c), q, n)
        BY <1>9, <1>14, <2>1, <2>2, <2>5, <3>1
      <3>3. n <= q.body
        BY <3>1
      <3>4. Worked(w, u)
        BY <1>3, <1>5, <3>2, <3>3, OpenPostDoes
      <3>5. w \in Working
        BY <3>4 DEF Worked
      <3>6. ASSUME w.ok
            PROVE  Peer(Skip(g, w.tx), b, q, w.k)
        <4>1. (Receiving(q, w.k, n) /\ w.tx = u.tx) \/ Replying(Skip(g, w.tx), q, w.k)
          BY <1>3, <1>5, <2>3, <2>5, <3>2, <3>3, <3>6, OpenPostFollows
        <4>2. CASE Receiving(q, w.k, n) /\ w.tx = u.tx
          <5>1. Len(b) = q.body - n
            BY <3>1
          <5>2. \A j \in 1 .. Len(b) : b[j].at = n + j
            BY <2>1, <3>1
          <5>3. Posting(Skip(g, w.tx), b, q, w.k)
            BY <2>1, <2>2, <2>3, <4>2, <5>1, <5>2 DEF Posting
          <5>. QED BY <5>3 DEF Peer
        <4>3. CASE Replying(Skip(g, w.tx), q, w.k)
          BY <2>1, <2>2, <4>3, ReplyingPeer
        <4>. QED BY <4>1, <4>2, <4>3
      <3>. QED BY <1>11, <2>2, <3>4, <3>5, <3>6
    <2>6. CASE q.cmd # "GET" /\ q.cmd # "POST"
      <3>1. w = u
        BY <1>9, <2>1, <2>2, <2>6
      <3>2. Silent(Skip(g, w.tx), b, q0, w.k)
        BY <1>5, <2>1, <2>3, <3>1 DEF Silent, Quiet
      <3>3. Peer(Skip(g, w.tx), b, q0, w.k)
        BY <3>2 DEF Peer
      <3>. QED BY <1>11, <1>12, <3>1, <3>3
    <2>. QED BY <2>4, <2>5, <2>6
  <1>. QED BY <1>13, <1>14

-----------------------------------------------------------------------------
(* The other steps: the head of a cycle, the stack and the peers.          *)
LEMMA OwnedSame ==
  ASSUME OwnedInv, cl' = cl, mem'.handle = mem.handle, mem'.data = mem.data,
         mem'.post = mem.post, mem'.client = Len(list)'
  PROVE  OwnedInv'
  BY DEF OwnedInv, WithFile, WithScript, WithPost

LEMMA AcceptInv ==
  ASSUME ServerInv, NEW c \in Clients, Accept(c)
  PROVE  ServerInv'
  <1>1. ServerTypes /\ ListInv /\ OwnedInv /\ PeerInv
    BY DEF ServerInv
  <1>2. /\ conn[c] = "backlog" /\ conn' = [conn EXCEPT ![c] = "open"]
        /\ list' = <<c>> \o list /\ walk' = list'
        /\ asks' = asks /\ want' = want /\ todo' = todo /\ rx' = rx /\ tx' = tx
        /\ got' = got /\ cl' = cl
    BY DEF Accept
  <1>3. /\ mem' \in Memory /\ mem'.client = mem.client + 1 /\ mem'.handle = mem.handle
        /\ mem'.data = mem.data /\ mem'.post = mem.post
    <2>1. mem \in Memory /\ mem' = [mem EXCEPT !.client = @ + 1]
      BY <1>1 DEF Accept, ServerTypes
    <2>2. PICK x \in Int : x = mem.client + 1
      BY <2>1 DEF Memory
    <2>3. mem' = [mem EXCEPT !.client = x]
      BY <2>1, <2>2 DEF Memory
    <2>. QED BY <2>1, <2>2, <2>3 DEF Memory
  <1>4. ServerTypes'
    <2>1. conn' \in [Clients -> {"none", "backlog", "open", "down", "closed"}]
      BY <1>1, <1>2 DEF ServerTypes
    <2>2. \A d \in Clients : ClientTypes(d)'
      BY <1>1, <1>2 DEF ServerTypes, ClientTypes
    <2>. QED BY <1>1, <1>2, <1>3, <2>1, <2>2 DEF ServerTypes
  <1>5. PICK l \in Seq(Clients) : l = list
    BY <1>1 DEF ListInv
  <1>6. PICK m \in Seq(Clients) :
          /\ m = <<c>> \o l /\ Len(m) = Len(l) + 1 /\ m[1] = c
          /\ \A i \in 1 .. Len(m) : i # 1 => i - 1 \in 1 .. Len(l) /\ m[i] = l[i - 1]
          /\ \A i \in 1 .. Len(l) : i + 1 \in 1 .. Len(m) /\ m[i + 1] = l[i]
    <2>1. PICK one \in Seq(Clients) : one = <<c>> /\ Len(one) = 1 /\ one[1] = c
      <3>1. <<c>> \in Seq(Clients) /\ Len(<<c>>) = 1 /\ <<c>>[1] = c
        OBVIOUS
      <3>. QED BY <3>1
    <2>2. PICK m : m = one \o l
      OBVIOUS
    <2>3. /\ m \in Seq(Clients) /\ Len(m) = Len(one) + Len(l)
          /\ \A i \in 1 .. Len(one) + Len(l) : m[i] = IF i <= Len(one) THEN one[i] ELSE l[i - Len(one)]
      BY ONLY <2>2, Joined
    <2>4. Len(m) = Len(l) + 1 /\ m[1] = c
      BY <2>1, <2>3
    <2>5. ASSUME NEW i \in 1 .. Len(m), i # 1
          PROVE  i - 1 \in 1 .. Len(l) /\ m[i] = l[i - 1]
      BY <2>1, <2>3, <2>4, <2>5
    <2>6. ASSUME NEW i \in 1 .. Len(l)
          PROVE  i + 1 \in 1 .. Len(m) /\ m[i + 1] = l[i]
      <3>1. PICK j \in 1 .. Len(m) : j = i + 1 /\ j # 1 /\ j - 1 = i
        BY <2>4
      <3>. QED BY <2>5, <3>1
    <2>. QED BY <2>1, <2>2, <2>3, <2>4, <2>5, <2>6
  <1>7. list' = m /\ walk' = m
    BY <1>2, <1>5, <1>6
  <1>8. \A i \in 1 .. Len(l) : l[i] # c
    BY <1>1, <1>2, <1>5 DEF ListInv
  <1>9. ListInv'
    <2>1. ASSUME NEW i \in 1 .. Len(walk')
          PROVE  walk'[i] = list'[Len(list') - Len(walk') + i]
      <3>1. Len(list') - Len(walk') + i = i
        BY <1>7
      <3>. QED BY <1>7, <3>1
    <2>2. ASSUME NEW i \in 1 .. Len(m), NEW j \in 1 .. Len(m), m[i] = m[j]
          PROVE  i = j
      <3>1. CASE i = 1 /\ j = 1
        BY <3>1
      <3>2. CASE i = 1 /\ j # 1
        BY <1>6, <1>8, <2>2, <3>2
      <3>3. CASE i # 1 /\ j = 1
        BY <1>6, <1>8, <2>2, <3>3
      <3>4. CASE i # 1 /\ j # 1
        <4>1. PICK a \in 1 .. Len(l), b \in 1 .. Len(l) : a = i - 1 /\ b = j - 1
          BY <1>6, <3>4
        <4>2. l[a] = l[b]
          BY <1>6, <2>2, <3>4, <4>1
        <4>3. a = b
          BY <1>1, <1>5, <4>2 DEF ListInv
        <4>. QED BY <4>1, <4>3
      <3>. QED BY <3>1, <3>2, <3>3, <3>4
    <2>3. ASSUME NEW d \in Clients
          PROVE  (\E i \in 1 .. Len(m) : m[i] = d) <=> conn'[d] \in {"open", "down"}
      <3>1. CASE d = c
        <4>1. 1 \in 1 .. Len(m) /\ m[1] = d
          BY <1>6, <3>1
        <4>2. conn'[d] = "open"
          BY <1>1, <1>2, <3>1 DEF ServerTypes
        <4>. QED BY <4>1, <4>2
      <3>2. CASE d # c
        <4>1. conn'[d] = conn[d]
          BY <1>1, <1>2, <3>2 DEF ServerTypes
        <4>2. (\E i \in 1 .. Len(m) : m[i] = d) <=> (\E i \in 1 .. Len(l) : l[i] = d)
          BY <1>6, <3>2
        <4>3. (\E i \in 1 .. Len(l) : l[i] = d) <=> conn[d] \in {"open", "down"}
          BY <1>1, <1>5 DEF ListInv
        <4>. QED BY <4>1, <4>2, <4>3
      <3>. QED BY <3>1, <3>2
    <2>. QED BY <1>7, <2>1, <2>2, <2>3 DEF ListInv
  <1>10. OwnedInv'
    <2>1. mem'.client = Len(list)'
      BY <1>1, <1>3, <1>5, <1>6, <1>7 DEF OwnedInv
    <2>. QED BY <1>1, <1>2, <1>3, <2>1, OwnedSame
  <1>11. ASSUME NEW d \in Clients
         PROVE  PeerAt(d)'
    <2>1. PeerAt(d)
      BY <1>1 DEF PeerInv
    <2>2. CASE d = c
      <3>1. conn'[d] = "open"
        BY <1>1, <1>2, <2>2 DEF ServerTypes
      <3>2. Peer(Reply(d), Line(d), want[d], cl[d])'
        BY <1>2, <2>1, <2>2 DEF PeerAt, Gone, Reply, Skip, Line
      <3>. QED BY <3>1, <3>2 DEF PeerAt
    <2>3. CASE d # c
      <3>1. conn'[d] = conn[d]
        BY <1>1, <1>2, <2>3 DEF ServerTypes
      <3>. QED BY <1>2, <2>1, <3>1, Unchanged
    <2>. QED BY <2>2, <2>3
  <1>. QED BY <1>4, <1>9, <1>10, <1>11 DEF ServerInv, PeerInv

LEMMA NoAcceptInv ==
  ASSUME ServerInv, NoAccept
  PROVE  ServerInv'
  <1>1. /\ walk' = list /\ conn' = conn /\ asks' = asks /\ want' = want /\ todo' = todo
        /\ rx' = rx /\ tx' = tx /\ got' = got /\ list' = list /\ cl' = cl /\ mem' = mem
    BY DEF NoAccept
  <1>2. ServerTypes'
    BY <1>1 DEF ServerInv, ServerTypes, ClientTypes
  <1>3. ListInv'
    <2>1. list \in Seq(Clients) /\ Len(list) \in Nat
      BY DEF ServerInv, ListInv
    <2>2. \A i \in 1 .. Len(list) : Len(list) - Len(list) + i = i
      BY <2>1
    <2>. QED BY <1>1, <2>1, <2>2 DEF ServerInv, ListInv
  <1>4. OwnedInv'
    BY <1>1 DEF ServerInv, OwnedInv, WithFile, WithScript, WithPost
  <1>5. PeerInv'
    BY <1>1, Unchanged DEF ServerInv, PeerInv
  <1>. QED BY <1>2, <1>3, <1>4, <1>5 DEF ServerInv

(* Steps that change one peer and leave the server alone. *)
LEMMA StackInv ==
  ASSUME ServerInv, NEW c \in Clients, ServerTypes',
         list' = list, walk' = walk, cl' = cl, mem' = mem,
         \A d \in Clients : conn'[d] \in {"open", "down"} <=> conn[d] \in {"open", "down"},
         \A d \in Clients : d # c => /\ conn'[d] = conn[d] /\ rx'[d] = rx[d] /\ tx'[d] = tx[d]
                                     /\ todo'[d] = todo[d] /\ want'[d] = want[d]
                                     /\ got'[d] = got[d],
         PeerAt(c)'
  PROVE  ServerInv'
  <1>1. ListInv'
    BY DEF ServerInv, ListInv
  <1>2. OwnedInv'
    BY DEF ServerInv, OwnedInv, WithFile, WithScript, WithPost
  <1>3. PeerInv'
    BY Unchanged DEF ServerInv, PeerInv
  <1>. QED BY <1>1, <1>2, <1>3 DEF ServerInv

(* One unit taken from the head of y to the end of x. *)
Moved(T, x, y, a, b) ==
  a \in Seq(T) /\ b \in Seq(T) /\ Len(b) = Len(y) - 1 /\ a \o b = x \o y
LEMMA MoveOne ==
  ASSUME NEW T, NEW x \in Seq(T), NEW y \in Seq(T), y # <<>>,
         NEW a, NEW b, a = Append(x, Head(y)), b = Tail(y)
  PROVE  Moved(T, x, y, a, b)
  <1>1. a = Append(x, Head(y)) /\ b = Tail(y)
    OBVIOUS
  <1>2. y[1] \in T /\ Head(y) = y[1] /\ Len(y) \in Nat /\ Len(y) >= 1
    OBVIOUS
  <1>3. /\ a \in Seq(T) /\ Len(a) = Len(x) + 1 /\ a[Len(x) + 1] = y[1]
        /\ \A i \in 1 .. Len(x) : a[i] = x[i]
    BY <1>1, <1>2, AppendProperties
  <1>4. /\ b \in Seq(T) /\ Len(b) = Len(y) - 1
        /\ \A i \in 1 .. Len(b) : b[i] = y[i + 1]
    BY <1>1, HeadTailProperties
  <1>5. PICK s, z : s = a \o b /\ z = x \o y
    OBVIOUS
  <1>6. /\ s \in Seq(T) /\ Len(s) = Len(a) + Len(b)
        /\ \A i \in 1 .. Len(a) + Len(b) : s[i] = IF i <= Len(a) THEN a[i] ELSE b[i - Len(a)]
    <2>1. a \in Seq(T) /\ b \in Seq(T) /\ s = a \o b
      BY <1>3, <1>4, <1>5
    <2>. QED BY ONLY <2>1, Joined
  <1>7. /\ z \in Seq(T) /\ Len(z) = Len(x) + Len(y)
        /\ \A i \in 1 .. Len(x) + Len(y) : z[i] = IF i <= Len(x) THEN x[i] ELSE y[i - Len(x)]
    BY <1>5, Joined
  <1>8. PICK lx \in Nat, ly \in Nat : lx = Len(x) /\ ly = Len(y)
    OBVIOUS
  <1>9. Len(s) = lx + ly /\ Len(z) = lx + ly /\ Len(a) = lx + 1 /\ Len(b) = ly - 1
    BY <1>2, <1>3, <1>4, <1>6, <1>7, <1>8
  <1>10. ASSUME NEW i \in 1 .. lx + ly
         PROVE  s[i] = z[i]
    <2>1. CASE i <= lx
      <3>1. i \in 1 .. lx /\ i <= lx + 1
        BY <2>1
      <3>. QED BY <1>3, <1>6, <1>7, <1>8, <1>9, <2>1, <3>1
    <2>2. CASE i = lx + 1
      <3>1. ~(i <= lx) /\ i - lx = 1 /\ i <= lx + 1
        BY <2>2
      <3>. QED BY <1>3, <1>6, <1>7, <1>8, <1>9, <2>2, <3>1
    <2>3. CASE i > lx + 1
      <3>1. i - (lx + 1) \in 1 .. ly - 1 /\ ~(i <= lx + 1) /\ ~(i <= lx)
        BY <2>3
      <3>2. PICK j \in 1 .. ly - 1 : j = i - (lx + 1)
        BY <3>1
      <3>3. s[i] = b[j] /\ b[j] = y[j + 1]
        BY <1>4, <1>6, <1>8, <1>9, <3>1, <3>2
      <3>4. j + 1 = i - lx
        BY <3>2
      <3>5. z[i] = y[i - lx]
        BY <1>7, <1>8, <3>1
      <3>. QED BY <3>3, <3>4, <3>5
    <2>. QED BY <1>8, <2>1, <2>2, <2>3
  <1>11. s = z
    BY <1>6, <1>7, <1>9, <1>10, SeqEqual
  <1>. QED BY <1>3, <1>4, <1>5, <1>11 DEF Moved

LEMMA DeliverInv ==
  ASSUME ServerInv, NEW c \in Clients, Deliver(c)
  PROVE  ServerInv'
  <1>1. /\ conn[c] \in {"backlog", "open"} /\ todo[c] # <<>>
        /\ rx' = [rx EXCEPT ![c] = Append(rx[c], Head(todo[c]))]
        /\ todo' = [todo EXCEPT ![c] = Tail(todo[c])]
        /\ conn' = conn /\ asks' = asks /\ want' = want /\ tx' = tx /\ got' = got
        /\ list' = list /\ walk' = walk /\ cl' = cl /\ mem' = mem
    BY DEF Deliver
  <1>2. ServerTypes /\ PeerAt(c)
    BY DEF ServerInv, PeerInv
  <1>3. rx[c] \in Seq(Unit(c)) /\ todo[c] \in Seq(Unit(c))
    BY CurrentTypes
  <1>4. /\ rx'[c] \in Seq(Unit(c)) /\ todo'[c] \in Seq(Unit(c))
        /\ rx'[c] \o todo'[c] = rx[c] \o todo[c]
        /\ \A d \in Clients : d # c => rx'[d] = rx[d] /\ todo'[d] = todo[d]
    <2>1. PICK x \in Seq(Unit(c)), y \in Seq(Unit(c)) : x = rx[c] /\ y = todo[c]
      BY <1>3
    <2>2. PICK a, b : a = Append(x, Head(y)) /\ b = Tail(y)
      OBVIOUS
    <2>3. a \in Seq(Unit(c)) /\ b \in Seq(Unit(c)) /\ a \o b = x \o y
      <3>1. y # <<>>
        BY <1>1, <2>1
      <3>2. Moved(Unit(c), x, y, a, b)
        BY <2>2, <3>1, MoveOne
      <3>. QED BY <3>2 DEF Moved
    <2>4. rx'[c] = a /\ todo'[c] = b
      BY <1>1, <1>2, <2>1, <2>2 DEF ServerTypes
    <2>. QED BY <1>1, <1>2, <2>1, <2>3, <2>4 DEF ServerTypes
  <1>5. ServerTypes'
    <2>1. ASSUME NEW d \in Clients
          PROVE  ClientTypes(d)'
      <3>1. ClientTypes(d)
        BY <1>2 DEF ServerTypes
      <3>. QED BY <1>1, <1>4, <3>1 DEF ClientTypes
    <2>2. rx' = [d \in Clients |-> rx'[d]] /\ todo' = [d \in Clients |-> todo'[d]]
      BY <1>1, <1>2 DEF ServerTypes
    <2>. QED BY <1>1, <1>2, <2>1, <2>2 DEF ServerTypes
  <1>6. PeerAt(c)'
    <2>1. Reply(c)' = Reply(c) /\ Line(c)' = Line(c)
      BY <1>1, <1>4 DEF Reply, Skip, Line
    <2>. QED BY <1>1, <1>2, <2>1 DEF PeerAt, Gone
  <1>. QED BY <1>1, <1>4, <1>5, <1>6, StackInv

(* What a peer that takes a unit has then. *)
Taken(g, t) == IF g = <<>> /\ EmptyLineFirst(t) THEN g ELSE Append(g, Head(t))

Takes(g, t, h, rest) ==
  /\ h \in Seq(Sent) /\ rest \in Seq(Sent) /\ Skip(h, rest) = Skip(g, t)
  /\ Len(rest) = Len(t) - 1
LEMMA TakenIs ==
  ASSUME NEW g \in Seq(Sent), NEW t \in Seq(Sent), t # <<>>, ~EmptyLineFirst(Skip(g, t)),
         NEW h, h = Taken(g, t), NEW rest, rest = Tail(t)
  PROVE  Takes(g, t, h, rest)
  <1>1. rest \in Seq(Sent) /\ Len(rest) = Len(t) - 1
    OBVIOUS
  <1>2. CASE g = <<>> /\ EmptyLineFirst(t)
    <2>1. h = g
      BY <1>2 DEF Taken
    <2>2. <<>> \o rest = rest
      BY <1>1
    <2>3. Skip(g, t) = rest
      BY <1>2, <2>2 DEF Skip
    <2>4. Skip(h, rest) = rest
      BY <1>2, <2>1, <2>2, <2>3 DEF Skip
    <2>. QED BY <1>1, <2>1, <2>3, <2>4 DEF Takes
  <1>3. CASE ~(g = <<>> /\ EmptyLineFirst(t))
    <2>1. h = Append(g, Head(t))
      BY <1>3 DEF Taken
    <2>2. Moved(Sent, g, t, h, rest)
      BY <2>1, MoveOne
    <2>3. h \in Seq(Sent) /\ h \o rest = g \o t
      BY <2>2 DEF Moved
    <2>4. h # <<>>
      BY <2>1
    <2>5. Skip(g, t) = g \o t /\ Skip(h, rest) = h \o rest
      BY <1>3, <2>4 DEF Skip
    <2>. QED BY <1>1, <2>3, <2>5 DEF Takes
  <1>. QED BY <1>2, <1>3

(* A reply, as far as it has come, starts with its header. *)
LEMMA HeaderLeads ==
  ASSUME NEW c \in Clients, NEW q \in Requests[c] \cup {None}, NEW g \in Seq(Sent),
         NEW x \in Seq(Sent), NEW s, NEW k0 \in ClientRecord, Peer(Skip(g, x), s, q, k0)
  PROVE  ~EmptyLineFirst(Skip(g, x))
  <1>1. PICK str \in Seq(Sent) : str = Skip(g, x)
    BY SkipTyped
  <1>2. AnswerBegun(str, q)
    BY <1>1, PeerBegun
  <1>3. CASE str = <<>>
    BY <1>1, <1>3 DEF EmptyLineFirst
  <1>4. CASE str # <<>>
    <2>1. PICK a \in Answers(q) : Begins(str, a) /\ q # None
      BY <1>2, <1>4 DEF AnswerBegun
    <2>2. IsReply(a)
      BY <2>1, AnswersAre
    <2>3. str[1] = a[1] /\ a # <<>> /\ Head(str) = str[1]
      BY <1>4, <2>1, <2>2 DEF Begins, IsReply
    <2>. QED BY <1>1, <2>2, <2>3 DEF IsReply, EmptyLineFirst
  <1>. QED BY <1>3, <1>4

LEMMA AckInv ==
  ASSUME ServerInv, NEW c \in Clients, Ack(c)
  PROVE  ServerInv'
  <1>1. /\ conn[c] = "open" /\ tx[c] # <<>>
        /\ got' = [got EXCEPT ![c] = Taken(got[c], tx[c])]
        /\ tx' = [tx EXCEPT ![c] = Tail(tx[c])]
        /\ conn' = conn /\ asks' = asks /\ want' = want /\ rx' = rx /\ todo' = todo
        /\ list' = list /\ walk' = walk /\ cl' = cl /\ mem' = mem
    BY DEF Ack, Taken
  <1>2. ServerTypes /\ PeerAt(c)
    BY DEF ServerInv, PeerInv
  <1>3. got[c] \in Seq(Sent) /\ tx[c] \in Seq(Sent) /\ Len(tx[c]) <= TxSize
    BY CurrentTypes
  <1>4. /\ got'[c] \in Seq(Sent) /\ tx'[c] \in Seq(Sent) /\ Len(tx'[c]) <= TxSize
        /\ Skip(got'[c], tx'[c]) = Skip(got[c], tx[c])
        /\ \A d \in Clients : d # c => got'[d] = got[d] /\ tx'[d] = tx[d]
    <2>1. PICK x \in Seq(Sent), y \in Seq(Sent) : x = got[c] /\ y = tx[c]
      BY <1>3
    <2>2. PICK a, b : a = Taken(x, y) /\ b = Tail(y)
      OBVIOUS
    <2>3. /\ a \in Seq(Sent) /\ b \in Seq(Sent) /\ Skip(a, b) = Skip(x, y)
          /\ Len(b) = Len(y) - 1
      <3>1. y # <<>>
        BY <1>1, <2>1
      <3>0. PICK s : s = Line(c)
        OBVIOUS
      <3>2. PICK q \in Requests[c] \cup {None}, k0 \in ClientRecord :
              q = want[c] /\ k0 = cl[c]
        BY CurrentTypes
      <3>3. Peer(Skip(x, y), s, q, k0)
        BY <1>1, <1>2, <2>1, <3>0, <3>2 DEF PeerAt, Gone, Reply, Skip
      <3>4. ~EmptyLineFirst(Skip(x, y))
        BY ONLY <3>3, HeaderLeads, c \in Clients, q \in Requests[c] \cup {None},
                x \in Seq(Sent), y \in Seq(Sent), k0 \in ClientRecord
      <3>5. a = Taken(x, y) /\ b = Tail(y)
        BY <2>2
      <3>6. Takes(x, y, a, b)
        BY <3>1, <3>4, <3>5, TakenIs
      <3>. QED BY <3>6 DEF Takes
    <2>4. got'[c] = a /\ tx'[c] = b
      BY <1>1, <1>2, <2>1, <2>2 DEF ServerTypes
    <2>5. Len(b) <= TxSize
      BY <1>3, <2>1, <2>3, ServerAssumption
    <2>. QED BY <1>1, <1>2, <2>1, <2>3, <2>4, <2>5 DEF ServerTypes
  <1>5. ServerTypes'
    <2>1. ASSUME NEW d \in Clients
          PROVE  ClientTypes(d)'
      <3>1. ClientTypes(d)
        BY <1>2 DEF ServerTypes
      <3>. QED BY <1>1, <1>4, <3>1 DEF ClientTypes
    <2>2. got' = [d \in Clients |-> got'[d]] /\ tx' = [d \in Clients |-> tx'[d]]
      BY <1>1, <1>2 DEF ServerTypes
    <2>. QED BY <1>1, <1>2, <2>1, <2>2 DEF ServerTypes
  <1>6. PeerAt(c)'
    <2>1. Reply(c)' = Reply(c) /\ Line(c)' = Line(c)
      BY <1>1, <1>4 DEF Reply, Skip, Line
    <2>. QED BY <1>1, <1>2, <2>1 DEF PeerAt, Gone
  <1>. QED BY <1>1, <1>4, <1>5, <1>6, StackInv

LEMMA ConnectInv ==
  ASSUME ServerInv, NEW c \in Clients, Connect(c)
  PROVE  ServerInv'
  <1>1. /\ conn[c] = "none" /\ conn' = [conn EXCEPT ![c] = "backlog"]
        /\ asks' = asks /\ want' = want /\ todo' = todo /\ rx' = rx /\ tx' = tx /\ got' = got
        /\ list' = list /\ walk' = walk /\ cl' = cl /\ mem' = mem
    BY DEF Connect
  <1>2. ServerTypes /\ PeerAt(c)
    BY DEF ServerInv, PeerInv
  <1>3. ServerTypes'
    BY <1>1, <1>2 DEF ServerTypes, ClientTypes
  <1>4. conn'[c] = "backlog" /\ \A d \in Clients : d # c => conn'[d] = conn[d]
    BY <1>1, <1>2 DEF ServerTypes
  <1>5. PeerAt(c)'
    <2>1. Reply(c)' = Reply(c) /\ Line(c)' = Line(c)
      BY <1>1 DEF Reply, Skip, Line
    <2>2. Peer(Reply(c), Line(c), want[c], cl[c])
      BY <1>1, <1>2 DEF PeerAt, Gone
    <2>. QED BY <1>1, <1>4, <2>1, <2>2 DEF PeerAt
  <1>6. \A d \in Clients : conn'[d] \in {"open", "down"} <=> conn[d] \in {"open", "down"}
    BY <1>1, <1>4
  <1>. QED BY <1>1, <1>3, <1>4, <1>5, <1>6, StackInv

LEMMA DropInv ==
  ASSUME ServerInv, NEW c \in Clients, Drop(c)
  PROVE  ServerInv'
  <1>1. /\ conn[c] = "open" /\ conn' = [conn EXCEPT ![c] = "down"]
        /\ asks' = asks /\ want' = want /\ todo' = todo /\ rx' = rx /\ tx' = tx /\ got' = got
        /\ list' = list /\ walk' = walk /\ cl' = cl /\ mem' = mem
    BY DEF Drop
  <1>2. ServerTypes /\ PeerAt(c)
    BY DEF ServerInv, PeerInv
  <1>3. ServerTypes'
    BY <1>1, <1>2 DEF ServerTypes, ClientTypes
  <1>4. conn'[c] = "down" /\ \A d \in Clients : d # c => conn'[d] = conn[d]
    BY <1>1, <1>2 DEF ServerTypes
  <1>5. PeerAt(c)'
    <2>1. Reply(c)' = Reply(c) /\ Line(c)' = Line(c)
      BY <1>1 DEF Reply, Skip, Line
    <2>2. Peer(Reply(c), Line(c), want[c], cl[c])
      BY <1>1, <1>2 DEF PeerAt, Gone
    <2>. QED BY <1>1, <1>4, <2>1, <2>2 DEF PeerAt
  <1>6. \A d \in Clients : conn'[d] \in {"open", "down"} <=> conn[d] \in {"open", "down"}
    BY <1>1, <1>4
  <1>. QED BY <1>1, <1>3, <1>4, <1>5, <1>6, StackInv

(* A reply as long as its header says is the whole answer: nothing but an  *)
(* empty line is on its way, and the server is through with the request.   *)
LEMMA WholeReply ==
  ASSUME NEW c \in Clients, NEW q \in Requests[c] \cup {None}, NEW g \in Seq(Sent),
         NEW x \in Seq(Sent), NEW s, NEW k0 \in ClientRecord, Peer(Skip(g, x), s, q, k0),
         Phase(k0), g # <<>>, Len(g) >= 1 + g[1].len
  PROVE  Skip(<<>>, x) = <<>> /\ Quiet(k0) /\ NoHeader(s)
  <1>0. Skip(g, x) = g \o x
    BY DEF Skip
  <1>1. PICK str \in Seq(Sent) : str = Skip(g, x) /\ str = g \o x
    BY <1>0, SkipTyped
  <1>2. /\ Len(str) = Len(g) + Len(x)
        /\ \A i \in 1 .. Len(g) + Len(x) : str[i] = IF i <= Len(g) THEN g[i] ELSE x[i - Len(g)]
    BY ONLY <1>1, Joined, g \in Seq(Sent), x \in Seq(Sent)
  <1>3. PICK lg \in Nat, lx \in Nat : lg = Len(g) /\ lx = Len(x) /\ lg >= 1
    BY LenProperties, EmptySeq
  <1>4. Len(str) = lg + lx /\ str[1] = g[1] /\ str # <<>>
    <2>1. 1 \in 1 .. lg + lx /\ 1 <= lg
      BY <1>3
    <2>2. Len(str) = lg + lx /\ str[1] = g[1]
      BY <1>2, <1>3, <2>1
    <2>. QED BY <1>1, <1>3, <2>2
  <1>5. lg >= 1 + str[1].len
    BY <1>3, <1>4
  <1>6. CASE Sending(str, s, q, k0)
    <2>1. PICK f \in FileRecord, left \in Nat : f = k0.file /\ left = k0.left
      BY DEF ClientRecord
    <2>2. PICK whole : whole = Whole(f)
      OBVIOUS
    <2>3. left > 0
      BY <1>6, <2>1 DEF Phase, Sending, Continues, HasFile
    <2>4. Len(str) + left = 1 + f.len /\ Begins(str, whole)
      BY <1>6, <2>1, <2>2 DEF Sending, Continues
    <2>5. whole[1] = Header(ResponseCode(f.kind, f.seen), f.len, f.seen)
      BY <2>2, WholeIs
    <2>6. str[1] = whole[1]
      <3>1. 1 \in 1 .. Len(str)
        BY <1>3, <1>4
      <3>. QED BY <2>4, <3>1 DEF Begins
    <2>7. str[1].len = f.len
      BY <2>5, <2>6 DEF Header
    <2>8. f.len \in Nat
      BY DEF FileRecord
    <2>. QED BY <1>3, <1>4, <1>5, <2>3, <2>4, <2>7, <2>8
  <1>7. CASE Done(str, s, q, k0)
    <2>1. q \in Requests[c] /\ str \in Answers(q)
      BY <1>7 DEF Done, Finished
    <2>2. IsReply(str)
      BY <2>1, AnswersAre
    <2>3. PICK n \in Nat : n = str[1].len
      BY <1>4, <2>2 DEF IsReply
    <2>4. EndsRight(str, n)
      BY <1>4, <2>2, <2>3 DEF IsReply
    <2>5. Skip(<<>>, x) = <<>>
      <3>1. CASE lx = 0
        <4>1. x = <<>>
          BY <1>3, <3>1, EmptySeq
        <4>2. PICK none \in Seq(Sent) : none = <<>> /\ none \o none = none
          BY <4>1, EmptySeq, ConcatEmptySeq
        <4>. QED BY <4>1, <4>2 DEF Skip, EmptyLineFirst
      <3>2. CASE lx # 0
        <4>1. lg >= 1 + n /\ (lg + lx = 1 + n \/ lg + lx = 2 + n)
          BY <1>4, <1>5, <2>3, <2>4 DEF EndsRight
        <4>2. lx = 1 /\ lg + lx = 2 + n
          BY <1>3, <3>2, <4>1
        <4>3. str[lg + lx] = EmptyLine
          BY <1>4, <2>4, <4>2 DEF EndsRight
        <4>4. PICK i \in 1 .. lg + lx : i = lg + lx /\ ~(i <= lg) /\ i - lg = 1
          BY <1>3, <4>2
        <4>5. x[1] = EmptyLine
          BY <1>2, <1>3, <4>3, <4>4
        <4>6. x # <<>> /\ Head(x) = EmptyLine /\ Len(Tail(x)) = 0 /\ Tail(x) \in Seq(Sent)
          <5>1. Len(x) = 1
            BY <1>3, <4>2
          <5>2. x # <<>>
            <6>1. Len(<<>>) = 0
              OBVIOUS
            <6>2. x = <<>> => Len(x) = 0
              BY ONLY <6>1
            <6>. QED BY <5>1, <6>2
          <5>3. Head(x) = x[1] /\ Tail(x) \in Seq(Sent) /\ Len(Tail(x)) = Len(x) - 1
            BY <5>2, HeadTailProperties
          <5>. QED BY <4>5, <5>1, <5>2, <5>3
        <4>7. Tail(x) = <<>>
          BY <4>6, EmptySeq
        <4>8. PICK none \in Seq(Sent) : none = <<>> /\ none \o none = none
          BY <4>6, <4>7, EmptySeq, ConcatEmptySeq
        <4>. QED BY <4>6, <4>7, <4>8 DEF Skip, EmptyLineFirst
      <3>. QED BY <3>1, <3>2
    <2>. QED BY <1>7, <2>5 DEF Done, Finished, Quiet
  <1>8. ~Unread(str, s, q, k0) /\ ~Posting(str, s, q, k0) /\ ~Silent(str, s, q, k0)
    BY <1>4 DEF Unread, Posting, Silent
  <1>. QED BY <1>1, <1>6, <1>7, <1>8 DEF Peer

LEMMA CompleteInv ==
  ASSUME ServerInv, NEW c \in Clients, Complete(c)
  PROVE  ServerInv'
  <1>1. /\ conn[c] = "open" /\ got[c] # <<>> /\ Len(got[c]) >= 1 + got[c][1].len
        /\ got' = [got EXCEPT ![c] = <<>>] /\ want' = [want EXCEPT ![c] = None]
        /\ conn' = conn /\ asks' = asks /\ todo' = todo /\ rx' = rx /\ tx' = tx
        /\ list' = list /\ walk' = walk /\ cl' = cl /\ mem' = mem
    BY DEF Complete
  <1>2. ServerTypes /\ Peer(Reply(c), Line(c), want[c], cl[c])
    BY <1>1 DEF ServerInv, PeerInv, PeerAt, Gone
  <1>3. Skip(<<>>, tx[c]) = <<>> /\ Quiet(cl[c]) /\ NoHeader(Line(c))
    <2>0. PICK s : s = Line(c)
      OBVIOUS
    <2>1. PICK g \in Seq(Sent), x \in Seq(Sent), k0 \in ClientRecord,
               q \in Requests[c] \cup {None} :
            g = got[c] /\ x = tx[c] /\ k0 = cl[c] /\ q = want[c]
      BY CurrentTypes
    <2>2. Phase(k0) /\ g # <<>> /\ Len(g) >= 1 + g[1].len
      BY <1>1, <2>1, CurrentTypes
    <2>3. Peer(Skip(g, x), s, q, k0)
      BY <1>2, <2>0, <2>1 DEF Reply, Skip
    <2>4. Skip(<<>>, x) = <<>> /\ Quiet(k0) /\ NoHeader(s)
      BY ONLY <2>2, <2>3, WholeReply, c \in Clients, q \in Requests[c] \cup {None},
              g \in Seq(Sent), x \in Seq(Sent), k0 \in ClientRecord
    <2>. QED BY <2>0, <2>1, <2>4
  <1>4. PICK empty \in Seq(Sent) : empty = <<>>
    BY EmptySeq
  <1>5. /\ got'[c] = empty /\ want'[c] = None
        /\ \A d \in Clients : d # c => got'[d] = got[d] /\ want'[d] = want[d]
    BY <1>1, <1>2, <1>4 DEF ServerTypes
  <1>6. ServerTypes'
    <2>1. ASSUME NEW d \in Clients
          PROVE  ClientTypes(d)'
      <3>1. ClientTypes(d)
        BY <1>2 DEF ServerTypes
      <3>. QED BY <1>1, <1>5, <3>1 DEF ClientTypes
    <2>2. got' = [d \in Clients |-> got'[d]] /\ want' = [d \in Clients |-> want'[d]]
      BY <1>1, <1>2 DEF ServerTypes
    <2>. QED BY <1>1, <1>2, <2>1, <2>2 DEF ServerTypes
  <1>7. PeerAt(c)'
    <2>1. Reply(c)' = <<>>
      BY <1>1, <1>3, <1>4, <1>5 DEF Reply, Skip
    <2>2. Line(c)' = Line(c) /\ cl'[c] = cl[c] /\ conn'[c] # "closed"
      BY <1>1 DEF Line
    <2>3. Silent(Reply(c), Line(c), want[c], cl[c])'
      BY <1>3, <2>1, <2>2 DEF Silent
    <2>. QED BY <2>2, <2>3 DEF PeerAt, Peer
  <1>. QED BY <1>1, <1>5, <1>6, <1>7, StackInv

(* The units of a request. *)
Units(r) == [i \in 1 .. r.body + 1 |-> [req |-> r, at |-> i - 1]]
LEMMA UnitsAre ==
  ASSUME NEW c \in Clients, NEW r \in Requests[c]
  PROVE  /\ r # None /\ r.body \in Nat /\ Units(r) \in Seq(Unit(c)) /\ Len(Units(r)) = r.body + 1
         /\ \A i \in 1 .. r.body + 1 : Units(r)[i].req = r /\ Units(r)[i].at = i - 1
  <1>1. r # None /\ r.body \in Nat
    BY DataAssumption
  <1>2. PICK n \in Nat : n = r.body + 1
    BY <1>1
  <1>3. \A i \in 1 .. n : [req |-> r, at |-> i - 1] \in Unit(c)
    BY DEF Unit
  <1>4. Units(r) \in [1 .. n -> Unit(c)]
    BY <1>2, <1>3 DEF Units
  <1>5. Units(r) \in Seq(Unit(c)) /\ Len(Units(r)) = n
    BY <1>4
  <1>6. \A i \in 1 .. n : Units(r)[i] = [req |-> r, at |-> i - 1]
    BY <1>2 DEF Units
  <1>7. \A i \in 1 .. n : Units(r)[i].req = r /\ Units(r)[i].at = i - 1
    <2>1. ASSUME NEW i \in 1 .. n
          PROVE  Units(r)[i].req = r /\ Units(r)[i].at = i - 1
      <3>1. PICK u : u = Units(r)[i]
        OBVIOUS
      <3>2. u = [req |-> r, at |-> i - 1]
        BY <1>6, <3>1
      <3>3. u.req = r /\ u.at = i - 1
        BY ONLY <3>2
      <3>. QED BY <3>1, <3>3
    <2>. QED BY ONLY <2>1
  <1>. QED BY ONLY <1>1, <1>2, <1>5, <1>7

LEMMA AskInv ==
  ASSUME ServerInv, NEW c \in Clients, NEW r \in Requests[c], Ask(c, r)
  PROVE  ServerInv'
  <1>1. /\ conn[c] \in {"backlog", "open"} /\ want[c] = None /\ todo[c] = <<>>
        /\ asks[c] < MaxAsks[c] /\ asks' = [asks EXCEPT ![c] = asks[c] + 1]
        /\ want' = [want EXCEPT ![c] = r] /\ todo' = [todo EXCEPT ![c] = Units(r)]
        /\ conn' = conn /\ rx' = rx /\ tx' = tx /\ got' = got
        /\ list' = list /\ walk' = walk /\ cl' = cl /\ mem' = mem
    BY DEF Ask, Units
  <1>2. ServerTypes /\ Peer(Reply(c), Line(c), want[c], cl[c])
    BY <1>1 DEF ServerInv, PeerInv, PeerAt, Gone
  <1>3. Quiet(cl[c]) /\ NoHeader(Line(c)) /\ Reply(c) = <<>>
    BY <1>1, <1>2 DEF Peer, Unread, Posting, Sending, Done, Silent
  <1>4. PICK t \in Seq(Unit(c)) : t = Units(r)
    BY UnitsAre
  <1>5. /\ asks'[c] = asks[c] + 1 /\ want'[c] = r /\ todo'[c] = t
        /\ \A d \in Clients : d # c => asks'[d] = asks[d] /\ want'[d] = want[d] /\ todo'[d] = todo[d]
    BY <1>1, <1>2, <1>4 DEF ServerTypes
  <1>6. ServerTypes'
    <2>1. ASSUME NEW d \in Clients
          PROVE  ClientTypes(d)'
      <3>1. ClientTypes(d)
        BY <1>2 DEF ServerTypes
      <3>2. CASE d = c
        <4>1. asks'[c] \in 0 .. MaxAsks[c]
          <5>1. asks[c] \in 0 .. MaxAsks[c] /\ MaxAsks[c] \in Nat
            BY <3>1, <3>2, ServerAssumption DEF ClientTypes
          <5>. QED BY <1>1, <1>5, <5>1
        <4>. QED BY <1>1, <1>4, <1>5, <3>1, <3>2, <4>1 DEF ClientTypes
      <3>3. CASE d # c
        BY <1>1, <1>5, <3>1, <3>3 DEF ClientTypes
      <3>. QED BY <3>2, <3>3
    <2>2. /\ asks' = [d \in Clients |-> asks'[d]] /\ want' = [d \in Clients |-> want'[d]]
          /\ todo' = [d \in Clients |-> todo'[d]]
      BY <1>1, <1>2 DEF ServerTypes
    <2>. QED BY <1>1, <1>2, <2>1, <2>2 DEF ServerTypes
  <1>7. PeerAt(c)'
    <2>1. PICK y \in Seq(Unit(c)), none \in Seq(Unit(c)) : y = rx[c] /\ none = <<>>
      BY CurrentTypes, EmptySeq
    <2>2. y \o none = y
      BY <2>1
    <2>3. NoHeader(y)
      BY <1>1, <1>3, <2>1, <2>2 DEF Line
    <2>4. PICK s : s = y \o t
      OBVIOUS
    <2>5. /\ Len(s) = Len(y) + Len(t)
          /\ \A i \in 1 .. Len(y) + Len(t) : s[i] = IF i <= Len(y) THEN y[i] ELSE t[i - Len(y)]
      BY ONLY <2>4, Joined, y \in Seq(Unit(c)), t \in Seq(Unit(c))
    <2>6. PICK ly \in Nat, body \in Nat, i \in Nat : ly = Len(y) /\ body = r.body /\ i = ly + 1
      <3>1. Len(y) \in Nat /\ r.body \in Nat
        BY UnitsAre
      <3>. QED BY <3>1
    <2>7. /\ r # None /\ Len(t) = body + 1
          /\ \A j \in 1 .. body + 1 : t[j].req = r /\ t[j].at = j - 1
      BY <1>4, <2>6, UnitsAre
    <2>8. Len(s) = ly + (body + 1) /\ Len(s) = i + body /\ i \in 1 .. Len(s)
      <3>1. Len(s) = ly + (body + 1)
        BY <2>5, <2>6, <2>7
      <3>2. i = ly + 1
        BY <2>6
      <3>3. PICK ls \in Nat : ls = Len(s) /\ ls = ly + (body + 1)
        BY <3>1
      <3>4. ls = i + body /\ i \in 1 .. ls
        BY ONLY <3>2, <3>3, ly \in Nat, body \in Nat, i \in Nat, ls \in Nat
      <3>. QED BY <3>1, <3>3, <3>4
    <2>9. ASSUME NEW j \in 1 .. Len(s)
          PROVE  IF j < i THEN s[j].at # 0 ELSE s[j].req = r /\ s[j].at = j - i
      <3>1. CASE j <= ly
        <4>1. s[j] = y[j] /\ y[j].at # 0
          BY <2>3, <2>5, <2>6, <3>1 DEF NoHeader
        <4>2. j < i
          BY <2>6, <3>1
        <4>. QED BY <4>1, <4>2
      <3>2. CASE j > ly
        <4>1. PICK m \in 1 .. body + 1 : m = j - ly /\ m - 1 = j - i
          <5>1. j \in Nat /\ j <= ly + (body + 1)
            BY <2>8
          <5>2. i = ly + 1
            BY <2>6
          <5>3. PICK m \in Int : m = j - ly
            BY <5>1
          <5>4. m \in 1 .. body + 1 /\ m - 1 = j - i
            BY ONLY <3>2, <5>1, <5>2, <5>3, ly \in Nat, body \in Nat, i \in Nat, m \in Int
          <5>. QED BY <5>3, <5>4
        <4>2. ~(j <= ly) /\ ~(j < i)
          BY <2>6, <3>2
        <4>3. s[j] = t[m]
          BY <2>5, <2>6, <4>1, <4>2
        <4>4. t[m].req = r /\ t[m].at = m - 1
          BY <2>7
        <4>. QED BY <4>1, <4>2, <4>3, <4>4
      <3>. QED BY <2>6, <2>8, <3>1, <3>2
    <2>10. HeaderAt(s, r, i)
      BY <2>6, <2>8, <2>9 DEF HeaderAt
    <2>11. Reply(c)' = <<>> /\ Line(c)' = s /\ conn'[c] # "closed" /\ cl'[c] = cl[c]
      BY <1>1, <1>3, <1>5, <2>1, <2>4 DEF Reply, Skip, Line
    <2>12. Unread(Reply(c), Line(c), want[c], cl[c])'
      BY <1>3, <1>5, <2>7, <2>8, <2>10, <2>11 DEF Unread
    <2>. QED BY <2>11, <2>12 DEF PeerAt, Peer
  <1>. QED BY <1>1, <1>5, <1>6, <1>7, StackInv

-----------------------------------------------------------------------------
LEMMA InitInv ==
  ASSUME Init
  PROVE  ServerInv
  <1>1. PICK none \in Seq(Clients), units \in Seq(Sent) : none = <<>> /\ units = <<>>
    BY EmptySeq
  <1>2. \A c \in Clients : <<>> \in Seq(Unit(c))
    BY EmptySeq
  <1>3. \A c \in Clients : 0 \in 0 .. MaxAsks[c]
    BY ServerAssumption
  <1>4. ServerTypes
    <2>1. ASSUME NEW c \in Clients
          PROVE  ClientTypes(c)
      <3>1. tx[c] = units /\ got[c] = units /\ Len(units) <= TxSize
        BY <1>1, ServerAssumption DEF Init
      <3>2. cl[c] = NewClient
        BY DEF Init
      <3>. QED BY <1>2, <1>3, <3>1, <3>2, NewClientTyped DEF Init, ClientTypes
    <2>2. mem \in Memory
      BY DEF Init, Memory
    <2>. QED BY <2>1, <2>2 DEF Init, ServerTypes
  <1>5. ListInv
    BY <1>1 DEF Init, ListInv
  <1>6. OwnedInv
    <2>1. \A c \in Clients : cl[c].file = NoFile /\ cl[c].file.kind = "none" /\ ~cl[c].post
      BY NewClientTyped, NoFileTyped DEF Init
    <2>2. WithFile = {} /\ WithScript = {} /\ WithPost = {}
      BY <2>1 DEF WithFile, WithScript, WithPost
    <2>3. Len(list) = 0
      BY <1>1 DEF Init
    <2>. QED BY <2>2, <2>3, FS_EmptySet, ServerAssumption DEF Init, OwnedInv
  <1>7. PeerInv
    <2>1. ASSUME NEW c \in Clients
          PROVE  PeerAt(c)
      <3>1. PICK line \in Seq(Unit(c)) : line = <<>>
        BY EmptySeq
      <3>2. Reply(c) = <<>> /\ Line(c) = line /\ cl[c] = NewClient /\ conn[c] # "closed"
        <4>1. units \o units = units /\ line \o line = line
          BY <1>1, <3>1
        <4>. QED BY <1>1, <3>1, <4>1 DEF Init, Reply, Skip, Line
      <3>3. NoHeader(line)
        BY <3>1 DEF NoHeader
      <3>4. Silent(Reply(c), Line(c), want[c], cl[c])
        BY <3>2, <3>3, NewClientTyped DEF Silent, Quiet
      <3>. QED BY <3>2, <3>4 DEF PeerAt, Peer
    <2>. QED BY <2>1 DEF PeerInv
  <1>. QED BY <1>4, <1>5, <1>6, <1>7 DEF ServerInv

LEMMA StutterInv ==
  ASSUME ServerInv, UNCHANGED vars
  PROVE  ServerInv'
  <1>1. /\ walk' = walk /\ conn' = conn /\ asks' = asks /\ want' = want /\ todo' = todo
        /\ rx' = rx /\ tx' = tx /\ got' = got /\ list' = list /\ cl' = cl /\ mem' = mem
    BY DEF vars
  <1>2. ServerTypes'
    BY <1>1 DEF ServerInv, ServerTypes, ClientTypes
  <1>3. ListInv'
    BY <1>1 DEF ServerInv, ListInv
  <1>4. OwnedInv'
    BY <1>1 DEF ServerInv, OwnedInv, WithFile, WithScript, WithPost
  <1>5. PeerInv'
    BY <1>1, Unchanged DEF ServerInv, PeerInv
  <1>. QED BY <1>2, <1>3, <1>4, <1>5 DEF ServerInv

LEMMA NextInv ==
  ASSUME ServerInv, [Next]_vars
  PROVE  ServerInv'
  <1>1. CASE NoAccept
    BY <1>1, NoAcceptInv
  <1>2. ASSUME NEW c \in Clients, Accept(c)
        PROVE  ServerInv'
    BY <1>2, AcceptInv
  <1>3. ASSUME NEW c \in Clients, Work(c)
        PROVE  ServerInv'
    <2>1. CASE WorkFile(c)
      BY <2>1, WorkFileInv
    <2>2. CASE WorkPost(c)
      BY <2>2, WorkPostInv
    <2>3. CASE WorkIdle(c)
      BY <2>3, WorkIdleInv
    <2>4. CASE WorkCommand(c)
      BY <2>4, WorkCommandInv
    <2>. QED BY <1>3, <2>1, <2>2, <2>3, <2>4 DEF Work
  <1>4. ASSUME NEW c \in Clients, Stack(c)
        PROVE  ServerInv'
    <2>1. CASE Deliver(c)
      BY <2>1, DeliverInv
    <2>2. CASE Ack(c)
      BY <2>2, AckInv
    <2>3. CASE Complete(c)
      BY <2>3, CompleteInv
    <2>. QED BY <1>4, <2>1, <2>2, <2>3 DEF Stack
  <1>5. ASSUME NEW c \in Clients, Connect(c)
        PROVE  ServerInv'
    BY <1>5, ConnectInv
  <1>6. ASSUME NEW c \in Clients, Drop(c)
        PROVE  ServerInv'
    BY <1>6, DropInv
  <1>7. ASSUME NEW c \in Clients, NEW r \in Requests[c], Ask(c, r)
        PROVE  ServerInv'
    BY <1>7, AskInv
  <1>8. CASE UNCHANGED vars
    BY <1>8, StutterInv
  <1>. QED BY <1>1, <1>2, <1>3, <1>4, <1>5, <1>6, <1>7, <1>8 DEF Next, Task

LEMMA ServerInvAlways == Spec => []ServerInv
  <1>1. Init => ServerInv
    BY InitInv
  <1>2. ServerInv /\ [Next]_vars => ServerInv'
    BY NextInv
  <1>. QED BY <1>1, <1>2, PTL DEF Spec

-----------------------------------------------------------------------------
(* Types, and the bounds of the send buffer and of the POST buffer: what   *)
(* prvGetPost appends never exceeds what prvOpenPostUrl allocated.         *)
THEOREM HttpTypes == Spec => []TypeOK
  <1>1. ASSUME ServerInv
        PROVE  TypeOK
    <2>1. ServerTypes /\ ListInv /\ OwnedInv /\ PeerInv
      BY <1>1 DEF ServerInv
    <2>2. ASSUME NEW c \in Clients
          PROVE  /\ \A i \in DOMAIN rx[c] : rx[c][i].req \in Requests[c]
                 /\ Len(tx[c]) <= TxSize
                 /\ cl[c].file.url \in Files \cup {None} /\ cl[c].file.kind \in Kinds
                 /\ cl[c].left \in Nat /\ cl[c].state \in {0, 1}
                 /\ {cl[c].replied, cl[c].post} \subseteq BOOLEAN
      <3>1. ClientTypes(c)
        BY <2>1 DEF ServerTypes
      <3>2. ASSUME NEW i \in DOMAIN rx[c]
            PROVE  rx[c][i].req \in Requests[c]
        <4>1. rx[c][i] \in Unit(c)
          BY <3>1 DEF ClientTypes
        <4>. QED BY <4>1 DEF Unit
      <3>3. cl[c] \in ClientRecord /\ Len(tx[c]) <= TxSize
        BY <3>1 DEF ClientTypes
      <3>4. PICK f \in FileRecord : f = cl[c].file
        BY <3>3 DEF ClientRecord
      <3>5. f.url \in Files \cup {None} /\ f.kind \in Kinds
        BY DEF FileRecord, Urls
      <3>6. /\ cl[c].left \in Nat /\ cl[c].state \in {0, 1}
            /\ cl[c].replied \in BOOLEAN /\ cl[c].post \in BOOLEAN
        BY <3>3 DEF ClientRecord
      <3>. QED BY <3>2, <3>3, <3>4, <3>5, <3>6
    <2>3. ASSUME NEW c \in Clients, cl[c].post
          PROVE  Len(cl[c].buf) <= Lookup(cl[c].name, "POST").max
      <3>1. conn[c] # "closed" /\ Peer(Reply(c), Line(c), want[c], cl[c])
        BY <2>1, <2>3, NewClientTyped DEF PeerInv, PeerAt, Gone
      <3>2. Posting(Reply(c), Line(c), want[c], cl[c])
        BY <2>3, <3>1 DEF Peer, Unread, Sending, Silent, Done, Quiet
      <3>3. want[c] \in Requests[c]
        BY <2>1, <3>2 DEF Posting, ServerTypes, ClientTypes
      <3>4. PICK q \in Requests[c], n \in Nat : q = want[c] /\ Receiving(q, cl[c], n)
        BY <3>2, <3>3 DEF Posting
      <3>5. PICK e \in Rom : e = Lookup(q.url, "POST")
        BY <3>4, LookupIs DEF Receiving
      <3>6. PICK body \in Nat, max \in Nat : body = q.body /\ max = e.max
        BY DataAssumption
      <3>7. n < body /\ body <= max /\ cl[c].buf = Numbers(n) /\ cl[c].name = q.url
        BY <3>4, <3>5, <3>6 DEF Receiving
      <3>8. Len(Numbers(n)) = n
        BY NumbersIs
      <3>. QED BY <3>5, <3>6, <3>7, <3>8
    <2>4. mem \in [client : Nat, handle : Nat, data : Nat, post : 0 .. MaxPosts]
      <3>1. WithFile \in SUBSET Clients /\ WithScript \in SUBSET Clients /\ WithPost \in SUBSET Clients
        BY DEF WithFile, WithScript, WithPost
      <3>2. IsFiniteSet(WithFile) /\ IsFiniteSet(WithScript) /\ IsFiniteSet(WithPost)
        BY <3>1, DataAssumption, FS_Subset
      <3>3. Cardinality(WithFile) \in Nat /\ Cardinality(WithScript) \in Nat /\ Cardinality(WithPost) \in Nat
        BY <3>2, FS_CardinalityType
      <3>4. mem.client \in Nat /\ mem.handle \in Nat /\ mem.data \in Nat
        BY <2>1, <3>3, LenProperties DEF OwnedInv, ListInv
      <3>5. mem \in Memory
        BY <2>1 DEF ServerTypes
      <3>6. mem.post \in 0 .. MaxPosts
        <4>1. mem.post \in Int
          BY <3>5 DEF Memory
        <4>. QED BY <2>1, <3>3, <4>1, ServerAssumption DEF OwnedInv
      <3>. QED BY <3>4, <3>5, <3>6 DEF Memory
    <2>5. /\ conn \in [Clients -> {"none", "backlog", "open", "down", "closed"}]
          /\ DOMAIN asks = Clients /\ \A c \in Clients : asks[c] \in 0 .. MaxAsks[c]
          /\ DOMAIN want = Clients /\ \A c \in Clients : want[c] \in Requests[c] \cup {None}
      BY <2>1 DEF ServerTypes, ClientTypes
    <2>6. {list, walk} \subseteq Seq(Clients)
      BY <2>1 DEF ListInv
    <2>. QED BY <2>2, <2>3, <2>4, <2>5, <2>6 DEF TypeOK
  <1>. QED BY <1>1, ServerInvAlways, PTL

(* The walk of vTCPServerWork survives every change of the list under it.  *)
THEOREM ListSoundAlways == Spec => []ListSound
  <1>1. ASSUME ServerInv
        PROVE  ListSound
    <2>1. ListInv
      BY <1>1 DEF ServerInv
    <2>2. PICK l \in Seq(Clients), w \in Seq(Clients) : l = list /\ w = walk
      BY <2>1 DEF ListInv
    <2>3. PICK n \in Nat, m \in Nat : n = Len(l) /\ m = Len(w)
      BY LenProperties
    <2>4. m <= n /\ \A i \in 1 .. m : w[i] = l[n - m + i]
      BY <2>1, <2>2, <2>3 DEF ListInv
    <2>5. PICK a, b : a = Reverse(w) /\ b = Reverse(l)
      OBVIOUS
    <2>6. a = [i \in 1 .. m |-> w[(m - i) + 1]] /\ b = [i \in 1 .. n |-> l[(n - i) + 1]]
      BY <2>3, <2>5 DEF Reverse
    <2>7. a \in Seq(Clients) /\ Len(a) = m /\ b \in Seq(Clients) /\ Len(b) = n
      <3>1. \A i \in 1 .. m : w[(m - i) + 1] \in Clients
        BY <2>3
      <3>2. \A i \in 1 .. n : l[(n - i) + 1] \in Clients
        BY <2>3
      <3>3. a \in [1 .. m -> Clients] /\ b \in [1 .. n -> Clients]
        BY <2>6, <3>1, <3>2
      <3>. QED BY <3>3
    <2>8. ASSUME NEW i \in 1 .. m
          PROVE  a[i] = b[i]
      <3>1. PICK j \in 1 .. m : j = (m - i) + 1 /\ n - m + j = (n - i) + 1
        OBVIOUS
      <3>2. a[i] = w[j] /\ b[i] = l[(n - i) + 1]
        BY <2>4, <2>6, <3>1
      <3>3. w[j] = l[n - m + j]
        BY <2>4
      <3>. QED BY <3>1, <3>2, <3>3
    <2>9. SubSeq(a, 1, m) = SubSeq(b, 1, m)
      BY <2>4, <2>7, <2>8
    <2>10. IsSuffix(walk, list)
      BY <2>2, <2>4, <2>5, <2>7, <2>9 DEF IsSuffix, IsPrefix
    <2>11. DOMAIN list = 1 .. Len(list)
      BY <2>1 DEF ListInv
    <2>. QED BY <2>1, <2>10, <2>11 DEF ListSound, ListInv, Listed
  <1>. QED BY <1>1, ServerInvAlways, PTL

(* The state machine of prvGetPost and the phases of a client agree.       *)
THEOREM PostPhaseAlways == Spec => []PostPhase
  <1>1. ServerInv => PostPhase
    BY DEF ServerInv, ServerTypes, ClientTypes, Phase, PostPhase
  <1>. QED BY <1>1, ServerInvAlways, PTL

(* No path of the work function loses a client, a handle or an answer.     *)
THEOREM FilesOwnedAlways == Spec => []FilesOwned
  <1>1. ServerInv => FilesOwned
    BY DEF ServerInv, OwnedInv, WithFile, WithScript, FilesOwned, Count
  <1>. QED BY <1>1, ServerInvAlways, PTL

(* What a peer has received or will is the beginning of a right answer,    *)
(* but for the empty line a refused POST may leave in front of it.         *)
THEOREM RepliesRightAlways == Spec => []RepliesRight
  <1>1. ASSUME ServerInv
        PROVE  RepliesRight
    <2>1. ASSUME NEW c \in Clients
          PROVE  IF want[c] = None THEN Reply(c) = <<>>
                 ELSE \E s \in Answers(want[c]) : IsPrefix(Reply(c), s)
      <3>0. PICK s : s = Line(c)
        OBVIOUS
      <3>1. PICK g \in Seq(Sent), x \in Seq(Sent), k0 \in ClientRecord,
                 q \in Requests[c] \cup {None} :
              g = got[c] /\ x = tx[c] /\ k0 = cl[c] /\ q = want[c]
        BY <1>1, CurrentTypes
      <3>2. PICK str \in Seq(Sent) : str = Skip(g, x) /\ str = Reply(c)
        BY <3>1, SkipTyped DEF Reply, Skip
      <3>3. AnswerBegun(str, q)
        <4>1. PeerAt(c)
          BY <1>1 DEF ServerInv, PeerInv
        <4>2. CASE Gone(c)
          <5>1. x = <<>> /\ AnswerBegun(g, q)
            BY <3>1, <4>2 DEF Gone
          <5>2. g \o <<>> = g
            OBVIOUS
          <5>3. str = g
            BY <3>2, <5>1, <5>2 DEF Skip, EmptyLineFirst
          <5>. QED BY <5>1, <5>3
        <4>3. CASE Peer(Reply(c), Line(c), want[c], cl[c])
          <5>1. Peer(Skip(g, x), s, q, k0)
            BY <3>0, <3>1, <4>3 DEF Reply, Skip
          <5>2. AnswerBegun(Skip(g, x), q)
            BY ONLY <5>1, PeerBegun, c \in Clients, q \in Requests[c] \cup {None},
                    g \in Seq(Sent), x \in Seq(Sent), k0 \in ClientRecord
          <5>. QED BY <3>2, <5>2
        <4>. QED BY <4>1, <4>2, <4>3 DEF PeerAt
      <3>4. CASE q = None
        BY <3>1, <3>2, <3>3, <3>4 DEF AnswerBegun
      <3>5. CASE q # None
        <4>1. PICK a \in Answers(q) : Begins(str, a)
          BY <3>3, <3>5 DEF AnswerBegun
        <4>2. a \in Seq(Sent)
          BY <3>5, AnswersAre DEF IsReply
        <4>3. Len(str) <= Len(a) /\ \A j \in 1 .. Len(str) : str[j] = a[j]
          BY <4>1 DEF Begins
        <4>4. SubSeq(str, 1, Len(str)) = SubSeq(a, 1, Len(str))
          BY <4>2, <4>3
        <4>5. IsPrefix(str, a)
          BY <4>3, <4>4 DEF IsPrefix
        <4>. QED BY <3>1, <3>2, <3>5, <4>5
      <3>. QED BY <3>4, <3>5
    <2>. QED BY <2>1 DEF RepliesRight
  <1>. QED BY <1>1, ServerInvAlways, PTL
=============================================================================

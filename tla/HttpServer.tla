----------------------------- MODULE HttpServer -----------------------------
(***************************************************************************)
(* The HTTP server of src/http: the task HttpWork, which accepts           *)
(* connections and polls its list of clients (FreeRTOS_TCP_server.c), the  *)
(* client's work function (FreeRTOS_HTTP_server.c) and the files of the    *)
(* ROM image (yaRomfsCore.c).  The task is one thread: a call of the work  *)
(* function is one step; between two of them the TCP stack moves data and  *)
(* the peers ask, receive and disappear.                                   *)
(*                                                                         *)
(* Data come in units: the header of a request or of a reply is one unit,  *)
(* a body one or more.  A peer sends its next request when it has the      *)
(* whole reply to the last one, and a request's header arrives whole.      *)
(***************************************************************************)
EXTENDS Integers, Sequences, SequencesExt, FiniteSets

CONSTANTS
  Clients,   \* connections the peers may make
  Rom,       \* the ROM image: entries [url, method, kind, len, max]
  Requests,  \* of each peer, [cmd, url, fwd, body]: fwd is the url a script answers with
  None,
  TxSize,    \* send buffer of a socket, in units
  LongBody,  \* the longest body a script that is posted to answers with 200
  FileBuf,   \* pcFileBuffer, in units
  MaxPosts,  \* POST buffers the slow heap can hold
  MaxAsks    \* requests on one connection (bounds the model)

ASSUME ServerAssumption ==
  /\ {TxSize, FileBuf, MaxPosts} \subseteq Nat \ {0} /\ LongBody \in Nat
  /\ MaxAsks \in [Clients -> Nat]

(* A finite number of connections; what the image and requests are made of *)
ASSUME DataAssumption ==
  /\ IsFiniteSet(Clients)
  /\ \A e \in Rom : /\ e.kind \in {"static", "script", "redirect"}
                    /\ e.len \in Nat /\ e.max \in Nat
  /\ \A c \in Clients : \A r \in Requests[c] : r # None /\ r.body \in Nat

(* The static files of the image are short, a redirect has no data: no     *)
(* property below would hold of one read in more than one piece (Fread).   *)
(* Such a file with its header, or a refusal of three units, fits into the *)
(* send buffer behind one unit of the reply before it.                     *)
ASSUME ImageAssumption ==
  /\ TxSize > 3
  /\ \A e \in Rom : e.kind # "script" => e.len <= FileBuf /\ e.len + 1 < TxSize

VARIABLES
  conn,   \* state of each connection; down: lost, the server does not know
  asks,   \* requests its peer has made
  want,   \* the one the peer waits for
  todo,   \* units of it that have not arrived
  rx,     \* units arrived and not received by the server
  tx,     \* units sent and not acknowledged
  got,    \* units of the reply at the peer
  list,   \* pxClients, the newest first
  walk,   \* the part of it this cycle has still to serve
  cl,     \* the server's record of each client
  mem     \* blocks allocated, by kind
vars == <<conn, asks, want, todo, rx, tx, got, list, walk, cl, mem>>

NoFile == [url |-> None, kind |-> "none", len |-> 0, pos |-> 0, seen |-> <<>>]
NewClient == [file |-> NoFile, left |-> 0, replied |-> FALSE, name |-> None,
              post |-> FALSE, state |-> 0, buf |-> <<>>]
Header(code, len, seen) == [code |-> code, len |-> len, seen |-> seen]
Data(url, i) == [url |-> url, at |-> i]

Init ==
  /\ conn = [c \in Clients |-> "none"] /\ asks = [c \in Clients |-> 0]
  /\ want = [c \in Clients |-> None]   /\ todo = [c \in Clients |-> <<>>]
  /\ rx = [c \in Clients |-> <<>>]     /\ tx = [c \in Clients |-> <<>>]
  /\ got = [c \in Clients |-> <<>>]
  /\ list = <<>> /\ walk = <<>>
  /\ cl = [c \in Clients |-> NewClient]
  /\ mem = [client |-> 0, handle |-> 0, data |-> 0, post |-> 0]

-----------------------------------------------------------------------------
(* The ROM file system.  Fopen gives the handle and the blocks allocated.  *)
Found(url, method) == \E e \in Rom : e.url = url /\ e.method = method
Lookup(url, method) == CHOOSE e \in Rom : e.url = url /\ e.method = method

(* A script that answers with a url is asked by GET, and names no script.  *)
ASSUME ScriptAssumption ==
  \A c \in Clients : \A r \in Requests[c] :
    r.fwd # None => /\ r.cmd = "GET"
                    /\ Found(r.url, "GET") => Lookup(r.url, "GET").kind = "script"
                    /\ Found(r.fwd, "GET") => Lookup(r.fwd, "GET").kind = "static"

Handle(e, seen) ==
  [url |-> e.url, kind |-> e.kind, len |-> e.len, pos |-> 0, seen |-> seen]

(* A script runs here, on the body posted; its answer is its data, or the  *)
(* name of another file: then the data are freed, and the handle too when  *)
(* there is no such file.                                                  *)
Fopen(url, fwd, method, buf) ==
  LET e == Lookup(url, method)
  IN  CASE ~Found(url, method) -> [file |-> NoFile, handle |-> 0, data |-> 0]
        [] Found(url, method) /\ (e.kind # "script" \/ fwd = None) ->
             [file |-> Handle(e, buf), handle |-> 1, data |-> IF e.kind = "script" THEN 1 ELSE 0]
        [] OTHER -> IF Found(fwd, method)
                    THEN [file |-> Handle(Lookup(fwd, method), <<>>), handle |-> 1, data |-> 0]
                    ELSE [file |-> NoFile, handle |-> 0, data |-> 0]

Fclose(m, file) ==
  [m EXCEPT !.handle = @ - 1, !.data = IF file.kind = "script" THEN @ - 1 ELSE @]

(* n units read in pieces of FileBuf.  A script's answer is read on from   *)
(* the position.  A static file's position never moves, as readFileData    *)
(* returns the length and not 0: every piece starts at its first byte.     *)
Fread(file, n) ==
  [i \in 1 .. n |-> Data(file.url, IF file.kind = "script" THEN file.pos + i
                                   ELSE 1 + ((i - 1) % FileBuf))]
Position(file, n) == IF file.kind = "script" THEN file.pos + n ELSE file.pos

-----------------------------------------------------------------------------
(* The work function.  Its parts take and give a record w: the client k,   *)
(* the send buffer, the memory and whether the return code is >= 0; up     *)
(* says that the connection is still there.                                *)
Min2(a, b) == IF a < b THEN a ELSE b
Space(w) == TxSize - Len(w.tx)
Returns(w, ok) == [w EXCEPT !.ok = ok]

FileCloseKeepsHandle(w) ==
  IF w.k.file = NoFile THEN w ELSE [w EXCEPT !.mem = Fclose(w.mem, w.k.file)]

(* prvFileClose *)
FileClose(w) ==
  IF w.k.file = NoFile THEN w
  ELSE [w EXCEPT !.k.file = NoFile, !.mem = Fclose(w.mem, w.k.file)]

PostDoneKeepsState(w) == [w EXCEPT !.k.post = FALSE, !.k.buf = <<>>, !.mem.post = @ - 1]
(* prvPostClose *)
PostDone(w) == [w EXCEPT !.k.post = FALSE, !.k.buf = <<>>, !.k.state = 0, !.mem.post = @ - 1]
PostClose(w) == FileClose(IF w.k.post THEN PostDone(w) ELSE w)

(* yaromfs_responseCode: a script's own code, which file_POST makes 400 for*)
(* a long body; 200 of a file.                                             *)
ResponseCode(kind, seen) == IF kind = "script" /\ Len(seen) > LongBody THEN 400 ELSE 200

(* prvSendReply, prvSendRedirect *)
SendReply(w, up, code, len, seen) ==
  [w EXCEPT !.k.replied = TRUE, !.ok = up /\ Space(w) > 0,
            !.tx = IF up /\ Space(w) > 0 THEN Append(@, Header(code, len, seen)) ELSE @]

(* prvSendPostReply: the header announces strlen + 2 bytes, which are an   *)
(* empty line and the text; another empty line follows uncounted.          *)
EmptyLine == Data(None, 2)
Refusal(code) == <<Header(code, 1, <<>>), Data(None, 1), EmptyLine>>
SendPostReply(w, up, code) ==
  [w EXCEPT !.k.replied = TRUE, !.ok = up /\ Space(w) > 0,
            !.tx = IF up THEN @ \o SubSeq(Refusal(code), 1, Min2(3, Space(w))) ELSE @]

(* The loop of prvSendFile, until the file ends or the send buffer is full *)
SendPieces(w, up) ==
  LET n == Min2(w.k.left, Space(w))
  IN  CASE n = 0        -> w
        [] n > 0 /\ ~up -> [w EXCEPT !.k.left = @ - Min2(n, FileBuf), !.ok = FALSE]
        [] n > 0 /\ up  -> [w EXCEPT !.tx = @ \o Fread(w.k.file, n), !.k.left = @ - n,
                                     !.k.file.pos = Position(w.k.file, n)]

SendFile(w, up) ==
  LET r == IF w.k.replied THEN w ELSE SendReply(w, up, ResponseCode(w.k.file.kind, w.k.file.seen),
                                                   w.k.left, w.k.file.seen)
      s == IF r.ok THEN SendPieces(r, up) ELSE r
  IN  IF s.k.left = 0 THEN FileClose(s) ELSE s

Opened(w, o) ==
  [w EXCEPT !.k.file = o.file, !.k.left = o.file.len,
            !.mem.handle = @ + o.handle, !.mem.data = @ + o.data]

(* prvOpenURL *)
Unanswered(w) == [w EXCEPT !.k.replied = FALSE]
OpenURL(w, up, r) ==
  LET v == Unanswered(Opened(w, Fopen(r.url, r.fwd, "GET", <<>>)))
  IN  CASE v.k.file = NoFile -> SendReply(v, up, 404, 0, <<>>)
        [] v.k.file.kind = "redirect" -> FileClose(SendReply(v, up, 302, 0, <<>>))
        [] OTHER -> SendFile(v, up)

(* prvHandlePost: the script gets the body; its buffer is freed when the   *)
(* first part of the answer is sent (no script of the image preserves it)  *)
HandlePost(w, up) ==
  LET v == Opened(w, Fopen(w.k.name, None, "POST", w.k.buf))
  IN  IF v.k.file = NoFile
      THEN Returns(PostClose(SendPostReply(v, up, 404)), TRUE)
      ELSE PostDone(SendFile(v, up))

(* prvOpenPostUrl, with the first call of prvGetPost, whose state is 0:    *)
(* n units of the body came with the header                                *)
PostNamed(w, r) == [w EXCEPT !.k.replied = FALSE, !.k.name = r.url, !.k.buf = <<>>]
PostAllocated(w) == [w EXCEPT !.k.post = TRUE, !.mem.post = @ + 1]
FirstPart(w, r, n) == [w EXCEPT !.k.buf = [i \in 1 .. n |-> i], !.k.left = r.body - n]
MoreToCome(w) == [w EXCEPT !.k.state = 1]
OpenPost(w, up, r, n) ==
  LET v == PostNamed(w, r)
      p == PostAllocated(v)
      b == FirstPart(p, r, n)
      max == Lookup(r.url, "POST").max
  IN  CASE ~Found(r.url, "POST") -> SendPostReply(v, up, 404)
        [] Found(r.url, "POST") /\ w.mem.post = MaxPosts ->
             SendPostReply(v, up, 500)
        [] Found(r.url, "POST") /\ w.mem.post < MaxPosts /\ r.body > max ->
             Returns(PostClose(SendPostReply(p, up, 400)), TRUE)
        [] OTHER -> IF n < r.body THEN MoreToCome(b) ELSE HandlePost(b, up)

BodyNotCounted(w, units) ==
  [w EXCEPT !.k.buf = @ \o [i \in 1 .. Len(units) |-> units[i].at]]
BodyOverwrites(w, units) ==
  [w EXCEPT !.k.buf = [i \in 1 .. Len(units) |-> units[i].at], !.k.left = @ - Len(units)]

(* prvGetPost in state 1: append what was received to the POST buffer *)
GetBody(w, units) ==
  [w EXCEPT !.k.buf = @ \o [i \in 1 .. Len(units) |-> units[i].at],
            !.k.left = @ - Len(units)]

-----------------------------------------------------------------------------
(* The list without the client it has come to, at *ppxClient. *)
StillLinked == list
Unlinked == RemoveAt(list, Len(list) - Len(walk) + 1)

DeleteKeepsFile(w) == w
(* vHTTPClientDelete: the connection and the file, not the POST buffer *)
ClientDelete(w) == FileClose(w)
Freed(m) == [m EXCEPT !.client = @ - 1]

(* What the task does with the result for client c: on a negative return   *)
(* code the client leaves the list and is deleted.                         *)
Finish(c, w, rest) ==
  /\ walk' = Tail(walk)
  /\ IF w.ok
     THEN /\ cl' = [cl EXCEPT ![c] = w.k] /\ mem' = w.mem
          /\ tx' = [tx EXCEPT ![c] = w.tx] /\ rx' = [rx EXCEPT ![c] = rest]
          /\ UNCHANGED <<conn, list>>
     ELSE /\ cl' = [cl EXCEPT ![c] = NewClient]
          /\ mem' = Freed(ClientDelete(w).mem)
          /\ tx' = [tx EXCEPT ![c] = <<>>] /\ rx' = [rx EXCEPT ![c] = <<>>]
          /\ conn' = [conn EXCEPT ![c] = "closed"] /\ list' = Unlinked
  /\ UNCHANGED <<asks, want, todo, got>>

Current(c) == walk # <<>> /\ c = Head(walk)
Up(c) == conn[c] = "open"
ReceivedAlways(c, n) == TRUE
(* FreeRTOS_recv of n units: an error on a lost connection with none left *)
Received(c, n) == Up(c) \/ n > 0
W(c) == [k |-> cl[c], tx |-> tx[c], mem |-> mem, ok |-> TRUE]

(* A file is open: send more of it, and receive nothing. *)
WorkFile(c) ==
  /\ Current(c) /\ cl[c].file # NoFile
  /\ Finish(c, SendFile(W(c), Up(c)), rx[c])

(* A POST buffer is there: receive more of the body. *)
WorkPost(c) ==
  /\ Current(c) /\ cl[c].file = NoFile /\ cl[c].post
  /\ LET n == Min2(cl[c].left, Len(rx[c]))
         w == GetBody(W(c), SubSeq(rx[c], 1, n))
     IN  Finish(c, IF w.k.left = 0 THEN HandlePost(w, Up(c))
                   ELSE Returns(w, Received(c, n)),
                SubSeq(rx[c], n + 1, Len(rx[c])))

Waiting(c) == Current(c) /\ cl[c].file = NoFile /\ ~cl[c].post

(* Nothing to receive: 0 on a live connection, an error on a lost one. *)
WorkIdle(c) ==
  /\ Waiting(c) /\ rx[c] = <<>>
  /\ Finish(c, Returns(W(c), Received(c, 0)), <<>>)

(* One receive takes all that has arrived; it is a command when it starts  *)
(* with one, and anything else is dropped, unimplemented commands as well. *)
WorkCommand(c) ==
  /\ Waiting(c) /\ rx[c] # <<>>
  /\ LET u == Head(rx[c])
     IN  Finish(c, CASE u.at = 0 /\ u.req.cmd = "GET"  -> OpenURL(W(c), Up(c), u.req)
                     [] u.at = 0 /\ u.req.cmd = "POST" ->
                          OpenPost(W(c), Up(c), u.req, Len(rx[c]) - 1)
                     [] OTHER -> W(c),
                <<>>)

Work(c) == WorkFile(c) \/ WorkPost(c) \/ WorkIdle(c) \/ WorkCommand(c)

(* The head of a cycle: accept one connection, if there is one, and put    *)
(* its client in front of the list.                                        *)
Accept(c) ==
  /\ walk = <<>> /\ conn[c] = "backlog"
  /\ conn' = [conn EXCEPT ![c] = "open"]
  /\ list' = <<c>> \o list /\ walk' = list'
  /\ mem' = [mem EXCEPT !.client = @ + 1]
  /\ UNCHANGED <<asks, want, todo, rx, tx, got, cl>>

NoAccept ==
  /\ walk = <<>> /\ \A c \in Clients : conn[c] # "backlog"
  /\ walk' = list
  /\ UNCHANGED <<conn, asks, want, todo, rx, tx, got, list, cl, mem>>

Task == NoAccept \/ \E c \in Clients : Accept(c) \/ Work(c)

(* Whether Task can change anything: ENABLED <<Task>>_vars. *)
TaskEnabled == list # <<>> \/ \E c \in Clients : conn[c] = "backlog"

-----------------------------------------------------------------------------
(* The peers and the TCP stack. *)
Connect(c) ==
  /\ conn[c] = "none"
  /\ conn' = [conn EXCEPT ![c] = "backlog"]
  /\ UNCHANGED <<asks, want, todo, rx, tx, got, list, walk, cl, mem>>

Ask(c, r) ==
  /\ conn[c] \in {"backlog", "open"} /\ want[c] = None /\ todo[c] = <<>>
  /\ asks[c] < MaxAsks[c]
  /\ asks' = [asks EXCEPT ![c] = @ + 1]
  /\ want' = [want EXCEPT ![c] = r]
  /\ todo' = [todo EXCEPT ![c] = [i \in 1 .. r.body + 1 |-> [req |-> r, at |-> i - 1]]]
  /\ UNCHANGED <<conn, rx, tx, got, list, walk, cl, mem>>

Deliver(c) ==
  /\ conn[c] \in {"backlog", "open"} /\ todo[c] # <<>>
  /\ rx' = [rx EXCEPT ![c] = Append(@, Head(todo[c]))]
  /\ todo' = [todo EXCEPT ![c] = Tail(@)]
  /\ UNCHANGED <<conn, asks, want, tx, got, list, walk, cl, mem>>

(* A peer takes no notice of an empty line before a status line. *)
EmptyLineFirst(str) == str # <<>> /\ Head(str) = EmptyLine
Ack(c) ==
  /\ conn[c] = "open" /\ tx[c] # <<>>
  /\ got' = [got EXCEPT ![c] = IF got[c] = <<>> /\ EmptyLineFirst(tx[c]) THEN @
                               ELSE Append(@, Head(tx[c]))]
  /\ tx' = [tx EXCEPT ![c] = Tail(@)]
  /\ UNCHANGED <<conn, asks, want, todo, rx, list, walk, cl, mem>>

(* The peer has the header and as many units as its Content-Length says,   *)
(* and takes no notice of an empty line that has come with them.           *)
Complete(c) ==
  /\ conn[c] = "open" /\ got[c] # <<>> /\ Len(got[c]) >= 1 + got[c][1].len
  /\ got' = [got EXCEPT ![c] = <<>>]
  /\ want' = [want EXCEPT ![c] = None]
  /\ UNCHANGED <<conn, asks, todo, rx, tx, list, walk, cl, mem>>

Drop(c) ==
  /\ conn[c] = "open"
  /\ conn' = [conn EXCEPT ![c] = "down"]
  /\ UNCHANGED <<asks, want, todo, rx, tx, got, list, walk, cl, mem>>

Stack(c) == Deliver(c) \/ Ack(c) \/ Complete(c)

Next ==
  \/ Task
  \/ \E c \in Clients : Stack(c) \/ Connect(c) \/ Drop(c) \/ \E r \in Requests[c] : Ask(c, r)

(* The lowest-priority task runs again and again as the others block, and  *)
(* a connection that stays up moves data.                                  *)
Fairness ==
  /\ []<>~TaskEnabled \/ []<><<Task>>_vars      \* WF_vars(Task)
  /\ \A c \in Clients : WF_vars(Deliver(c)) /\ WF_vars(Ack(c)) /\ WF_vars(Complete(c))

Spec == Init /\ [][Next]_vars /\ Fairness

-----------------------------------------------------------------------------
Kinds == {"none", "static", "script", "redirect"}
Files == {e.url : e \in Rom}

(* The type of every variable, and the bounds of the buffers: what is sent *)
(* fits the send buffer, and a POST's body its allocation.                 *)
TypeOK ==
  /\ conn \in [Clients -> {"none", "backlog", "open", "down", "closed"}]
  /\ DOMAIN asks = Clients /\ \A c \in Clients : asks[c] \in 0 .. MaxAsks[c]
  /\ DOMAIN want = Clients /\ \A c \in Clients : want[c] \in Requests[c] \cup {None}
  /\ \A c \in Clients :
       /\ \A i \in DOMAIN rx[c] : rx[c][i].req \in Requests[c]
       /\ Len(tx[c]) <= TxSize
       /\ cl[c].file.url \in Files \cup {None} /\ cl[c].file.kind \in Kinds
       /\ cl[c].left \in Nat /\ cl[c].state \in {0, 1}
       /\ {cl[c].replied, cl[c].post} \subseteq BOOLEAN
       /\ cl[c].post => Len(cl[c].buf) <= Lookup(cl[c].name, "POST").max
  /\ {list, walk} \subseteq Seq(Clients)
  /\ mem \in [client : Nat, handle : Nat, data : Nat, post : 0 .. MaxPosts]

(* The whole answers a request may get: the file or the script's data after*)
(* a header with their length, a redirect, a GET's error without a body,   *)
(* or the refusal of a POST with one unit more than its header announces.  *)
Full(code, url, len, seen) ==
  <<Header(code, len, seen)>> \o [i \in 1 .. len |-> Data(url, i)]
Empty(code) == Full(code, None, 0, <<>>)
Answers(r) ==
  LET e == Lookup(r.url, r.cmd)
      f == IF r.fwd = None THEN r.url ELSE r.fwd
      body == [i \in 1 .. r.body |-> i]
  IN  CASE r.cmd = "GET" /\ ~(Found(r.url, "GET") /\ Found(f, "GET")) -> {Empty(404)}
        [] r.cmd = "GET" /\ Found(r.url, "GET") /\ Found(f, "GET") ->
             IF e.kind = "redirect" THEN {Empty(302)}
             ELSE {Full(200, f, Lookup(f, "GET").len, <<>>)}
        [] r.cmd = "POST" /\ ~Found(r.url, "POST") -> {Refusal(404)}
        [] r.cmd = "POST" /\ Found(r.url, "POST") ->
             {Refusal(500), IF r.body > e.max THEN Refusal(400)
                            ELSE Full(ResponseCode(e.kind, body), f, e.len, body)}
        [] OTHER -> {<<>>}

(* What a peer has of a reply and what is on its way to it: the empty line *)
(* the reply before may have left in front of it is skipped.               *)
Reply(c) ==
  got[c] \o (IF got[c] = <<>> /\ EmptyLineFirst(tx[c]) THEN Tail(tx[c]) ELSE tx[c])

(* What a peer has received, with what is on its way, is the beginning of  *)
(* an answer to its request and to no other: the file's units in order and *)
(* once each, however the sending is cut up, under the length announced;   *)
(* a script that is posted to has seen the whole body in order; and of the *)
(* unit that no length announces (FreeRTOS_HTTP_server.c:254) nothing but  *)
(* an empty line ever comes between two replies.                           *)
RepliesRight ==
  \A c \in Clients :
    IF want[c] = None THEN Reply(c) = <<>>
    ELSE \E s \in Answers(want[c]) : IsPrefix(Reply(c), s)

Count(P(_)) == Cardinality({c \in Clients : P(c)})
Listed(c) == \E i \in DOMAIN list : list[i] = c

(* pxClients holds every accepted connection once and nothing else, and    *)
(* the cycle under way has still to serve a tail of it: unlinking a client *)
(* in the middle of the walk neither skips another nor leaves a dead one.  *)
ListSound ==
  /\ IsSuffix(walk, list)
  /\ \A i, j \in DOMAIN list : list[i] = list[j] => i = j
  /\ \A c \in Clients : Listed(c) <=> conn[c] \in {"open", "down"}

(* Every client record, file handle and script answer in memory belongs to *)
(* a client of the list: none is lost on any path, an open file that meets *)
(* a dead connection, a script that names a missing file, a refused POST.  *)
FilesOwned ==
  /\ mem.client = Len(list)
  /\ mem.handle = Count(LAMBDA c : cl[c].file # NoFile)
  /\ mem.data = Count(LAMBDA c : cl[c].file.kind = "script")

(* A client's POST buffer is there exactly while its body comes in.        *)
PostPhase ==
  \A c \in Clients :
    /\ cl[c].post <=> cl[c].state = 1
    /\ cl[c].post => cl[c].file = NoFile /\ cl[c].left > 0
    /\ cl[c].file # NoFile => cl[c].replied /\ cl[c].left > 0

(* "This HTTP client stops, close / release all resources"                 *)
(* (FreeRTOS_HTTP_server.c:153): the POST buffers in memory are those of   *)
(* the clients that are receiving a body.                                  *)
PostsOwned == mem.post = Count(LAMBDA c : cl[c].post)

(* Every GET or POST of a connection that stays up is answered to the end, *)
(* if the server has received all of the requests before it.               *)
Asked(c) ==
  /\ want[c] # None /\ want[c].cmd \in {"GET", "POST"}
  /\ rx[c] = <<>> /\ Len(todo[c]) = want[c].body + 1
Answered == \A c \in Clients : Asked(c) ~> want[c] = None \/ conn[c] \in {"down", "closed"}

(* A lost connection is noticed and its client deleted, except one whose   *)
(* file waits for room in a send buffer nobody empties any more: its work  *)
(* function calls neither FreeRTOS_recv nor FreeRTOS_send.                 *)
Stuck(c) == cl[c].file # NoFile /\ Len(tx[c]) = TxSize
LostOnesDeleted == \A c \in Clients : conn[c] = "down" ~> conn[c] = "closed" \/ Stuck(c)
=============================================================================

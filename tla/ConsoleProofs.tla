---------------------------- MODULE ConsoleProofs ----------------------------
(***************************************************************************)
(* The two consoles and the interpreter they share, for any users,         *)
(* length of a line, number of commands and of connections.                *)
(***************************************************************************)
EXTENDS Console, TLAPS, SequenceTheorems

Places == {"wait", "prompt", "login", "password", "shell", "call", "poll", "halt"}
Editor(s) ==
  [line : {l \in Seq(Vocabulary[s]) : Len(l) < LineMax},
   ready : BOOLEAN, cancel : BOOLEAN, reply : BOOLEAN]
Context == [cmd : Commands \cup {None}, state : 0 .. 4, cancel : BOOLEAN]

(* Types; a login under way has not used up its tries.                     *)
Types ==
  /\ at \in [Sessions -> Places]
  /\ conn \in {"none", "up", "down"} /\ conns \in 0 .. MaxConns
  /\ ed = [s \in Sessions |-> ed[s]] /\ \A s \in Sessions : ed[s] \in Editor(s)
  /\ BadUser \in BOOLEAN /\ Tries \in 0 .. 4
  /\ at["tcp"] \in {"prompt", "login", "password"} => Tries <= 3
  /\ ctx \in [Sessions -> Context] /\ \A s \in Sessions : ctx[s].cmd # "sdram"
  /\ pxHelp \in 0 .. NHelp /\ PingMutex \in Sessions \cup {None}
  /\ listing \in Sessions \cup {None, Lost} /\ blocks \in Nat
  /\ asked = [s \in Sessions |-> asked[s]] /\ ran = [s \in Sessions |-> ran[s]]
  /\ shown = [s \in Sessions |-> shown[s]]

(* The serial console is never cut off: its context is that of a command   *)
(* exactly while it is in the loop that calls it.                          *)
UartInv ==
  /\ at["uart"] \in {"shell", "call", "poll", "halt"}
  /\ at["uart"] = "shell" => ctx["uart"].cmd = None
  /\ at["uart"] = "poll" =>
       ctx["uart"].cmd = asked["uart"] /\ ran["uart"] = asked["uart"] /\ asked["uart"] # None
  /\ at["uart"] = "call" =>
       \/ ctx["uart"].cmd # None /\ ctx["uart"].cmd = asked["uart"]
       \/ ctx["uart"].cmd = None /\ asked["uart"] = Named(ed["uart"].line)

(* What help has printed, when it is the serial user's alone.              *)
Listed(s) == \A i \in DOMAIN shown[s] : shown[s][i] = i
HelpInv ==
  /\ ctx["tcp"].cmd # "help" /\ ran["tcp"] # "help" /\ shown["tcp"] = <<>>
  /\ shown["uart"] \in Seq(Nat) /\ Listed("uart")
  /\ at["uart"] = "shell" /\ ran["uart"] = "help" => Len(shown["uart"]) = NHelp
  /\ IF ctx["uart"].cmd = "help" THEN pxHelp > 0 /\ Len(shown["uart"]) = pxHelp - 1
     ELSE pxHelp = 0

ConsoleInv == Types /\ ResourcesOwned /\ UartInv

-----------------------------------------------------------------------------
(* The line editor and the context of a command.                           *)
LEMMA Distinct ==
  /\ None \notin Commands /\ None # "uart" /\ None # "tcp" /\ None # Lost
  /\ Sessions = {"uart", "tcp"} /\ Lost \notin Sessions
  BY ConsoleAssumption DEF Sessions, Lost

LEMMA FreshTyped ==
  ASSUME NEW s \in Sessions
  PROVE  FreshLine \in Editor(s) /\ FreshLine.line = <<>>
  <1>1. PICK none \in Seq(Vocabulary[s]) : none = <<>> /\ Len(none) = 0
    BY EmptySeq
  <1>2. FreshLine = [line |-> none, ready |-> FALSE, cancel |-> FALSE, reply |-> FALSE]
    BY <1>1 DEF FreshLine
  <1>. QED BY <1>1, <1>2, ConsoleAssumption DEF Editor

LEMMA ReceivedTyped ==
  ASSUME NEW s \in Sessions, NEW e \in Editor(s), NEW k \in Inputs(s)
  PROVE  Received(e, k) \in Editor(s)
  <1>1. /\ e.line \in Seq(Vocabulary[s]) /\ Len(e.line) < LineMax /\ Len(e.line) \in Nat
        /\ e.ready \in BOOLEAN /\ e.cancel \in BOOLEAN /\ e.reply \in BOOLEAN
    BY DEF Editor
  <1>2. LineMax \in Nat \ {0}
    BY ConsoleAssumption
  <1>3. k.word \in Vocabulary[s] \cup {None}
    BY DEF Inputs
  <1>4. CASE Overflows(e, k)
    <2>1. PICK none \in Seq(Vocabulary[s]) : none = <<>> /\ Len(none) = 0
      BY EmptySeq
    <2>2. Received(e, k) = [e EXCEPT !.line = none, !.reply = TRUE]
      BY <1>4, <2>1 DEF Received
    <2>3. none \in {l \in Seq(Vocabulary[s]) : Len(l) < LineMax}
      BY <1>2, <2>1
    <2>. QED BY <2>2, <2>3 DEF Editor
  <1>5. CASE ~Overflows(e, k)
    <2>1. PICK line \in Seq(Vocabulary[s]) :
            /\ line = IF k.word = None THEN e.line ELSE Append(e.line, k.word)
            /\ Len(line) < LineMax
      <3>1. CASE k.word = None
        BY <1>1, <3>1
      <3>2. CASE k.word # None
        <4>1. PICK l \in Seq(Vocabulary[s]), w \in Vocabulary[s] : l = e.line /\ w = k.word
          BY <1>1, <1>3, <3>2
        <4>2. PICK line \in Seq(Vocabulary[s]) : line = Append(l, w) /\ Len(line) = Len(l) + 1
          BY AppendProperties
        <4>3. PICK n \in Nat : n = Len(l) /\ n < LineMax /\ n + 1 # LineMax
          BY <1>1, <1>5, <3>2, <4>1 DEF Overflows
        <4>4. Len(line) < LineMax
          BY <1>2, <4>2, <4>3
        <4>. QED BY <3>2, <4>1, <4>2, <4>4
      <3>. QED BY <3>1, <3>2
    <2>2. PICK ready \in BOOLEAN, cancel \in BOOLEAN, reply \in BOOLEAN :
            /\ ready = (e.ready \/ k.ctrl = "CR") /\ cancel = (e.cancel \/ k.ctrl = "Stop")
            /\ reply = (e.reply \/ k.ctrl = None)
      OBVIOUS
    <2>3. Received(e, k) = [e EXCEPT !.line = line, !.ready = ready, !.cancel = cancel, !.reply = reply]
      BY <1>5, <2>1, <2>2 DEF Received
    <2>. QED BY <1>1, <2>1, <2>2, <2>3 DEF Editor
  <1>. QED BY <1>4, <1>5

LEMMA EchoedTyped ==
  ASSUME NEW s \in Sessions, NEW e \in Editor(s)
  PROVE  Echoed(e) \in Editor(s) /\ Echoed(e).line = e.line
  BY DEF Echoed, Editor

LEMMA NamedIs ==
  ASSUME NEW s \in Sessions, NEW line \in Seq(Vocabulary[s])
  PROVE  /\ Named(line) \in Commands \cup {None}
         /\ Named(line) # None => Named(line) \in Vocabulary[s]
  <1>1. Len(line) = 1 => Head(line) \in Vocabulary[s]
    OBVIOUS
  <1>. QED BY <1>1 DEF Named

LEMMA NoCommandTyped == NoCommand \in Context /\ NoCommand.cmd = None
  BY DEF NoCommand, Context

LEMMA CurrentIs ==
  ASSUME Types, NEW s \in Sessions
  PROVE  /\ Current(s) \in Context
         /\ ctx[s].cmd # None => Current(s) = ctx[s]
         /\ ctx[s].cmd = None => /\ Current(s).state = 0 /\ ~Current(s).cancel
                                 /\ Current(s).cmd = Named(ed[s].line)
  <1>1. ctx[s] \in Context /\ ed[s].line \in Seq(Vocabulary[s])
    BY DEF Types, Editor
  <1>2. Named(ed[s].line) \in Commands \cup {None}
    BY <1>1, NamedIs
  <1>3. PICK n \in Commands \cup {None} : n = Named(ed[s].line)
    BY <1>2
  <1>4. PICK c : c = [NoCommand EXCEPT !.cmd = n]
    OBVIOUS
  <1>5. c = [cmd |-> n, state |-> 0, cancel |-> FALSE]
    BY <1>4 DEF NoCommand
  <1>6. c \in Context /\ c.cmd = n /\ c.state = 0 /\ ~c.cancel
    BY ONLY <1>5, n \in Commands \cup {None} DEF Context
  <1>. QED BY <1>1, <1>3, <1>4, <1>6 DEF Current

-----------------------------------------------------------------------------
(* One part of a command: what its context holds before and after.         *)
Has(c, commands) == c.cmd \in commands /\ c.state > 0
Uses(c) == IF Has(c, {"ping", "stats"}) THEN 1 ELSE 0
Changed(s, cmd, state) ==
  /\ ctx' \in [Sessions -> Context] /\ \A t \in Sessions : t # s => ctx'[t] = ctx[t]
  /\ ctx'[s].cmd = cmd /\ ctx'[s].state = state
PartDone(s, c, more) ==
  /\ ctx' \in [Sessions -> Context] /\ \A t \in Sessions : t # s => ctx'[t] = ctx[t]
  /\ ctx'[s].cmd = IF more THEN c.cmd ELSE None
  /\ PingMutex' \in Sessions \cup {None} /\ listing' \in Sessions \cup {None, Lost}
  /\ blocks' \in Nat
  /\ ResourcesOwned'

LEMMA ContinueIs ==
  ASSUME Types, NEW s \in Sessions, NEW c \in Context, NEW state \in 0 .. 4, Continue(s, c, state)
  PROVE  Changed(s, c.cmd, state)
  <1>1. PICK n : n = [c EXCEPT !.state = state]
    OBVIOUS
  <1>2. n \in Context /\ n.cmd = c.cmd /\ n.state = state
    BY <1>1 DEF Context
  <1>3. ctx' = [ctx EXCEPT ![s] = n]
    BY <1>1 DEF Continue
  <1>. QED BY <1>2, <1>3 DEF Changed, Types

LEMMA FinishIs ==
  ASSUME Types, NEW s \in Sessions, Finish(s)
  PROVE  Changed(s, None, 0)
  BY NoCommandTyped DEF Finish, Changed, Types, NoCommand

LEMMA OwnedBefore ==
  ASSUME Types, ResourcesOwned, NEW s \in Sessions, NEW t \in Sessions, s # t,
         NEW c, c = Current(s)
  PROVE  /\ PingMutex = s <=> Has(c, {"ping"})
         /\ PingMutex = t <=> Has(ctx[t], {"ping"})
         /\ listing = s <=> Has(c, {"view"})
         /\ listing = t <=> Has(ctx[t], {"view"})
         /\ blocks = Uses(c) + Uses(ctx[t])
  <1>1. \A cmd \in Commands : Has(c, {cmd}) <=> InParts(s, {cmd})
    BY CurrentIs, Distinct DEF Has, InParts
  <1>2. Has(c, {"ping", "stats"}) <=> InParts(s, {"ping", "stats"})
    BY CurrentIs, Distinct DEF Has, InParts, Commands
  <1>3. Count(s) = Uses(c) /\ Count(t) = Uses(ctx[t])
    BY <1>2 DEF Count, Uses, Has, InParts
  <1>4. Count("uart") + Count("tcp") = Count(s) + Count(t)
    BY Distinct DEF Count
  <1>. QED BY <1>1, <1>3, <1>4 DEF ResourcesOwned, MutexOwned, MemoryOwned, Has, InParts, Commands

LEMMA OwnedAfter ==
  ASSUME Types, NEW s \in Sessions, NEW t \in Sessions, s # t, NEW cmd, NEW state, NEW more,
         Changed(s, cmd, state),
         PingMutex' = s <=> cmd = "ping" /\ state > 0,
         PingMutex' = t <=> Has(ctx[t], {"ping"}),
         listing' = s <=> cmd = "view" /\ state > 0,
         listing' = t <=> Has(ctx[t], {"view"}),
         blocks' = (IF cmd \in {"ping", "stats"} /\ state > 0 THEN 1 ELSE 0) + Uses(ctx[t])
  PROVE  ResourcesOwned'
  <1>1. ctx'[t] = ctx[t] /\ ctx'[s].cmd = cmd /\ ctx'[s].state = state
    BY DEF Changed
  <1>2. Sessions = {s, t}
    BY Distinct
  <1>3. Count(s)' = (IF cmd \in {"ping", "stats"} /\ state > 0 THEN 1 ELSE 0)
    BY <1>1 DEF Count, InParts
  <1>4. Count(t)' = Uses(ctx[t])
    BY <1>1 DEF Count, Uses, InParts, Has
  <1>5. Count("uart")' + Count("tcp")' = Count(s)' + Count(t)'
    BY Distinct DEF Count
  <1>6. MutexOwned'
    BY <1>1, <1>2 DEF MutexOwned, InParts, Has
  <1>7. MemoryOwned'
    BY <1>1, <1>2, <1>3, <1>4, <1>5 DEF MemoryOwned, InParts, Has
  <1>. QED BY <1>6, <1>7 DEF ResourcesOwned

LEMMA HelpOwned ==
  ASSUME Types, ResourcesOwned, NEW s \in Sessions, NEW more \in BOOLEAN, NEW c, c = Current(s),
         c.cmd = "help", HelpPart(s, c, more)
  PROVE  PartDone(s, c, more)
  <1>1. PICK t \in Sessions : s # t
    BY Distinct
  <1>2. c \in Context /\ PingMutex' = PingMutex /\ listing' = listing /\ blocks' = blocks
    BY CurrentIs DEF HelpPart
  <1>3. PICK cmd, state : Changed(s, cmd, state) /\ cmd = IF more THEN c.cmd ELSE None
    BY <1>2, ContinueIs, FinishIs DEF HelpPart, Context
  <1>4. ResourcesOwned'
    BY <1>1, <1>2, <1>3, OwnedBefore, OwnedAfter, Distinct DEF Has, Uses, Commands
  <1>. QED BY <1>2, <1>3, <1>4 DEF PartDone, Changed, Types

LEMMA TimeOwned ==
  ASSUME Types, ResourcesOwned, NEW s \in Sessions, NEW more \in BOOLEAN, NEW c, c = Current(s),
         c.cmd \notin {"help", "ping", "stats", "view", "sdram"}, TimePart(s, c, more)
  PROVE  PartDone(s, c, more)
  <1>1. PICK t \in Sessions : s # t
    BY Distinct
  <1>2. /\ c \in Context /\ PingMutex' = PingMutex /\ listing' = listing /\ blocks' = blocks
        /\ ~more /\ Changed(s, None, 0)
    BY CurrentIs, FinishIs DEF TimePart, shared
  <1>3. ResourcesOwned'
    BY <1>1, <1>2, OwnedBefore, OwnedAfter, Distinct DEF Has, Uses, Commands
  <1>. QED BY <1>2, <1>3 DEF PartDone, Changed, Types

LEMMA SdramOwned ==
  ASSUME Types, ResourcesOwned, NEW s \in Sessions, NEW more \in BOOLEAN, NEW c, c = Current(s),
         c.cmd = "sdram", listing = None, SdramPart(s, c, more)
  PROVE  PartDone(s, c, more)
  <1>1. PICK t \in Sessions : s # t
    BY Distinct
  <1>2. /\ c \in Context /\ PingMutex' = PingMutex /\ listing' = Lost /\ blocks' = blocks
        /\ ~more /\ Changed(s, None, 0)
    BY CurrentIs, FinishIs DEF SdramPart
  <1>3. ResourcesOwned'
    BY <1>1, <1>2, OwnedBefore, OwnedAfter, Distinct DEF Has, Uses, Commands
  <1>. QED BY <1>2, <1>3 DEF PartDone, Changed, Types

LEMMA ViewOwned ==
  ASSUME Types, ResourcesOwned, NEW s \in Sessions, NEW more \in BOOLEAN, NEW c, c = Current(s),
         c.cmd = "view", c.state = 0 => listing = None, ViewPart(s, c, more)
  PROVE  PartDone(s, c, more)
  <1>1. PICK t \in Sessions : s # t
    BY Distinct
  <1>2. c \in Context /\ PingMutex' = PingMutex /\ blocks' = blocks
    BY CurrentIs DEF ViewPart
  <1>3. CASE more
    <2>1. /\ Changed(s, "view", 1)
          /\ listing' = s \/ (listing' = listing /\ c.state = 1)
      BY <1>2, <1>3, ContinueIs DEF ViewPart
    <2>2. listing' = s
      BY <1>1, <2>1, OwnedBefore DEF Has
    <2>3. listing' # t /\ listing # t
      BY <1>1, <1>3, <2>2, OwnedBefore, Distinct DEF Has, ViewPart
    <2>4. ResourcesOwned'
      BY <1>1, <1>2, <2>1, <2>2, <2>3, OwnedBefore, OwnedAfter, Distinct DEF Has, Uses
    <2>. QED BY <1>2, <1>3, <2>1, <2>2, <2>4 DEF PartDone, Changed, Types
  <1>4. CASE ~more
    <2>1. Changed(s, None, 0) /\ listing' \in {listing, None}
      BY <1>4, FinishIs DEF ViewPart, LastPageFreed
    <2>2. listing # t /\ listing' # t /\ listing' # s
      BY <1>1, <1>4, <2>1, OwnedBefore, Distinct DEF Has, ViewPart, LastPageFreed
    <2>3. ResourcesOwned'
      BY <1>1, <1>2, <2>1, <2>2, OwnedBefore, OwnedAfter, Distinct DEF Has, Uses
    <2>. QED BY <1>2, <1>4, <2>1, <2>3 DEF PartDone, Changed, Types
  <1>. QED BY <1>3, <1>4

LEMMA StatsOwned ==
  ASSUME Types, ResourcesOwned, NEW s \in Sessions, NEW more \in BOOLEAN, NEW c, c = Current(s),
         c.cmd = "stats", StatsPart(s, c, more)
  PROVE  PartDone(s, c, more)
  <1>1. PICK t \in Sessions : s # t
    BY Distinct
  <1>2. c \in Context /\ PingMutex' = PingMutex /\ listing' = listing
    BY CurrentIs DEF StatsPart
  <1>3. PICK b \in 0 .. 1 : b = Uses(ctx[t])
    BY DEF Uses
  <1>4. blocks = (IF c.state > 0 THEN 1 ELSE 0) + b
    <2>1. blocks = Uses(c) + b
      BY <1>1, <1>3, OwnedBefore
    <2>. QED BY <2>1 DEF Uses, Has
  <1>5. CASE more
    <2>1. Changed(s, "stats", 1)
      BY <1>2, <1>5, ContinueIs DEF StatsPart
    <2>2. blocks' = 1 + b
      BY <1>3, <1>4, <1>5 DEF StatsPart
    <2>3. ResourcesOwned'
      BY <1>1, <1>2, <1>3, <2>1, <2>2, OwnedBefore, OwnedAfter DEF Has
    <2>. QED BY <1>2, <1>3, <1>5, <2>1, <2>2, <2>3 DEF PartDone, Changed, Types
  <1>6. CASE ~more
    <2>1. Changed(s, None, 0)
      BY <1>6, FinishIs DEF StatsPart
    <2>2. blocks' = 0 + b
      BY <1>3, <1>4, <1>6 DEF StatsPart
    <2>3. ResourcesOwned'
      BY <1>1, <1>2, <1>3, <2>1, <2>2, OwnedBefore, OwnedAfter, Distinct DEF Has
    <2>. QED BY <1>2, <1>3, <1>6, <2>1, <2>2, <2>3 DEF PartDone, Changed, Types
  <1>. QED BY <1>5, <1>6

LEMMA PingOwned ==
  ASSUME Types, ResourcesOwned, NEW s \in Sessions, NEW more \in BOOLEAN, NEW c, c = Current(s),
         c.cmd = "ping", PingPart(s, c, more)
  PROVE  PartDone(s, c, more)
  <1>1. PICK t \in Sessions : s # t
    BY Distinct
  <1>2. c \in Context /\ listing' = listing /\ c.state \in 0 .. 4
    BY CurrentIs DEF PingPart, Context
  <1>3. PICK b \in 0 .. 1 : b = Uses(ctx[t])
    BY DEF Uses
  <1>4. /\ blocks = (IF c.state > 0 THEN 1 ELSE 0) + b
        /\ PingMutex = s <=> c.state > 0
        /\ PingMutex = t <=> Has(ctx[t], {"ping"})
    <2>1. blocks = Uses(c) + b
      BY <1>1, <1>3, OwnedBefore
    <2>2. /\ PingMutex = s <=> Has(c, {"ping"})
          /\ PingMutex = t <=> Has(ctx[t], {"ping"})
      BY <1>1, OwnedBefore
    <2>. QED BY <2>1, <2>2 DEF Uses, Has
  <1>5. CASE more
    <2>1. PICK state \in 1 .. 4 : Changed(s, "ping", state)
      <3>1. PICK state \in 1 .. 4 : Continue(s, c, state)
        BY <1>2, <1>5 DEF PingPart, PingStart, PingSteps
      <3>. QED BY <1>2, <3>1, ContinueIs
    <2>2. PingMutex' = s /\ blocks' = 1 + b /\ (PingMutex \in {None, s})
      BY <1>2, <1>3, <1>4, <1>5 DEF PingPart, PingStart
    <2>3. PingMutex # t /\ PingMutex' # t
      BY <1>1, <2>2, Distinct
    <2>4. ResourcesOwned'
      BY <1>1, <1>2, <1>3, <1>4, <2>1, <2>2, <2>3, OwnedBefore, OwnedAfter DEF Has
    <2>. QED BY <1>2, <1>3, <1>5, <2>1, <2>2, <2>4 DEF PartDone, Changed, Types
  <1>6. CASE ~more
    <2>1. Changed(s, None, 0)
      BY <1>6, FinishIs DEF PingPart, PingStart, PingReleased
    <2>2. \/ c.state = 0 /\ PingMutex' = PingMutex /\ blocks' = blocks
          \/ c.state > 0 /\ PingMutex' = None /\ blocks' = blocks - 1
      BY <1>2, <1>6 DEF PingPart, PingStart, PingReleased, GiveMutex
    <2>3. blocks' = 0 + b /\ PingMutex' # s /\ (PingMutex' = t <=> Has(ctx[t], {"ping"}))
      <3>1. CASE c.state = 0 /\ PingMutex' = PingMutex /\ blocks' = blocks
        BY <1>4, <3>1
      <3>2. CASE c.state > 0 /\ PingMutex' = None /\ blocks' = blocks - 1
        <4>1. PingMutex = s /\ blocks = 1 + b
          BY <1>4, <3>2
        <4>2. ~Has(ctx[t], {"ping"}) /\ None # s /\ None # t
          BY <1>1, <1>4, <4>1, Distinct
        <4>. QED BY <1>3, <3>2, <4>1, <4>2
      <3>. QED BY <2>2, <3>1, <3>2
    <2>4. ResourcesOwned'
      BY <1>1, <1>2, <1>3, <2>1, <2>3, OwnedBefore, OwnedAfter, Distinct DEF Has
    <2>. QED BY <1>2, <1>3, <1>6, <2>1, <2>2, <2>3, <2>4 DEF PartDone, Changed, Types
  <1>. QED BY <1>5, <1>6

(* A call leaves every resource with its owner.                            *)
LEMMA CallOwned ==
  ASSUME Types, ResourcesOwned, NEW s \in Sessions, NEW more \in BOOLEAN,
         Lists(s) => listing = None, ProcessCommand(s, more)
  PROVE  /\ PartDone(s, Current(s), more)
         /\ pxHelp' \in 0 .. NHelp
         /\ more => Current(s).cmd \notin {None, "sdram"}
         /\ ran' = [ran EXCEPT ![s] = Current(s).cmd]
         /\ shown' = [t \in Sessions |-> shown'[t]]
  <1>1. PICK c : c = Current(s)
    OBVIOUS
  <1>2. c \in Context /\ ran' = [ran EXCEPT ![s] = c.cmd]
    BY <1>1, CurrentIs DEF ProcessCommand
  <1>3. CASE c.cmd = "help"
    <2>1. HelpPart(s, c, more)
      BY <1>1, <1>3 DEF ProcessCommand
    <2>2. pxHelp' \in 0 .. NHelp
      <3>1. PICK p \in 1 .. NHelp : p = IF pxHelp = 0 THEN 1 ELSE pxHelp
        BY ConsoleAssumption DEF Types
      <3>2. pxHelp' = IF p < NHelp THEN p + 1 ELSE 0
        BY <2>1, <3>1 DEF HelpPart
      <3>3. NHelp \in Nat
        BY ConsoleAssumption
      <3>. QED BY <3>2, <3>3
    <2>3. shown' = [t \in Sessions |-> shown'[t]]
      BY <2>1 DEF HelpPart, Types
    <2>. QED BY <1>1, <1>2, <1>3, <2>1, <2>2, <2>3, HelpOwned, Distinct DEF Commands
  <1>4. CASE c.cmd = "ping"
    <2>1. PingPart(s, c, more)
      BY <1>1, <1>4 DEF ProcessCommand
    <2>2. pxHelp' = pxHelp /\ shown' = shown
      BY <2>1 DEF PingPart
    <2>. QED BY <1>1, <1>2, <1>4, <2>1, <2>2, PingOwned, Distinct DEF Commands, Types
  <1>5. CASE c.cmd = "stats"
    <2>1. StatsPart(s, c, more)
      BY <1>1, <1>5 DEF ProcessCommand
    <2>2. pxHelp' = pxHelp /\ shown' = shown
      BY <2>1 DEF StatsPart
    <2>. QED BY <1>1, <1>2, <1>5, <2>1, <2>2, StatsOwned, Distinct DEF Commands, Types
  <1>6. CASE c.cmd = "view"
    <2>1. ViewPart(s, c, more)
      BY <1>1, <1>6 DEF ProcessCommand
    <2>2. pxHelp' = pxHelp /\ shown' = shown
      BY <2>1 DEF ViewPart
    <2>3. c.state = 0 => listing = None
      BY <1>1, <1>6 DEF Lists
    <2>. QED BY <1>1, <1>2, <1>6, <2>1, <2>2, <2>3, ViewOwned, Distinct DEF Commands, Types
  <1>7. CASE c.cmd = "sdram"
    <2>1. SdramPart(s, c, more)
      BY <1>1, <1>7 DEF ProcessCommand
    <2>2. pxHelp' = pxHelp /\ shown' = shown
      BY <2>1 DEF SdramPart
    <2>3. listing = None
      <3>1. c.state = 0
        BY <1>1, <1>7, CurrentIs DEF Types
      <3>. QED BY <1>1, <1>7, <3>1 DEF Lists
    <2>4. ~more
      BY <2>1 DEF SdramPart
    <2>. QED BY <1>1, <1>2, <1>7, <2>1, <2>2, <2>3, <2>4, SdramOwned DEF Types
  <1>8. CASE c.cmd \notin {"help", "ping", "stats", "view", "sdram"}
    <2>1. TimePart(s, c, more)
      BY <1>1, <1>8 DEF ProcessCommand
    <2>2. ~more /\ pxHelp' = pxHelp /\ shown' = shown
      BY <2>1 DEF TimePart, shared
    <2>. QED BY <1>1, <1>2, <1>8, <2>1, <2>2, TimeOwned DEF Types
  <1>. QED BY <1>3, <1>4, <1>5, <1>6, <1>7, <1>8

-----------------------------------------------------------------------------
(* Where a session goes, with its line.                                    *)
Went(s, place, e) ==
  /\ at' \in [Sessions -> Places] /\ at'[s] = place /\ ed'[s] = e
  /\ \A t \in Sessions : t # s => at'[t] = at[t] /\ ed'[t] = ed[t]
  /\ ed' = [t \in Sessions |-> ed'[t]] /\ \A t \in Sessions : ed'[t] \in Editor(t)

LEMMA GotoIs ==
  ASSUME Types, NEW s \in Sessions, NEW place \in Places, NEW e \in Editor(s), Goto(s, place, e)
  PROVE  Went(s, place, e)
  BY DEF Goto, Went, Types

(* The dialogue of the TCP session touches neither the interpreter nor the *)
(* serial console.                                                         *)
LEMMA DialogInv ==
  ASSUME ConsoleInv, NEW place \in Places, NEW e, Went("tcp", place, e),
         ctx' = ctx, shared' = shared, history' = history,
         conn' \in {"none", "up", "down"}, conns' \in 0 .. MaxConns, BadUser' \in BOOLEAN,
         Tries' \in 0 .. 4, place \in {"prompt", "login", "password"} => Tries' <= 3
  PROVE  ConsoleInv' /\ (HelpInv => HelpInv')
  <1>1. /\ pxHelp' = pxHelp /\ PingMutex' = PingMutex /\ listing' = listing /\ blocks' = blocks
        /\ asked' = asked /\ ran' = ran /\ shown' = shown
    BY DEF shared, history
  <1>2. "uart" \in Sessions /\ "tcp" \in Sessions /\ at'["uart"] = at["uart"] /\ ed'["uart"] = ed["uart"]
    BY DEF Sessions, Went
  <1>3. Types'
    BY <1>1, <1>2 DEF ConsoleInv, Types, Went
  <1>4. ResourcesOwned'
    BY <1>1 DEF ConsoleInv, ResourcesOwned, MutexOwned, MemoryOwned, Count, InParts
  <1>5. UartInv'
    BY <1>1, <1>2 DEF ConsoleInv, UartInv
  <1>6. HelpInv => HelpInv'
    BY <1>1, <1>2 DEF HelpInv, Listed
  <1>. QED BY <1>3, <1>4, <1>5, <1>6 DEF ConsoleInv

LEMMA DialogTypes ==
  ASSUME ConsoleInv
  PROVE  /\ Types /\ "tcp" \in Sessions /\ ed["tcp"] \in Editor("tcp")
         /\ conn \in {"none", "up", "down"} /\ conns \in 0 .. MaxConns /\ BadUser \in BOOLEAN
         /\ Tries \in 0 .. 4 /\ MaxConns \in Nat
         /\ at["tcp"] \in {"prompt", "login", "password"} => Tries <= 3
  BY ConsoleAssumption DEF ConsoleInv, Types, Sessions

LEMMA AcceptInv ==
  ASSUME ConsoleInv, Accept
  PROVE  ConsoleInv' /\ (HelpInv => HelpInv')
  <1>1. Went("tcp", "prompt", ed["tcp"])
    BY DialogTypes, GotoIs DEF Accept, Places
  <1>2. conns' \in 0 .. MaxConns /\ conn' = "up" /\ Tries' = 0 /\ BadUser' = BadUser
    BY DialogTypes DEF Accept
  <1>. QED BY <1>1, <1>2, DialogTypes, DialogInv DEF Accept, Places

LEMMA PrintLoginInv ==
  ASSUME ConsoleInv, PrintLogin
  PROVE  ConsoleInv' /\ (HelpInv => HelpInv')
  <1>1. PICK place \in {"login", "wait"} : Went("tcp", place, ed["tcp"])
    BY DialogTypes, GotoIs DEF PrintLogin, Places
  <1>2. /\ ctx' = ctx /\ shared' = shared /\ history' = history
        /\ conn' = conn /\ conns' = conns /\ BadUser' = BadUser /\ Tries' = Tries /\ Tries <= 3
    BY DialogTypes DEF PrintLogin, dialog
  <1>. QED BY <1>1, <1>2, DialogTypes, DialogInv DEF Places

LEMMA RecvFailsInv ==
  ASSUME ConsoleInv, RecvFails
  PROVE  ConsoleInv' /\ (HelpInv => HelpInv')
  <1>1. Went("tcp", "wait", ed["tcp"])
    BY DialogTypes, GotoIs DEF RecvFails, Places
  <1>2. /\ ctx' = ctx /\ shared' = shared /\ history' = history
        /\ conn' = conn /\ conns' = conns /\ BadUser' = BadUser /\ Tries' = Tries
    BY DEF RecvFails, dialog
  <1>. QED BY <1>1, <1>2, DialogTypes, DialogInv DEF Places

LEMMA GetLoginInv ==
  ASSUME ConsoleInv, NEW k \in Inputs("tcp"), GetLogin(k)
  PROVE  ConsoleInv' /\ (HelpInv => HelpInv')
  <1>1. PICK e \in Editor("tcp") : e = Received(ed["tcp"], k)
    BY DialogTypes, ReceivedTyped
  <1>2. Echoed(e) \in Editor("tcp") /\ ClearCommand \in Editor("tcp")
    BY DialogTypes, EchoedTyped, FreshTyped DEF ClearCommand
  <1>3. PICK place \in {"login", "password", "wait"}, f \in Editor("tcp") : Goto("tcp", place, f)
    BY <1>1, <1>2 DEF GetLogin
  <1>4. Went("tcp", place, f)
    BY <1>3, DialogTypes, GotoIs DEF Places
  <1>5. BadUser' \in BOOLEAN
    BY DialogTypes DEF GetLogin, BadName
  <1>6. /\ ctx' = ctx /\ shared' = shared /\ history' = history
        /\ conn' = conn /\ conns' = conns /\ Tries' = Tries /\ Tries <= 3
    BY DialogTypes DEF GetLogin
  <1>. QED BY <1>4, <1>5, <1>6, DialogTypes, DialogInv DEF Places

LEMMA GetPasswordInv ==
  ASSUME ConsoleInv, NEW k \in Inputs("tcp"), GetPassword(k)
  PROVE  ConsoleInv' /\ (HelpInv => HelpInv')
  <1>1. PICK e \in Editor("tcp") : e = Received(ed["tcp"], k)
    BY DialogTypes, ReceivedTyped
  <1>2. Echoed(e) \in Editor("tcp") /\ ClearCommand \in Editor("tcp")
    BY DialogTypes, EchoedTyped, FreshTyped DEF ClearCommand
  <1>3. /\ ctx' = ctx /\ shared' = shared /\ history' = history
        /\ conn' = conn /\ conns' = conns /\ BadUser' = BadUser /\ Tries \in 0 .. 3
    BY DialogTypes DEF GetPassword
  <1>4. PICK ok \in BOOLEAN : ok = (StartsWith(e.line, "putty") /\ ~BadUser)
    OBVIOUS
  <1>5. PICK place \in {"prompt", "password", "shell", "wait"}, f \in Editor("tcp") :
          /\ Goto("tcp", place, f)
          /\ Tries' \in 0 .. 4 /\ (place \in {"prompt", "password"} => Tries' <= 3)
    <2>1. CASE e.ready /\ ~EchoFails("tcp", e)
      <3>1. /\ IF ok THEN LoggedIn ELSE Denied(e)
            /\ Tries' = IF ~ok /\ Up("tcp") THEN Tries + 1 ELSE Tries
        BY <1>1, <1>4, <2>1 DEF GetPassword
      <3>2. CASE ok
        <4>1. LoggedIn /\ Tries' = Tries
          BY <3>1, <3>2
        <4>. QED BY <1>2, <1>3, <4>1 DEF LoggedIn
      <3>3. CASE ~ok /\ ~Up("tcp")
        <4>1. Goto("tcp", "wait", Echoed(e)) /\ Tries' = Tries
          BY <3>1, <3>3 DEF Denied
        <4>. QED BY <1>2, <1>3, <4>1
      <3>4. CASE ~ok /\ Up("tcp")
        <4>1. /\ Goto("tcp", IF GivesUp THEN "wait" ELSE "prompt", ClearCommand)
              /\ Tries' = Tries + 1
          BY <3>1, <3>4 DEF Denied
        <4>2. CASE GivesUp
          BY <1>2, <1>3, <4>1, <4>2
        <4>3. CASE ~GivesUp
          <5>1. Tries' \in 0 .. 3
            BY <1>3, <4>1, <4>3 DEF GivesUp
          <5>. QED BY <1>2, <4>1, <4>3, <5>1
        <4>. QED BY <4>2, <4>3
      <3>. QED BY <3>2, <3>3, <3>4
    <2>2. CASE ~(e.ready /\ ~EchoFails("tcp", e))
      <3>1. \/ Goto("tcp", "wait", e) \/ Goto("tcp", "password", Echoed(e))
        BY <1>1, <2>2 DEF GetPassword
      <3>2. Tries' = Tries
        BY <1>1, <2>2 DEF GetPassword
      <3>. QED BY <1>2, <1>3, <3>1, <3>2
    <2>. QED BY <2>1, <2>2
  <1>6. Went("tcp", place, f)
    BY <1>5, DialogTypes, GotoIs DEF Places
  <1>. QED BY <1>3, <1>5, <1>6, DialogTypes, DialogInv DEF Places

LEMMA DropInv ==
  ASSUME ConsoleInv, Drop
  PROVE  ConsoleInv' /\ (HelpInv => HelpInv')
  <1>1. Went("tcp", at["tcp"], ed["tcp"]) /\ at["tcp"] \in Places
    BY DEF Drop, Went, ConsoleInv, Types, Sessions
  <1>2. /\ ctx' = ctx /\ shared' = shared /\ history' = history
        /\ conn' = "down" /\ conns' = conns /\ BadUser' = BadUser /\ Tries' = Tries
    BY DEF Drop
  <1>. QED BY <1>1, <1>2, DialogTypes, DialogInv

-----------------------------------------------------------------------------
(* The shell and the loop of a command.                                    *)
LEMMA LineInv ==
  ASSUME ConsoleInv, NEW s \in Sessions, NEW place \in {"wait", "shell", "call", "poll", "halt"},
         NEW e, Went(s, place, e), dialog' = dialog, shared' = shared,
         ctx' \in [Sessions -> Context],
         \A t \in Sessions : ctx'[t].cmd = ctx[t].cmd /\ ctx'[t].state = ctx[t].state,
         asked' = [t \in Sessions |-> asked'[t]], ran' = [t \in Sessions |-> ran'[t]],
         shown' = [t \in Sessions |-> shown'[t]]
  PROVE  Types' /\ ResourcesOwned'
  <1>1. /\ pxHelp' = pxHelp /\ PingMutex' = PingMutex /\ listing' = listing /\ blocks' = blocks
        /\ conn' = conn /\ conns' = conns /\ BadUser' = BadUser /\ Tries' = Tries
    BY DEF shared, dialog
  <1>2. Types'
    <2>1. at'["tcp"] \in {"prompt", "login", "password"} => Tries' <= 3
      BY <1>1 DEF ConsoleInv, Types, Went, Sessions
    <2>. QED BY <1>1, <2>1 DEF ConsoleInv, Types, Went
  <1>3. ResourcesOwned'
    BY <1>1, Distinct DEF ConsoleInv, ResourcesOwned, MutexOwned, MemoryOwned, Count, InParts
  <1>. QED BY <1>2, <1>3

LEMMA ShellInv ==
  ASSUME ConsoleInv, NEW s \in Sessions, NEW k \in Inputs(s), Shell(s, k)
  PROVE  ConsoleInv' /\ (HelpInv => HelpInv')
  <1>1. Types /\ UartInv /\ ed[s] \in Editor(s)
    BY DEF ConsoleInv, Types
  <1>2. PICK e \in Editor(s) : e = Received(ed[s], k)
    BY <1>1, ReceivedTyped
  <1>3. PICK leaves \in BOOLEAN : leaves = (~Up(s) \/ (s = "tcp" /\ e.line = <<"exit">>))
    OBVIOUS
  <1>4. Echoed(e) \in Editor(s) /\ ClearCommand \in Editor(s) /\ Echoed(e).line = e.line
    BY EchoedTyped, FreshTyped DEF ClearCommand
  <1>5. /\ at[s] = "shell" /\ ctx' = ctx /\ dialog' = dialog /\ shared' = shared
        /\ ran' = [ran EXCEPT ![s] = None] /\ shown' = [shown EXCEPT ![s] = <<>>]
    BY DEF Shell
  <1>6. PICK place \in {"wait", "shell", "call"}, f \in Editor(s) :
          /\ Goto(s, place, f)
          /\ place = "call" => f.line = e.line /\ asked' = [asked EXCEPT ![s] = Named(e.line)]
          /\ place # "call" => asked' = asked
          /\ s = "uart" => place # "wait"
    <2>1. s = "uart" => Up(s) /\ ~leaves /\ ~EchoFails(s, e)
      BY <1>3 DEF Up, EchoFails
    <2>2. CASE EchoFails(s, e)
      BY <1>2, <2>1, <2>2 DEF Shell
    <2>3. CASE ~EchoFails(s, e) /\ ~e.ready
      BY <1>2, <1>4, <2>3 DEF Shell
    <2>4. CASE ~EchoFails(s, e) /\ e.ready /\ e.line = <<>>
      BY <1>2, <1>4, <2>1, <2>4 DEF Shell
    <2>5. CASE ~EchoFails(s, e) /\ e.ready /\ e.line # <<>>
      <3>1. /\ Goto(s, IF leaves THEN "wait" ELSE "call", Echoed(e))
            /\ asked' = IF leaves THEN asked ELSE [asked EXCEPT ![s] = Named(e.line)]
        BY <1>2, <1>3, <2>5 DEF Shell
      <3>. QED BY <1>4, <2>1, <3>1
    <2>. QED BY <2>2, <2>3, <2>4, <2>5
  <1>7. Went(s, place, f)
    BY <1>1, <1>6, GotoIs DEF Places
  <1>8. asked' = [t \in Sessions |-> asked'[t]]
    BY <1>1, <1>6 DEF Types
  <1>9. /\ ran' = [t \in Sessions |-> ran'[t]] /\ shown' = [t \in Sessions |-> shown'[t]]
        /\ ran'[s] = None /\ shown'[s] = <<>>
        /\ \A t \in Sessions : t # s => ran'[t] = ran[t] /\ shown'[t] = shown[t]
    BY <1>1, <1>5 DEF Types
  <1>10. Types' /\ ResourcesOwned'
    <2>1. /\ ctx' \in [Sessions -> Context]
          /\ \A t \in Sessions : ctx'[t].cmd = ctx[t].cmd /\ ctx'[t].state = ctx[t].state
      BY <1>1, <1>5 DEF Types
    <2>2. dialog' = dialog /\ shared' = shared
      BY <1>5
    <2>3. /\ ran' = [t \in Sessions |-> ran'[t]] /\ shown' = [t \in Sessions |-> shown'[t]]
      BY <1>9
    <2>. QED BY <1>7, <1>8, <2>1, <2>2, <2>3, LineInv
  <1>11. UartInv'
    <2>1. CASE s = "uart"
      <3>1. ctx'["uart"].cmd = None /\ at'["uart"] = place /\ ed'["uart"] = f
        BY <1>1, <1>5, <1>7, <2>1 DEF UartInv, Went
      <3>2. place = "call" => asked'["uart"] = Named(ed'["uart"].line)
        BY <1>1, <1>6, <2>1, <3>1 DEF Types
      <3>. QED BY <1>6, <2>1, <3>1, <3>2 DEF UartInv
    <2>2. CASE s # "uart"
      <3>1. "uart" \in Sessions
        BY Distinct
      <3>2. asked'["uart"] = asked["uart"]
        BY <1>1, <1>6, <2>2, <3>1 DEF Types
      <3>. QED BY <1>1, <1>5, <1>7, <1>9, <2>2, <3>1, <3>2 DEF UartInv, Went
    <2>. QED BY <2>1, <2>2
  <1>12. ASSUME HelpInv
         PROVE  HelpInv'
    <2>1. pxHelp' = pxHelp /\ None # "help"
      BY <1>5, Distinct DEF shared, Commands
    <2>2. CASE s = "uart"
      <3>1. PICK none \in Seq(Nat) : none = <<>> /\ DOMAIN none = {}
        <4>1. <<>> \in Seq(Nat) /\ DOMAIN <<>> = {}
          OBVIOUS
        <4>. QED BY <4>1
      <3>2. "tcp" \in Sessions /\ ctx["uart"].cmd = None
        BY <1>1, <1>5, <2>2 DEF UartInv, Sessions
      <3>. QED BY <1>5, <1>9, <1>12, <2>1, <2>2, <3>1, <3>2 DEF HelpInv, Listed
    <2>3. CASE s = "tcp"
      <3>1. "uart" \in Sessions
        BY Distinct
      <3>2. at'["uart"] = at["uart"]
        BY <1>7, <2>3, <3>1 DEF Went
      <3>. QED BY <1>5, <1>9, <1>12, <2>1, <2>3, <3>1, <3>2 DEF HelpInv, Listed
    <2>. QED BY <2>2, <2>3, Distinct
  <1>. QED BY <1>10, <1>11, <1>12 DEF ConsoleInv

LEMMA HaltInv ==
  ASSUME ConsoleInv, NEW s \in Sessions, Halt(s)
  PROVE  ConsoleInv' /\ (HelpInv => HelpInv')
  <1>1. /\ at' = [t \in Sessions |-> "halt"] /\ ed' = ed /\ ctx' = ctx
        /\ pxHelp' = pxHelp /\ PingMutex' = PingMutex /\ listing' = listing /\ blocks' = blocks
        /\ conn' = conn /\ conns' = conns /\ BadUser' = BadUser /\ Tries' = Tries
        /\ asked' = asked /\ ran' = ran /\ shown' = shown
    BY DEF Halt, dialog, shared, history
  <1>2. at'["uart"] = "halt" /\ at'["tcp"] = "halt"
    BY <1>1 DEF Sessions
  <1>3. Types'
    BY <1>1, <1>2 DEF ConsoleInv, Types, Places
  <1>4. ResourcesOwned'
    BY <1>1 DEF ConsoleInv, ResourcesOwned, MutexOwned, MemoryOwned, Count, InParts
  <1>5. UartInv'
    BY <1>2 DEF UartInv
  <1>6. HelpInv => HelpInv'
    BY <1>1, <1>2 DEF HelpInv, Listed
  <1>. QED BY <1>3, <1>4, <1>5, <1>6 DEF ConsoleInv

(* Turning from one call of the interpreter to the next. *)
LEMMA TurnInv ==
  ASSUME ConsoleInv, NEW s \in Sessions, NEW e \in Editor(s), at[s] = "poll",
         dialog' = dialog, shared' = shared, history' = history,
         \/ Goto(s, "call", e) /\ \E x \in Editor(s) : CancelWith(s, x)
         \/ s # "uart" /\ LeaveLoop(s, e, TRUE) /\ ctx' = ctx
  PROVE  ConsoleInv' /\ (HelpInv => HelpInv')
  <1>1. Types /\ UartInv
    BY DEF ConsoleInv
  <1>2. PICK place \in {"wait", "call"}, f \in Editor(s) :
          Went(s, place, f) /\ (s = "uart" => place = "call")
    <2>1. ClearCommand \in Editor(s)
      BY FreshTyped DEF ClearCommand
    <2>2. PICK place \in {"wait", "call"}, f \in Editor(s) :
            Goto(s, place, f) /\ (s = "uart" => place = "call")
      BY <2>1 DEF LeaveLoop
    <2>. QED BY <1>1, <2>2, GotoIs DEF Places
  <1>3. /\ ctx' \in [Sessions -> Context]
        /\ \A t \in Sessions : ctx'[t].cmd = ctx[t].cmd /\ ctx'[t].state = ctx[t].state
    <2>1. CASE ctx' = ctx
      BY <1>1, <2>1 DEF Types
    <2>2. ASSUME NEW x \in Editor(s), CancelWith(s, x)
          PROVE  /\ ctx' \in [Sessions -> Context]
                 /\ \A t \in Sessions : ctx'[t].cmd = ctx[t].cmd /\ ctx'[t].state = ctx[t].state
      <3>1. PICK c \in Context : c = ctx[s]
        BY <1>1 DEF Types
      <3>2. PICK cancel \in BOOLEAN : cancel = (c.cancel \/ x.cancel)
        OBVIOUS
      <3>3. PICK d : d = [c EXCEPT !.cancel = cancel]
        OBVIOUS
      <3>4. d \in Context /\ d.cmd = c.cmd /\ d.state = c.state
        BY <3>3 DEF Context
      <3>5. ctx' = [ctx EXCEPT ![s] = d]
        BY <2>2, <3>1, <3>2, <3>3 DEF CancelWith
      <3>. QED BY <1>1, <3>1, <3>4, <3>5 DEF Types
    <2>. QED BY <2>1, <2>2
  <1>4. /\ asked' = asked /\ ran' = ran /\ shown' = shown /\ pxHelp' = pxHelp
    BY DEF history, shared
  <1>5. Types' /\ ResourcesOwned'
    BY <1>1, <1>2, <1>3, <1>4, LineInv DEF Types
  <1>6. UartInv'
    <2>1. CASE s = "uart"
      <3>1. at'["uart"] = "call" /\ ctx'["uart"].cmd = ctx["uart"].cmd
        BY <1>2, <1>3, <2>1 DEF Went
      <3>. QED BY <1>1, <1>4, <2>1, <3>1 DEF UartInv
    <2>2. CASE s # "uart"
      <3>1. "uart" \in Sessions
        BY Distinct
      <3>. QED BY <1>1, <1>2, <1>3, <1>4, <2>2, <3>1 DEF UartInv, Went
    <2>. QED BY <2>1, <2>2
  <1>7. ASSUME HelpInv
        PROVE  HelpInv'
    <2>1. "uart" \in Sessions /\ "tcp" \in Sessions
      BY Distinct
    <2>2. at'["uart"] = "shell" => at["uart"] = "shell"
      BY <1>2, <2>1 DEF Went
    <2>. QED BY <1>3, <1>4, <1>7, <2>1, <2>2 DEF HelpInv, Listed
  <1>. QED BY <1>5, <1>6, <1>7 DEF ConsoleInv

LEMMA PollKeyInv ==
  ASSUME ConsoleInv, NEW s \in Sessions, NEW k \in Inputs(s), PollKey(s, k)
  PROVE  ConsoleInv' /\ (HelpInv => HelpInv')
  <1>1. PICK e \in Editor(s) : e = Received(ed[s], k)
    BY ReceivedTyped DEF ConsoleInv, Types
  <1>2. Echoed(e) \in Editor(s)
    BY EchoedTyped
  <1>3. /\ at[s] = "poll" /\ dialog' = dialog /\ shared' = shared /\ history' = history
    BY DEF PollKey
  <1>4. CASE EchoFails(s, e)
    <2>1. s # "uart" /\ LeaveLoop(s, e, TRUE) /\ ctx' = ctx
      BY <1>1, <1>4 DEF PollKey, EchoFails, Up
    <2>. QED BY <1>3, <2>1, TurnInv
  <1>5. CASE ~EchoFails(s, e)
    <2>1. Goto(s, "call", Echoed(e)) /\ CancelWith(s, e)
      BY <1>1, <1>5 DEF PollKey
    <2>. QED BY <1>2, <1>3, <2>1, TurnInv
  <1>. QED BY <1>4, <1>5

LEMMA PollNothingInv ==
  ASSUME ConsoleInv, NEW s \in Sessions, PollNothing(s)
  PROVE  ConsoleInv' /\ (HelpInv => HelpInv')
  <1>1. PICK e \in Editor(s) : e = ed[s]
    BY DEF ConsoleInv, Types
  <1>2. /\ at[s] = "poll" /\ dialog' = dialog /\ shared' = shared /\ history' = history
    BY DEF PollNothing
  <1>3. \/ Goto(s, "call", e) /\ CancelWith(s, e)
        \/ s # "uart" /\ LeaveLoop(s, e, TRUE) /\ ctx' = ctx
    BY <1>1 DEF PollNothing, Up
  <1>. QED BY <1>2, <1>3, TurnInv

(* Only help touches its own static variable. *)
LEMMA NotHelp ==
  ASSUME NEW s \in Sessions, NEW more \in BOOLEAN, ProcessCommand(s, more),
         Current(s).cmd # "help"
  PROVE  pxHelp' = pxHelp /\ shown' = shown
  BY DEF ProcessCommand, PingPart, StatsPart, ViewPart, SdramPart, TimePart, shared

(* What a call of the interpreter does with where the session is.          *)
LEMMA CallDoes ==
  ASSUME Types, NEW s \in Sessions, Call(s)
  PROVE  \E more \in BOOLEAN :
           /\ at[s] = "call" /\ ProcessCommand(s, more) /\ (Lists(s) => listing = None)
           /\ dialog' = dialog /\ asked' = asked
           /\ \E place \in {"poll", "shell", "wait"}, f \in Editor(s) :
                /\ Went(s, place, f)
                /\ s = "uart" => (place = IF more THEN "poll" ELSE "shell")
  <1>1. PICK more \in BOOLEAN, sent \in BOOLEAN :
          /\ ProcessCommand(s, more) /\ (s = "uart" => sent)
          /\ IF sent /\ more THEN Goto(s, "poll", ed[s]) ELSE LeaveLoop(s, ed[s], ~sent)
    BY DEF Call
  <1>2. /\ at[s] = "call" /\ (Lists(s) => listing = None) /\ dialog' = dialog /\ asked' = asked
    BY DEF Call
  <1>3. ed[s] \in Editor(s) /\ ClearCommand \in Editor(s)
    BY FreshTyped DEF Types, ClearCommand
  <1>4. PICK place \in {"poll", "shell", "wait"}, f \in Editor(s) :
          Goto(s, place, f) /\ (s = "uart" => (place = IF more THEN "poll" ELSE "shell"))
    <2>1. CASE sent /\ more
      BY <1>1, <1>3, <2>1
    <2>2. CASE ~(sent /\ more)
      <3>1. LeaveLoop(s, ed[s], ~sent) /\ (s = "uart" => sent /\ ~more /\ Up(s))
        BY <1>1, <2>2 DEF Up
      <3>. QED BY <1>3, <3>1 DEF LeaveLoop
    <2>. QED BY <2>1, <2>2
  <1>5. Went(s, place, f)
    BY <1>4, GotoIs DEF Places
  <1>. QED BY <1>1, <1>2, <1>4, <1>5

LEMMA CallInv ==
  ASSUME ConsoleInv, NEW s \in Sessions, Call(s)
  PROVE  ConsoleInv'
  <1>1. Types /\ ResourcesOwned /\ UartInv
    BY DEF ConsoleInv
  <1>2. PICK more \in BOOLEAN :
           /\ at[s] = "call" /\ ProcessCommand(s, more) /\ (Lists(s) => listing = None)
           /\ dialog' = dialog /\ asked' = asked
           /\ \E place \in {"poll", "shell", "wait"}, f \in Editor(s) :
                /\ Went(s, place, f)
                /\ s = "uart" => (place = IF more THEN "poll" ELSE "shell")
    BY <1>1, CallDoes
  <1>3. PICK place \in {"poll", "shell", "wait"}, f \in Editor(s) :
          /\ Went(s, place, f)
          /\ s = "uart" => (place = IF more THEN "poll" ELSE "shell")
    BY <1>2
  <1>4. PICK c \in Context : c = Current(s)
    BY <1>1, CurrentIs
  <1>5. /\ PartDone(s, c, more) /\ pxHelp' \in 0 .. NHelp
        /\ (more => c.cmd \notin {None, "sdram"}) /\ ran' = [ran EXCEPT ![s] = c.cmd]
        /\ shown' = [t \in Sessions |-> shown'[t]]
    BY <1>1, <1>2, <1>4, CallOwned
  <1>6. /\ ctx' \in [Sessions -> Context] /\ \A t \in Sessions : t # s => ctx'[t] = ctx[t]
        /\ ctx'[s].cmd = IF more THEN c.cmd ELSE None
    BY <1>5 DEF PartDone
  <1>7. ran' = [t \in Sessions |-> ran'[t]] /\ ran'[s] = c.cmd
        /\ \A t \in Sessions : t # s => ran'[t] = ran[t]
    BY <1>1, <1>5 DEF Types
  <1>8. Types'
    <2>1. \A t \in Sessions : ctx'[t].cmd # "sdram"
      BY <1>1, <1>5, <1>6, Distinct DEF Types, Commands
    <2>2. conn' = conn /\ conns' = conns /\ BadUser' = BadUser /\ Tries' = Tries
      BY <1>2 DEF dialog
    <2>3. at'["tcp"] \in {"prompt", "login", "password"} => Tries' <= 3
      BY <1>1, <1>3, <2>2 DEF Types, Went, Sessions
    <2>4. /\ PingMutex' \in Sessions \cup {None} /\ listing' \in Sessions \cup {None, Lost}
          /\ blocks' \in Nat
      BY <1>5 DEF PartDone
    <2>. QED BY <1>1, <1>2, <1>3, <1>5, <1>6, <1>7, <2>1, <2>2, <2>3, <2>4 DEF Types, Went
  <1>9. ResourcesOwned'
    BY <1>5 DEF PartDone
  <1>10. UartInv'
    <2>1. CASE s = "uart"
      <3>1. c.cmd = asked["uart"]
        BY <1>1, <1>2, <1>4, <2>1, CurrentIs DEF UartInv
      <3>2. at'["uart"] = IF more THEN "poll" ELSE "shell"
        BY <1>3, <2>1 DEF Went
      <3>. QED BY <1>2, <1>5, <1>6, <1>7, <2>1, <3>1, <3>2 DEF UartInv
    <2>2. CASE s # "uart"
      <3>1. "uart" \in Sessions
        BY Distinct
      <3>. QED BY <1>1, <1>2, <1>3, <1>6, <1>7, <2>2, <3>1 DEF UartInv, Went
    <2>. QED BY <2>1, <2>2
  <1>. QED BY <1>8, <1>9, <1>10 DEF ConsoleInv

(* A page of the list more, or the end of it. *)
LEMMA HelpPrints ==
  ASSUME Types, UartInv, HelpInv, at["uart"] = "call", NEW more \in BOOLEAN,
         NEW c \in Context, c = Current("uart"), c.cmd = "help", HelpPart("uart", c, more)
  PROVE  /\ shown'["uart"] \in Seq(Nat) /\ Listed("uart")' /\ shown'["tcp"] = shown["tcp"]
         /\ IF more THEN pxHelp' > 0 /\ Len(shown'["uart"]) = pxHelp' - 1
            ELSE pxHelp' = 0 /\ Len(shown'["uart"]) = NHelp
  <1>1. "uart" \in Sessions /\ "tcp" \in Sessions /\ NHelp \in Nat \ {0}
    BY ConsoleAssumption DEF Sessions
  <1>2. PICK p \in 1 .. NHelp : p = IF pxHelp = 0 THEN 1 ELSE pxHelp
    BY <1>1 DEF Types
  <1>3. PICK base \in Seq(Nat) :
          /\ base = (IF ctx["uart"].cmd = None THEN <<>> ELSE shown["uart"])
          /\ Len(base) = p - 1 /\ \A i \in 1 .. Len(base) : base[i] = i
    <2>1. CASE ctx["uart"].cmd = None
      <3>1. pxHelp = 0
        BY <2>1, Distinct DEF HelpInv, Commands
      <3>2. p = 1
        BY <1>2, <3>1
      <3>3. PICK none \in Seq(Nat) : none = <<>> /\ Len(none) = 0
        BY EmptySeq
      <3>4. Len(none) = p - 1 /\ \A i \in 1 .. Len(none) : none[i] = i
        BY <3>2, <3>3
      <3>. QED BY <2>1, <3>3, <3>4
    <2>2. CASE ctx["uart"].cmd # None
      <3>1. ctx["uart"].cmd = "help"
        BY <1>1, <2>2, CurrentIs
      <3>2. pxHelp > 0 /\ Len(shown["uart"]) = pxHelp - 1 /\ shown["uart"] \in Seq(Nat) /\ Listed("uart")
        BY <3>1 DEF HelpInv
      <3>3. p = pxHelp
        BY <1>2, <3>2
      <3>4. \A i \in 1 .. Len(shown["uart"]) : shown["uart"][i] = i
        BY <3>2 DEF Listed
      <3>. QED BY <2>2, <3>2, <3>3, <3>4
    <2>. QED BY <2>1, <2>2
  <1>4. /\ pxHelp' = (IF p < NHelp THEN p + 1 ELSE 0) /\ (more <=> p < NHelp)
        /\ shown' = [shown EXCEPT !["uart"] = Append(base, p)]
    BY <1>1, <1>2, <1>3 DEF HelpPart
  <1>5. PICK next \in Seq(Nat) :
          /\ next = Append(base, p) /\ Len(next) = Len(base) + 1 /\ next[Len(base) + 1] = p
          /\ \A i \in 1 .. Len(base) : next[i] = base[i]
    <2>1. PICK next : next = Append(base, p)
      OBVIOUS
    <2>2. p \in Nat
      BY <1>1
    <2>. QED BY <2>1, <2>2, AppendProperties
  <1>6. shown'["uart"] = next /\ shown'["tcp"] = shown["tcp"]
    BY <1>1, <1>4, <1>5 DEF Types
  <1>7. Len(next) = p /\ \A i \in 1 .. p : next[i] = i
    <2>1. Len(next) = p
      BY <1>3, <1>5
    <2>2. ASSUME NEW i \in 1 .. p
          PROVE  next[i] = i
      <3>1. CASE i = p
        BY <1>3, <1>5, <3>1
      <3>2. CASE i # p
        BY <1>3, <1>5, <3>2
      <3>. QED BY <3>1, <3>2
    <2>. QED BY <2>1, <2>2
  <1>8. Listed("uart")'
    <2>1. DOMAIN next = 1 .. p
      BY <1>7
    <2>. QED BY <1>6, <1>7, <2>1 DEF Listed
  <1>9. CASE more
    <2>1. pxHelp' = p + 1
      BY <1>4, <1>9
    <2>. QED BY <1>6, <1>7, <1>8, <1>9, <2>1
  <1>10. CASE ~more
    <2>1. p = NHelp
      BY <1>1, <1>4, <1>10
    <2>2. pxHelp' = 0
      BY <1>1, <1>4, <2>1
    <2>. QED BY <1>6, <1>7, <1>8, <1>10, <2>1, <2>2
  <1>. QED BY <1>9, <1>10

LEMMA CallHelp ==
  ASSUME "help" \notin Vocabulary["tcp"], ConsoleInv, HelpInv, NEW s \in Sessions, Call(s)
  PROVE  HelpInv'
  <1>1. Types /\ ResourcesOwned /\ UartInv /\ "uart" \in Sessions /\ "tcp" \in Sessions
    BY Distinct DEF ConsoleInv
  <1>2. PICK more \in BOOLEAN :
           /\ at[s] = "call" /\ ProcessCommand(s, more) /\ (Lists(s) => listing = None)
           /\ dialog' = dialog /\ asked' = asked
           /\ \E place \in {"poll", "shell", "wait"}, f \in Editor(s) :
                /\ Went(s, place, f)
                /\ s = "uart" => (place = IF more THEN "poll" ELSE "shell")
    BY <1>1, CallDoes
  <1>3. PICK place \in {"poll", "shell", "wait"}, f \in Editor(s) :
          /\ Went(s, place, f)
          /\ s = "uart" => (place = IF more THEN "poll" ELSE "shell")
    BY <1>2
  <1>4. PICK c \in Context : c = Current(s)
    BY <1>1, CurrentIs
  <1>5. /\ PartDone(s, c, more) /\ ran' = [ran EXCEPT ![s] = c.cmd]
    BY <1>1, <1>2, <1>4, CallOwned
  <1>6. /\ \A t \in Sessions : t # s => ctx'[t] = ctx[t]
        /\ ctx'[s].cmd = IF more THEN c.cmd ELSE None
    BY <1>5 DEF PartDone
  <1>7. ran'[s] = c.cmd /\ \A t \in Sessions : t # s => ran'[t] = ran[t]
    BY <1>1, <1>5 DEF Types
  <1>8. None # "help"
    BY Distinct DEF Commands
  <1>9. CASE s = "tcp"
    <2>1. c.cmd # "help"
      <3>1. Named(ed["tcp"].line) # "help"
        BY <1>1, <1>8, NamedIs DEF Types, Editor
      <3>. QED BY <1>1, <1>4, <1>9, <3>1, CurrentIs DEF HelpInv
    <2>2. pxHelp' = pxHelp /\ shown' = shown
      BY <1>2, <1>4, <2>1, NotHelp
    <2>3. at'["uart"] = at["uart"] /\ ctx'["uart"] = ctx["uart"] /\ ran'["uart"] = ran["uart"]
      BY <1>1, <1>3, <1>6, <1>7, <1>9 DEF Went
    <2>. QED BY <1>6, <1>7, <1>8, <1>9, <2>1, <2>2, <2>3 DEF HelpInv, Listed
  <1>10. CASE s = "uart" /\ c.cmd # "help"
    <2>1. pxHelp' = pxHelp /\ shown' = shown
      BY <1>2, <1>4, <1>10, NotHelp
    <2>2. ctx["uart"].cmd # "help"
      BY <1>1, <1>4, <1>8, <1>10, CurrentIs
    <2>3. ctx'["tcp"] = ctx["tcp"] /\ ran'["tcp"] = ran["tcp"]
      BY <1>1, <1>6, <1>7, <1>10
    <2>. QED BY <1>6, <1>7, <1>8, <1>10, <2>1, <2>2, <2>3 DEF HelpInv, Listed
  <1>11. CASE s = "uart" /\ c.cmd = "help"
    <2>1. HelpPart("uart", c, more)
      BY <1>2, <1>4, <1>11 DEF ProcessCommand
    <2>2. /\ shown'["uart"] \in Seq(Nat) /\ Listed("uart")' /\ shown'["tcp"] = shown["tcp"]
          /\ IF more THEN pxHelp' > 0 /\ Len(shown'["uart"]) = pxHelp' - 1
             ELSE pxHelp' = 0 /\ Len(shown'["uart"]) = NHelp
      BY <1>1, <1>2, <1>4, <1>11, <2>1, HelpPrints
    <2>3. ctx'["tcp"] = ctx["tcp"] /\ ran'["tcp"] = ran["tcp"]
      BY <1>1, <1>6, <1>7, <1>11
    <2>4. at'["uart"] = IF more THEN "poll" ELSE "shell"
      BY <1>3, <1>11 DEF Went
    <2>. QED BY <1>6, <1>8, <1>11, <2>2, <2>3, <2>4 DEF HelpInv
  <1>. QED BY <1>9, <1>10, <1>11, Distinct

-----------------------------------------------------------------------------
LEMMA InitInv ==
  ASSUME Init
  PROVE  ConsoleInv /\ HelpInv
  <1>1. /\ "uart" \in Sessions /\ "tcp" \in Sessions
        /\ at["uart"] = "shell" /\ at["tcp"] = "wait"
    BY DEF Init, Sessions
  <1>2. \A s \in Sessions : /\ ed[s] = FreshLine /\ ctx[s] = NoCommand /\ asked[s] = None
                            /\ ran[s] = None /\ shown[s] = <<>>
    BY DEF Init
  <1>3. Types
    <2>1. \A s \in Sessions : ed[s] \in Editor(s)
      BY <1>2, FreshTyped
    <2>2. ctx \in [Sessions -> Context] /\ \A s \in Sessions : ctx[s].cmd # "sdram"
      BY <1>2, NoCommandTyped, Distinct DEF Init, Commands
    <2>3. conns \in 0 .. MaxConns /\ pxHelp \in 0 .. NHelp
      BY ConsoleAssumption DEF Init
    <2>4. at \in [Sessions -> Places]
      BY DEF Init, Places
    <2>5. /\ ed = [s \in Sessions |-> ed[s]] /\ asked = [s \in Sessions |-> asked[s]]
          /\ ran = [s \in Sessions |-> ran[s]] /\ shown = [s \in Sessions |-> shown[s]]
      <3>1. ed = [s \in Sessions |-> FreshLine] /\ asked = [s \in Sessions |-> None]
        BY DEF Init
      <3>2. ran = [s \in Sessions |-> None] /\ shown = [s \in Sessions |-> <<>>]
        BY DEF Init
      <3>. QED BY ONLY <3>1, <3>2
    <2>6. BadUser \in BOOLEAN
      BY DEF Init
    <2>7. conn = "none" /\ Tries = 0 /\ PingMutex = None /\ listing = None /\ blocks = 0
      BY DEF Init
    <2>. QED BY <1>1, <2>1, <2>2, <2>3, <2>4, <2>5, <2>6, <2>7 DEF Types
  <1>4. ResourcesOwned
    <2>1. \A s \in Sessions, x \in SUBSET Commands : ~InParts(s, x)
      BY <1>2 DEF InParts, NoCommand
    <2>2. /\ ~InParts("uart", {"ping", "stats"}) /\ ~InParts("tcp", {"ping", "stats"})
          /\ \A s \in Sessions : ~InParts(s, {"ping"}) /\ ~InParts(s, {"view"})
      BY <1>1, <2>1 DEF Commands
    <2>. QED BY <2>2, Distinct DEF Init, ResourcesOwned, MutexOwned, MemoryOwned, Count
  <1>5. UartInv
    BY <1>1, <1>2, NoCommandTyped DEF UartInv
  <1>6. HelpInv
    <2>1. PICK none \in Seq(Nat) : none = <<>> /\ DOMAIN none = {}
      <3>1. <<>> \in Seq(Nat) /\ DOMAIN <<>> = {}
        OBVIOUS
      <3>. QED BY <3>1
    <2>2. None # "help" /\ pxHelp = 0
      BY Distinct DEF Commands, Init
    <2>. QED BY <1>1, <1>2, <2>1, <2>2, NoCommandTyped DEF HelpInv, Listed
  <1>. QED BY <1>3, <1>4, <1>5, <1>6 DEF ConsoleInv

LEMMA StutterInv ==
  ASSUME ConsoleInv, UNCHANGED vars
  PROVE  ConsoleInv' /\ (HelpInv => HelpInv')
  <1>1. /\ at' = at /\ ed' = ed /\ ctx' = ctx /\ conn' = conn /\ conns' = conns
        /\ BadUser' = BadUser /\ Tries' = Tries /\ pxHelp' = pxHelp /\ PingMutex' = PingMutex
        /\ listing' = listing /\ blocks' = blocks /\ asked' = asked /\ ran' = ran /\ shown' = shown
    BY DEF vars, dialog, shared, history
  <1>2. Types'
    BY <1>1 DEF ConsoleInv, Types
  <1>3. ResourcesOwned'
    BY <1>1 DEF ConsoleInv, ResourcesOwned, MutexOwned, MemoryOwned, Count, InParts
  <1>4. UartInv'
    BY <1>1 DEF ConsoleInv, UartInv
  <1>5. HelpInv => HelpInv'
    BY <1>1 DEF HelpInv, Listed
  <1>. QED BY <1>2, <1>3, <1>4, <1>5 DEF ConsoleInv

(* Every step but a call of the interpreter, with or without the hypothesis *)
(* about help.                                                             *)
LEMMA OtherStep ==
  ASSUME ConsoleInv, [Next]_vars, \A s \in Sessions : ~Call(s)
  PROVE  ConsoleInv' /\ (HelpInv => HelpInv')
  <1>1. CASE Accept \/ PrintLogin \/ RecvFails \/ Drop
    BY <1>1, AcceptInv, PrintLoginInv, RecvFailsInv, DropInv
  <1>2. ASSUME NEW k \in Inputs("tcp"), GetLogin(k) \/ GetPassword(k)
        PROVE  ConsoleInv' /\ (HelpInv => HelpInv')
    BY <1>2, GetLoginInv, GetPasswordInv
  <1>3. ASSUME NEW s \in Sessions, Halt(s) \/ PollNothing(s)
        PROVE  ConsoleInv' /\ (HelpInv => HelpInv')
    BY <1>3, HaltInv, PollNothingInv
  <1>4. ASSUME NEW s \in Sessions, NEW k \in Inputs(s), PollKey(s, k) \/ Shell(s, k)
        PROVE  ConsoleInv' /\ (HelpInv => HelpInv')
    BY <1>4, PollKeyInv, ShellInv
  <1>5. CASE UNCHANGED vars
    BY <1>5, StutterInv
  <1>. QED BY <1>1, <1>2, <1>3, <1>4, <1>5 DEF Next, Loop

LEMMA ConsoleInvAlways == Spec => []ConsoleInv
  <1>1. Init => ConsoleInv
    BY InitInv
  <1>2. ConsoleInv /\ [Next]_vars => ConsoleInv'
    BY CallInv, OtherStep
  <1>. QED BY <1>1, <1>2, PTL DEF Spec

(* PingMutex, the listing and the smaller blocks are, at any moment, held   *)
(* by the session that will come to the part of its command that gives     *)
(* them back: PingHost, ViewMalloc and CpuStats leak on no path, whichever *)
(* way the connection under them is lost.                                  *)
THEOREM ResourcesOwnedAlways == Spec => []ResourcesOwned
  <1>1. ConsoleInv => ResourcesOwned
    BY DEF ConsoleInv
  <1>. QED BY <1>1, ConsoleInvAlways, PTL

(* The serial console calls the interpreter until it returns pdFALSE, so   *)
(* that it never finds the rest of an earlier command in its context.      *)
THEOREM UartRunsWhatIsAskedAlways == Spec => []UartRunsWhatIsAsked
  <1>1. ConsoleInv => UartRunsWhatIsAsked
    BY DEF ConsoleInv, UartInv, UartRunsWhatIsAsked, RunsWhatIsAsked
  <1>. QED BY <1>1, ConsoleInvAlways, PTL

(* Types; a line stays below its 255 characters, and a login is given up   *)
(* after a bounded number of tries.                                        *)
THEOREM ConsoleTypes == Spec => []TypeOK
  <1>1. ASSUME ConsoleInv
        PROVE  TypeOK
    <2>1. Types
      BY <1>1 DEF ConsoleInv
    <2>2. ASSUME NEW s \in Sessions
          PROVE  ed[s] \in [line : Lines, ready : BOOLEAN, cancel : BOOLEAN, reply : BOOLEAN]
      <3>1. PICK l \in Seq(Vocabulary[s]) : l = ed[s].line /\ Len(l) < LineMax
        BY <2>1 DEF Types, Editor
      <3>2. PICK n \in Nat : n = Len(l)
        BY LenProperties
      <3>3. l \in [1 .. n -> UNION {Vocabulary[t] : t \in Sessions}]
        <4>1. l \in [1 .. n -> Vocabulary[s]]
          BY <3>2
        <4>2. Vocabulary[s] \subseteq UNION {Vocabulary[t] : t \in Sessions}
          OBVIOUS
        <4>. QED BY <4>1, <4>2
      <3>4. n \in 0 .. LineMax - 1
        BY <3>1, <3>2, ConsoleAssumption
      <3>5. l \in Lines
        BY <3>3, <3>4 DEF Lines
      <3>. QED BY <2>1, <3>1, <3>5 DEF Types, Editor
    <2>. QED BY <2>1, <2>2 DEF Types, TypeOK, Places, Context
  <1>. QED BY <1>1, ConsoleInvAlways, PTL

(* help prints the whole list in order for the serial user, whatever the   *)
(* other console does but ask for help itself: the place in the list is a  *)
(* static variable that both would move.                                   *)
THEOREM HelpListsAllAlways ==
  ASSUME "help" \notin Vocabulary["tcp"]
  PROVE  Spec => []HelpListsAll
  <1>1. Init => ConsoleInv /\ HelpInv
    BY InitInv
  <1>2. ConsoleInv /\ HelpInv /\ [Next]_vars => ConsoleInv' /\ HelpInv'
    BY CallInv, CallHelp, OtherStep
  <1>3. ConsoleInv /\ HelpInv => HelpListsAll
    <2>1. SUFFICES ASSUME ConsoleInv, HelpInv, NEW s \in Sessions
                   PROVE  /\ \A i \in DOMAIN shown[s] : shown[s][i] = i
                          /\ at[s] = "shell" /\ ran[s] = "help" => Len(shown[s]) = NHelp
      BY DEF HelpListsAll
    <2>2. CASE s = "uart"
      BY <2>1, <2>2 DEF HelpInv, Listed
    <2>3. CASE s = "tcp"
      <3>1. DOMAIN <<>> = {}
        OBVIOUS
      <3>. QED BY <2>1, <2>3, <3>1 DEF HelpInv
    <2>. QED BY <2>2, <2>3, Distinct
  <1>. QED BY <1>1, <1>2, <1>3, PTL DEF Spec
=============================================================================

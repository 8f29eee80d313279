------------------------------ MODULE Console ------------------------------
(***************************************************************************)
(* The two consoles of cmd.c and the command interpreter they share        *)
(* (FreeRTOS_CLI.c, cli.c): the task cmdtasks on the debug UART and the    *)
(* task PuttyTcpTasks on TCP port 8000, which asks for a name and a        *)
(* password.  A command produces its output in parts, one for each call of *)
(* FreeRTOS_CLIProcessCommand; help keeps its place in a static variable,  *)
(* ping holds PingMutex between its parts, and a listing of the heap takes *)
(* most of the slow heap (0x16000 of 0x20000 bytes): there is room for one.*)
(*                                                                         *)
(* A line is a sequence of words, LineMax stands for the 255 characters of *)
(* CmdBuilder.  A piece of input is a word, a word and Return, or a        *)
(* control key: PuttyRxHandler drops what follows a control key.           *)
(***************************************************************************)
EXTENDS Naturals, Sequences

CONSTANTS
  Vocabulary,   \* words each console's user types, by session
  LineMax,      \* words at which a line overflows (255 characters)
  NHelp,        \* registered commands, which help lists one by one
  MaxConns,     \* bound: TCP connections in a behaviour
  None

Sessions == {"uart", "tcp"}
Commands == {"help", "ping", "time", "stats", "view", "sdram"}

ASSUME ConsoleAssumption ==
  /\ LineMax \in Nat \ {0} /\ NHelp \in Nat \ {0} /\ MaxConns \in Nat
  /\ DOMAIN Vocabulary = Sessions
  /\ \A s \in Sessions : None \notin Vocabulary[s]
  /\ None \notin Sessions \cup Commands \cup {"lost", "CR", "Stop"}

VARIABLES
  at,        \* where each session's task is: a state of PuttyTcpTasks, or the
             \* loop of a command ("call", "poll"); "halt" after an assertion
  conn,      \* the TCP connection: none, up, or down
  conns,     \* connections accepted
  ed,        \* the session's _PuttyContext: line, CmdReady, Cancel, ReplyLen > 0
  BadUser, Tries,
  ctx,       \* its CLI_Command_Context: pxCommand, state, Cancel
  pxHelp,    \* static pxCommand of prvHelpCommand, 0 for NULL
  PingMutex, \* its holder
  listing,   \* the session whose listing is in the slow heap, or Lost
  blocks,    \* the smaller blocks the commands hold
  asked, ran,   \* the command given to the interpreter, the one it called
  shown      \* entries of the help list printed since help was asked for
dialog  == <<conn, conns, BadUser, Tries>>
shared  == <<pxHelp, PingMutex, listing, blocks>>
history == <<asked, ran, shown>>
vars == <<at, ed, ctx, dialog, shared, history>>

FreshLine == [line |-> <<>>, ready |-> FALSE, cancel |-> FALSE, reply |-> FALSE]
Lost == "lost"
NoCommand == [cmd |-> None, state |-> 0, cancel |-> FALSE]

Init ==
  /\ at = [s \in Sessions |-> IF s = "tcp" THEN "wait" ELSE "shell"]
  /\ conn = "none" /\ conns = 0
  /\ ed = [s \in Sessions |-> FreshLine]
  /\ BadUser = FALSE /\ Tries = 0
  /\ ctx = [s \in Sessions |-> NoCommand]
  /\ pxHelp = 0 /\ PingMutex = None /\ listing = None /\ blocks = 0
  /\ asked = [s \in Sessions |-> None] /\ ran = [s \in Sessions |-> None]
  /\ shown = [s \in Sessions |-> <<>>]

-----------------------------------------------------------------------------
(* The line editor.                                                        *)
Inputs(s) ==
  {k \in [word : Vocabulary[s] \cup {None}, ctrl : {"CR", "Stop", None}] :
     \/ k.word # None /\ k.ctrl # "Stop"
     \/ k.word = None /\ k.ctrl # None}

(* The word fills the line: it is emptied, and the rest of the input lost. *)
Overflows(e, k) == k.word # None /\ Len(e.line) + 1 = LineMax

(* PuttyRxHandler; a control key makes it return before it sets ReplyLen.  *)
Received(e, k) ==
  IF Overflows(e, k) THEN [e EXCEPT !.line = <<>>, !.reply = TRUE]
  ELSE [e EXCEPT !.line = IF k.word = None THEN @ ELSE Append(@, k.word),
                 !.ready = @ \/ k.ctrl = "CR",
                 !.cancel = @ \/ k.ctrl = "Stop",
                 !.reply = @ \/ k.ctrl = None]

(* ClearCommand, and the statements after a name or a password was used    *)
ClearCommand == FreshLine

(* Is a send on this session's line successful?                            *)
Up(s) == s = "uart" \/ conn = "up"

(* The echo of the input, when there is one                                *)
EchoFails(s, e) == e.reply /\ ~Up(s)
Echoed(e) == [e EXCEPT !.reply = FALSE]
Goto(s, state, e) == at' = [at EXCEPT ![s] = state] /\ ed' = [ed EXCEPT ![s] = e]

-----------------------------------------------------------------------------
(* PuttyTcpTasks up to the login.                                          *)

(* SM_WAIT_CONNECT: close the old connection, accept a new one.            *)
Accept ==
  /\ at["tcp"] = "wait" /\ conns < MaxConns
  /\ conn' = "up" /\ conns' = conns + 1
  /\ Tries' = 0
  /\ Goto("tcp", "prompt", ed["tcp"])
  /\ UNCHANGED <<BadUser, ctx, shared, history>>

(* SM_PRINT_LOGIN *)
PrintLogin ==
  /\ at["tcp"] = "prompt"
  /\ Goto("tcp", IF Up("tcp") THEN "login" ELSE "wait", ed["tcp"])
  /\ UNCHANGED <<ctx, dialog, shared, history>>

StartsWith(line, word) == line # <<>> /\ Head(line) = word

(* The comparison stops before the end of the name: memcmp.                *)
BadName(line) == ~StartsWith(line, "admin")

(* SM_GET_LOGIN *)
GetLogin(k) ==
  LET e == Received(ed["tcp"], k) IN
  /\ at["tcp"] = "login"
  /\ IF e.ready /\ ~EchoFails("tcp", e)
       THEN /\ Goto("tcp", IF Up("tcp") THEN "password" ELSE "wait", ClearCommand)
            /\ BadUser' = BadName(e.line)
       ELSE /\ (IF EchoFails("tcp", e) THEN Goto("tcp", "wait", e) ELSE Goto("tcp", "login", Echoed(e)))
            /\ UNCHANGED BadUser
  /\ UNCHANGED <<ctx, conn, conns, Tries, shared, history>>

GivesUpLate == Tries > 3
(* Tries++ < 3, seen from the other side                                   *)
GivesUp == Tries >= 3

(* SM_GET_PASSWORD with a password that is right or not; a failed send     *)
(* leaves the context as it is.                                            *)
LoggedIn == Goto("tcp", IF Up("tcp") THEN "shell" ELSE "wait", ClearCommand)
Denied(e) ==
  IF Up("tcp") THEN Goto("tcp", IF GivesUp THEN "wait" ELSE "prompt", ClearCommand)
               ELSE Goto("tcp", "wait", Echoed(e))

GetPassword(k) ==
  LET e  == Received(ed["tcp"], k)
      ok == StartsWith(e.line, "putty") /\ ~BadUser
  IN
  /\ at["tcp"] = "password"
  /\ IF e.ready /\ ~EchoFails("tcp", e)
       THEN /\ IF ok THEN LoggedIn ELSE Denied(e)
            /\ Tries' = IF ~ok /\ Up("tcp") THEN Tries + 1 ELSE Tries
       ELSE /\ (IF EchoFails("tcp", e) THEN Goto("tcp", "wait", e) ELSE Goto("tcp", "password", Echoed(e)))
            /\ UNCHANGED Tries
  /\ UNCHANGED <<ctx, conn, conns, BadUser, shared, history>>

(* FreeRTOS_recv fails outside the loop of a command.                      *)
RecvFails ==
  /\ conn = "down" /\ at["tcp"] \in {"login", "password", "shell"}
  /\ Goto("tcp", "wait", ed["tcp"])
  /\ UNCHANGED <<ctx, dialog, shared, history>>

Drop ==
  /\ conn = "up"
  /\ conn' = "down"
  /\ UNCHANGED <<at, ed, ctx, conns, BadUser, Tries, shared, history>>

-----------------------------------------------------------------------------
(* The command a line names, if any *)
Named(line) == IF Len(line) = 1 /\ Head(line) \in Commands THEN Head(line) ELSE None

(* The line that is entered: SM_AUTHENTICATED and the loop of cmdtasks.    *)
Shell(s, k) ==
  LET e == Received(ed[s], k)
      leaves == ~Up(s) \/ (s = "tcp" /\ e.line = <<"exit">>)
  IN
  /\ at[s] = "shell"
  /\ \/ EchoFails(s, e) /\ Goto(s, "wait", e) /\ UNCHANGED asked
     \/ /\ ~EchoFails(s, e) /\ ~e.ready
        /\ Goto(s, "shell", Echoed(e))
        /\ UNCHANGED asked
     \/ /\ ~EchoFails(s, e) /\ e.ready /\ e.line = <<>>
        /\ IF Up(s) THEN Goto(s, "shell", ClearCommand) ELSE Goto(s, "wait", Echoed(e))
        /\ UNCHANGED asked
     \/ /\ ~EchoFails(s, e) /\ e.ready /\ e.line # <<>>
        /\ Goto(s, IF leaves THEN "wait" ELSE "call", Echoed(e))
        /\ asked' = IF leaves THEN asked ELSE [asked EXCEPT ![s] = Named(e.line)]
  /\ ran' = [ran EXCEPT ![s] = None] /\ shown' = [shown EXCEPT ![s] = <<>>]
  /\ UNCHANGED <<ctx, dialog, shared>>

-----------------------------------------------------------------------------
(* The interpreter.  A part of command c goes on to another state or ends  *)
(* the command, whose cmdstate nobody reads again before it is reset.      *)
Continue(s, c, state) == ctx' = [ctx EXCEPT ![s] = [c EXCEPT !.state = state]]
FinishKeepsCommand(s) == ctx' = [ctx EXCEPT ![s].cancel = FALSE]
Finish(s) == ctx' = [ctx EXCEPT ![s] = NoCommand]

(* prvHelpCommand *)
HelpPart(s, c, more) ==
  LET p == IF pxHelp = 0 THEN 1 ELSE pxHelp
  IN  /\ pxHelp' = IF p < NHelp THEN p + 1 ELSE 0
      /\ shown' = [shown EXCEPT ![s] = Append(IF ctx[s].cmd = None THEN <<>> ELSE @, p)]
      /\ more = (p < NHelp)
      /\ IF more THEN Continue(s, c, c.state) ELSE Finish(s)
      /\ UNCHANGED <<PingMutex, listing, blocks>>

GiveNothing == PingMutex' = PingMutex
(* xSemaphoreGive(PingMutex) *)
GiveMutex == PingMutex' = None

PingReleased(s) ==
  /\ blocks' = blocks - 1 /\ GiveMutex
  /\ Finish(s)

(* PingHost, first part: the mutex, the name's copy, the first request.    *)
PingStart(s, c, more) ==
  \/ /\ ~more   \* in use, or no such address
     /\ Finish(s) /\ UNCHANGED <<PingMutex, blocks>>
  \/ /\ more /\ PingMutex = None
     /\ PingMutex' = s /\ blocks' = blocks + 1
     /\ \E state \in {2, 4} : Continue(s, c, state)

(* Request sent (2) or no network (4); from 2 an answer or a timeout; a    *)
(* second after the request the next one.                                  *)
PingSteps(state) == CASE state = 1 -> {2, 4} [] state = 2 -> {1, 2, 3} [] OTHER -> {1, 3}

PingPart(s, c, more) ==
  /\ \/ /\ c.cancel /\ ~more
        /\ IF c.state > 0 THEN PingReleased(s)
                          ELSE Finish(s) /\ UNCHANGED <<PingMutex, blocks>>
     \/ ~c.cancel /\ c.state = 0 /\ PingStart(s, c, more)
     \/ ~c.cancel /\ c.state = 4 /\ ~more /\ PingReleased(s)
     \/ /\ ~c.cancel /\ c.state \in 1 .. 3 /\ more
        /\ \E state \in PingSteps(c.state) : Continue(s, c, state)
        /\ UNCHANGED <<PingMutex, blocks>>
  /\ UNCHANGED <<pxHelp, listing, shown>>

(* x_free of the listing after its last page *)
LastPageFreed == None

(* ViewMalloc of a heap it knows: one page, or several over several parts. *)
ViewPart(s, c, more) ==
  /\ \/ c.state = 0 /\ more  /\ Continue(s, c, 1) /\ listing' = s
     \/ c.state = 0 /\ ~more /\ Finish(s)         /\ UNCHANGED listing
     \/ c.state = 1 /\ more  /\ Continue(s, c, 1) /\ UNCHANGED listing
     \/ c.state = 1 /\ ~more /\ Finish(s)         /\ listing' = LastPageFreed
  /\ UNCHANGED <<pxHelp, PingMutex, blocks, shown>>

(* ViewMalloc of a selection it does not know: the listing is not freed.   *)
SdramPart(s, c, more) ==
  /\ ~more /\ Finish(s) /\ listing' = Lost
  /\ UNCHANGED <<pxHelp, PingMutex, blocks, shown>>

(* CpuStats: its text is a block of the fast heap.                         *)
StatsPart(s, c, more) ==
  /\ \/ c.state = 0 /\ more  /\ Continue(s, c, 1) /\ blocks' = blocks + 1
     \/ c.state = 0 /\ ~more /\ Finish(s)         /\ UNCHANGED blocks
     \/ c.state = 1 /\ more  /\ Continue(s, c, 1) /\ UNCHANGED blocks
     \/ c.state = 1 /\ ~more /\ Finish(s)         /\ blocks' = blocks - 1
  /\ UNCHANGED <<pxHelp, PingMutex, listing, shown>>

(* A command of one part, and a line that is no command.                   *)
TimePart(s, c, more) == ~more /\ Finish(s) /\ UNCHANGED <<shared, shown>>

ForgetsPending(s) == [NoCommand EXCEPT !.cmd = Named(ed[s].line)]
(* The command a call continues, or else looks up.                         *)
Current(s) == IF ctx[s].cmd # None THEN ctx[s] ELSE [NoCommand EXCEPT !.cmd = Named(ed[s].line)]

(* FreeRTOS_CLIProcessCommand *)
ProcessCommand(s, more) ==
  LET c == Current(s) IN
  /\ ran' = [ran EXCEPT ![s] = c.cmd]
  /\ CASE c.cmd = "help"  -> HelpPart(s, c, more)
       [] c.cmd = "ping"  -> PingPart(s, c, more)
       [] c.cmd = "stats" -> StatsPart(s, c, more)
       [] c.cmd = "view"  -> ViewPart(s, c, more)
       [] c.cmd = "sdram" -> SdramPart(s, c, more)
       [] OTHER           -> TimePart(s, c, more)

(* After the loop: a prompt, and ClearCommand when it could be sent.       *)
LeaveLoop(s, e, lost) ==
  IF Up(s) THEN Goto(s, IF lost THEN "wait" ELSE "shell", ClearCommand)
           ELSE Goto(s, "wait", e)

(* The command is about to allocate a listing. *)
Lists(s) == Current(s).cmd \in {"view", "sdram"} /\ Current(s).state = 0

(* x_malloc finds no room: vApplicationMallocFailedHook fails an assertion *)
(* and the processor stays in vAssertCalled, with interrupts disabled.     *)
Halt(s) ==
  /\ at[s] = "call" /\ Lists(s) /\ listing # None
  /\ at' = [t \in Sessions |-> "halt"]
  /\ UNCHANGED <<ed, ctx, dialog, shared, history>>

(* One turn of the loop up to its delay.  The output may not all be sent.  *)
Call(s) ==
  /\ at[s] = "call" /\ (Lists(s) => listing = None)
  /\ \E more, sent \in BOOLEAN :
       /\ ProcessCommand(s, more)
       /\ s = "uart" => sent
       /\ sent => Up(s) \/ Current(s).cmd = "ping"   \* ping may have no output
       /\ IF sent /\ more THEN Goto(s, "poll", ed[s]) ELSE LeaveLoop(s, ed[s], ~sent)
  /\ UNCHANGED <<dialog, asked>>

(* The rest of the turn: look for input, Ctrl-C above all.                 *)
NeverCancel(s, e) == UNCHANGED ctx
CancelWith(s, e) == ctx' = [ctx EXCEPT ![s].cancel = @ \/ e.cancel]

PollKey(s, k) ==
  LET e == Received(ed[s], k) IN
  /\ at[s] = "poll"
  /\ IF EchoFails(s, e) THEN LeaveLoop(s, e, TRUE) /\ UNCHANGED ctx
                        ELSE Goto(s, "call", Echoed(e)) /\ CancelWith(s, e)
  /\ UNCHANGED <<dialog, shared, history>>

PollNothing(s) ==
  /\ at[s] = "poll"
  /\ IF Up(s) THEN Goto(s, "call", ed[s]) /\ CancelWith(s, ed[s])
              ELSE LeaveLoop(s, ed[s], TRUE) /\ UNCHANGED ctx
  /\ UNCHANGED <<dialog, shared, history>>

-----------------------------------------------------------------------------
Loop(s) == Call(s) \/ Halt(s) \/ PollNothing(s) \/ \E k \in Inputs(s) : PollKey(s, k)

Next ==
  \/ Accept \/ PrintLogin \/ RecvFails \/ Drop
  \/ \E k \in Inputs("tcp") : GetLogin(k) \/ GetPassword(k)
  \/ \E s \in Sessions : Loop(s) \/ \E k \in Inputs(s) : Shell(s, k)

(* A console task in the loop of a command goes on: it only delays itself. *)
Fairness == \A s \in Sessions : WF_vars(Loop(s))
Spec == Init /\ [][Next]_vars /\ Fairness

-----------------------------------------------------------------------------
(* The type of every variable. *)
Lines == UNION {[1 .. n -> UNION {Vocabulary[s] : s \in Sessions}] : n \in 0 .. LineMax - 1}
TypeOK ==
  /\ at \in [Sessions -> {"wait", "prompt", "login", "password", "shell", "call", "poll", "halt"}]
  /\ conn \in {"none", "up", "down"} /\ conns \in 0 .. MaxConns
  /\ ed \in [Sessions -> [line : Lines, ready : BOOLEAN, cancel : BOOLEAN, reply : BOOLEAN]]
  /\ BadUser \in BOOLEAN /\ Tries \in 0 .. 4
  /\ ctx \in [Sessions -> [cmd : Commands \cup {None}, state : 0 .. 4, cancel : BOOLEAN]]
  /\ pxHelp \in 0 .. NHelp /\ PingMutex \in Sessions \cup {None}
  /\ listing \in Sessions \cup {None, Lost} /\ blocks \in Nat

InParts(s, commands) == ctx[s].cmd \in commands /\ ctx[s].state > 0

(* PingMutex is held exactly while the ping of one session is between its  *)
(* first and its last part, whatever ends it: Ctrl-C, no network, a        *)
(* connection lost and a command of the next session that continues it.    *)
MutexOwned == \A s \in Sessions : PingMutex = s <=> InParts(s, {"ping"})

(* The listing in the slow heap is that of the session that is between its *)
(* first and its last page, and so is every smaller block: none outlives   *)
(* its command, but for the listing that SdramPart loses.                  *)
Count(s) == IF InParts(s, {"ping", "stats"}) THEN 1 ELSE 0
MemoryOwned ==
  /\ \A s \in Sessions : listing = s <=> InParts(s, {"view"})
  /\ blocks = Count("uart") + Count("tcp")

(* What a command takes and gives back in different parts has an owner     *)
(* that will come to the part that gives it back (cli.c 299, 246, 457).    *)
ResourcesOwned == MutexOwned /\ MemoryOwned

(* "FreeRTOS_CLIProcessCommand should be called repeatedly until it        *)
(* returns pdFALSE" (FreeRTOS_CLI.h:87): what a session runs is what its   *)
(* user has entered, never the rest of an earlier command.                 *)
RunsWhatIsAsked(s) == at[s] = "poll" => ran[s] = asked[s]
UartRunsWhatIsAsked == RunsWhatIsAsked("uart")

(* "Lists all the registered commands" (FreeRTOS_CLI.c:65): help prints    *)
(* every entry of the list, in order, from the first.                      *)
HelpListsAll ==
  \A s \in Sessions :
    /\ \A i \in DOMAIN shown[s] : shown[s][i] = i
    /\ at[s] = "shell" /\ ran[s] = "help" => Len(shown[s]) = NHelp

(* Ctrl-C ends the ping of the serial console and gives the mutex back.    *)
CancelEndsPing ==
  ed["uart"].cancel /\ PingMutex = "uart" ~> PingMutex # "uart" \/ at["uart"] = "halt"
=============================================================================

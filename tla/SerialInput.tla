---------------------------- MODULE SerialInput ----------------------------
(***************************************************************************)
(* The input of the serial console: cmdtasks (cmd.c) reads the waiting     *)
(* bytes through UartRx, hands them to LineEditor, sends the echo, runs a  *)
(* complete line part by part, reads on between the parts, and saves and   *)
(* clears the line.  Bytes arrive between any two steps.  What the         *)
(* commands do is in Console; the log stream is never created.             *)
(***************************************************************************)
EXTENDS UartRx, LineEditor, SequencesExt

VARIABLES
  at,        \* "idle": before the poll; "ready": a line is complete;
             \* "more": a part of its output is sent; "again": keys were polled
  ed,        \* PuttyUart
  shown,     \* the terminal's line, behind the prompt
  entered,   \* the line that runs, as it was entered
  history    \* the last lines that ran, newest first
vars == <<rxVars, at, ed, shown, entered, history>>

Init ==
  /\ InitRx
  /\ at = "idle" /\ ed = FreshContext /\ shown = <<>> /\ entered = <<>>
  /\ history = [i \in 1 .. SavedLen |-> <<>>]

(* The terminal prints what it is sent; BS takes a character back.         *)
Shows(text, key) ==
  CASE key # "BS" -> Append(text, key)
    [] key = "BS" /\ text # <<>> -> Front(text)
    [] OTHER -> text
Echoed(text, echo) ==
  LET after[n \in 0 .. Len(echo)] ==
        IF n = 0 THEN text ELSE Shows(after[n - 1], echo[n])
  IN  after[Len(echo)]

Byte(key) == USART1_IRQHandler(key) /\ UNCHANGED <<at, ed, shown, entered, history>>

Poll == /\ at \in {"idle", "more"}
        /\ GetBegin \/ GetCopy
        /\ UNCHANGED <<at, ed, shown, entered, history>>

(* PuttyRxHandler with what was read, and the echo                         *)
Handled == PuttyRxHandler(ed, [i \in DOMAIN Buff |-> Buff[i].key])
Read ==
  /\ at \in {"idle", "more"}
  /\ GetEnd
  /\ ed' = [Handled EXCEPT !.reply = <<>>, !.done = FALSE, !.echo = TRUE,
                           !.strays = @ \/ at = "more"]
  /\ shown' = IF Handled.echo THEN Echoed(shown, Handled.reply) ELSE shown
  /\ at' = CASE at = "more" -> "again"
             [] at = "idle" /\ Handled.CmdReady -> "ready"
             [] OTHER -> at
  /\ entered' = IF at' = "ready" /\ ~Handled.strays
                  THEN Echoed(shown, Handled.reply)
                  ELSE Text(Handled.CmdBuilder, LineLen)
  /\ UNCHANGED history

NothingRead ==
  /\ at = "more" /\ ~reader /\ Uarttail = UartRxPtr
  /\ at' = "again"
  /\ UNCHANGED <<rxVars, ed, shown, entered, history>>

(* A part of the command's output, and the end of the command; a line      *)
(* without characters is not run.                                          *)
Part ==
  /\ at = "again" \/ (at = "ready" /\ ed.CmdPtr > 0)
  /\ at' = "more"
  /\ UNCHANGED <<rxVars, ed, shown, entered, history>>

EndLine ==
  /\ at \in {"ready", "again"}
  /\ at' = "idle" /\ ed' = ClearCommand(ed) /\ shown' = <<>> /\ entered' = <<>>
  /\ history' = [i \in 1 .. SavedLen |->
                  IF i = 1 THEN SubSeq(entered, 1, IF Len(entered) < CmdLen THEN Len(entered) ELSE CmdLen)
                           ELSE history[i - 1]]
  /\ UNCHANGED rxVars

Next == (\E key \in Keys : Byte(key)) \/ Poll \/ Read \/ NothingRead \/ Part \/ EndLine
Spec == Init /\ [][Next]_vars

(* At the prompt the terminal shows the line that Enter would run, whatever *)
(* was typed, erased and recalled, unless keys were lost to a full line or *)
(* Ctrl-C, or an empty slot was recalled (cmd.c 399-492).                  *)
EchoTellsLine == (at = "idle" /\ ~ed.strays) => shown = Prefix(ed.CmdBuilder, ed.CmdPtr)

(* The recalled commands are the lines that were entered, newest first:    *)
(* what came with Enter in one read and was never echoed is part of them,  *)
(* what was left behind the end of the line is not (cmd.c 406-410,         *)
(* 518-533).                                                               *)
HistoryIsWhatRan == ed.SavedCommands = history

TypeOK ==
  /\ ed.CmdPtr \in 0 .. LineLen - 1 /\ ed.EscapeSequence \in 0 .. 3
  /\ ed.CommandRecall \in 0 .. SavedLen - 1
  /\ at \in {"idle", "ready", "more", "again"}
  /\ UartRxPtr \in 0 .. RxSize - 1 /\ Uarttail \in 0 .. RxSize - 1
=============================================================================

----------------------------- MODULE LineEditor -----------------------------
(***************************************************************************)
(* The line editor of cmd.c: PuttyRxHandler and what it does to the        *)
(* _PuttyContext of a console, key by key.  CmdBuilder is an array with an *)
(* 8-bit index; what lies behind the index stays there.                    *)
(***************************************************************************)
EXTENDS Integers, Sequences

CONSTANTS
  LineLen,   \* CMD_BUILD_LEN, the range of CmdPtr
  SavedLen,  \* SAVED_CMD_LEN
  CmdLen     \* characters of a saved command (40)

ASSUME LineAssumption ==
  LineLen \in Nat /\ LineLen > 2 /\ SavedLen \in Nat \ {0} /\ CmdLen \in 1 .. LineLen - 2

(* A byte of the line that is not a character; as a key, any byte that is  *)
(* neither printed nor one of those below.                                 *)
NUL == "NUL"
Control == {"^C", "^E", "CR", "BS", "ESC", "~", NUL}
EmptyLine == [i \in 0 .. LineLen - 1 |-> NUL]

(* PuttyUart.  reply is what the call has put in ReplyBuilder, done that it *)
(* has left its loop, and echo that it has set ReplyLen; strays tells that *)
(* the echo no longer says what the line is.                               *)
FreshContext ==
  [EscapeSequence |-> 0, CommandRecall |-> SavedLen - 1, Cancel |-> FALSE, CmdReady |-> FALSE,
   CmdPtr |-> 0, CmdBuilder |-> EmptyLine, SavedCommands |-> [i \in 1 .. SavedLen |-> <<>>],
   reply |-> <<>>, done |-> FALSE, echo |-> TRUE, strays |-> FALSE]

Prefix(line, n) == [i \in 1 .. n |-> line[i - 1]]
(* The string in the buffer, at most n characters                          *)
Text(line, n) ==
  LET ends == {i \in 0 .. n - 1 : line[i] = NUL}
  IN  Prefix(line, IF ends = {} THEN n ELSE CHOOSE i \in ends : \A j \in ends : i <= j)

BackspaceSilent(e) == IF e.CmdPtr > 0 THEN [e EXCEPT !.CmdPtr = @ - 1] ELSE e
Backspace(e) ==
  IF e.CmdPtr > 0 THEN [e EXCEPT !.CmdPtr = @ - 1, !.reply = Append(@, "BS")] ELSE e

(* while (CmdPtr--): the index has wrapped when the loop ends.             *)
Erase(e) ==
  IF e.CmdPtr > 0
    THEN [e EXCEPT !.CmdPtr = LineLen - 1, !.reply = @ \o [i \in 1 .. e.CmdPtr |-> "BS"]]
    ELSE e

(* The saved command takes the place of the line, unless it is empty.      *)
Recall(e, slot) ==
  LET saved  == e.SavedCommands[slot + 1]
      erased == [Erase(e) EXCEPT !.CommandRecall = slot]
  IN  IF saved # <<>>
        THEN [erased EXCEPT
                !.CmdBuilder = [i \in DOMAIN @ |-> IF i < Len(saved) THEN saved[i + 1] ELSE @[i]],
                !.CmdPtr = Len(saved), !.reply = @ \o saved]
        ELSE [erased EXCEPT !.strays = @ \/ e.CmdPtr > 0]

Older(slot) == IF slot + 1 > SavedLen - 1 THEN 0 ELSE slot + 1
Newer(slot) == IF slot - 1 < 0 THEN SavedLen - 1 ELSE slot - 1

(* The key that ends an escape sequence                                    *)
EscapeKey(e, key) ==
  CASE key \in {"3", "D"} -> Backspace(e)
    [] key = "A" -> Recall(e, Older(e.CommandRecall))
    [] key = "B" -> Recall(e, Newer(e.CommandRecall))
    [] OTHER -> e

(* A character; the line is dropped when it is full.                       *)
Typed(e, key) ==
  LET next == IF e.CmdPtr = LineLen - 1 THEN 0 ELSE e.CmdPtr + 1
      full == next = LineLen - 1
  IN  [e EXCEPT !.CmdBuilder[e.CmdPtr] = key, !.CmdPtr = IF full THEN 0 ELSE next,
                !.reply = Append(@, key), !.done = full, !.strays = @ \/ full]

(* EscapeSequence counts down: ESC, [ and a key; any other key ends it.    *)
Started(e, key) == CASE key = "ESC" -> 3 [] key = "~" -> 4 [] OTHER -> e.EscapeSequence
CountDown(n, key) ==
  IF (n = 3 /\ key # "ESC") \/ (n = 2 /\ key # "[") THEN 0 ELSE n - 1

(* Keys that make the call return before it sets ReplyLen: the echo of the *)
(* keys before them is not sent.                                           *)
ReturnUnended(e) == [e EXCEPT !.CmdReady = TRUE, !.CommandRecall = SavedLen - 1,
                              !.done = TRUE, !.echo = FALSE]
Return(e) == [e EXCEPT !.CmdReady = TRUE, !.CommandRecall = SavedLen - 1,
                       !.CmdBuilder[e.CmdPtr] = NUL, !.done = TRUE, !.echo = FALSE]
Break(e, key) == [e EXCEPT !.Cancel = @ \/ key = "^C", !.strays = @ \/ e.reply # <<>>,
                           !.done = TRUE, !.echo = FALSE]

Key(e, key) ==
  LET started == Started(e, key)
      b == IF key = "BS" THEN Backspace(e) ELSE e
  IN  CASE e.done -> e
        [] ~e.done /\ key = "CR" -> Return(e)
        [] ~e.done /\ key \in {"^C", "^E"} -> Break(e, key)
        [] ~e.done /\ key \notin {"CR", "^C", "^E"} /\ started > 0 ->
             LET n == CountDown(started, key)
                 c == [b EXCEPT !.EscapeSequence = n]
             IN  IF n = 0 THEN EscapeKey(c, key) ELSE c
        [] OTHER -> IF key \in Control THEN b ELSE Typed(e, key)

Begun(e) == [e EXCEPT !.reply = <<>>, !.done = FALSE, !.echo = TRUE]
PuttyRxHandler(e, keys) ==
  LET after[n \in 0 .. Len(keys)] ==
        IF n = 0 THEN Begun(e) ELSE Key(after[n - 1], keys[n])
  IN  after[Len(keys)]

(* SaveCommand, ClearCommand                                               *)
SaveCommand(e) ==
  [i \in 1 .. SavedLen |-> IF i = 1 THEN Text(e.CmdBuilder, CmdLen) ELSE e.SavedCommands[i - 1]]
ClearCommand(e) ==
  [e EXCEPT !.SavedCommands = SaveCommand(e), !.CmdBuilder = EmptyLine, !.CmdPtr = 0,
            !.Cancel = FALSE, !.CmdReady = FALSE, !.strays = FALSE]
=============================================================================

----------------------------- MODULE MCConsole -----------------------------
(* Model checking of Console: what each user types.                        *)
EXTENDS Console

Users(uart, tcp) == [s \in Sessions |-> IF s = "uart" THEN uart ELSE tcp]
(* Both may ping; only the serial user asks for help.                      *)
Work  == Users({"help", "ping"}, {"admin", "putty", "ping", "view", "sdram"})
(* What Work does not ask about is left out: the history of the TCP        *)
(* session, and Tries and BadUser when they will be assigned before a read.*)
Dialog == <<conn, conns,
            IF at["tcp"] \in {"wait", "prompt", "login", "password"} THEN Tries ELSE 0,
            at["tcp"] = "password" /\ BadUser>>
WorkView == <<at, ed, ctx, Dialog, shared, asked["uart"], ran["uart"], shown["uart"]>>
=============================================================================

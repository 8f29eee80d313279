---------------------------- MODULE MCHttpServer ----------------------------
(* Model checking of HttpServer: a small ROM image with a file of each     *)
(* kind, and requests that take every path of the server.                  *)
EXTENDS HttpServer

File(url, method, kind, len, max) ==
  [url |-> url, method |-> method, kind |-> kind, len |-> len, max |-> max]
SmallRom ==
  { File("index", "GET", "static", 2, 0), File("custom", "GET", "script", 4, 0),
    File("selected", "GET", "script", 1, 0), File("test", "GET", "redirect", 0, 0),
    File("post_file", "POST", "script", 4, 2) }
Request(cmd, url, fwd, body) == [cmd |-> cmd, url |-> url, fwd |-> fwd, body |-> body]
Gets ==
  { Request("GET", "custom", None, 0),
    Request("GET", "selected", "index", 0), Request("GET", "selected", "params", 0),
    Request("GET", "test", None, 0), Request("GET", "missing", None, 0) }
Posts == { Request("POST", "post_file", None, 2), Request("POST", "post_file", None, 0) }
Refusals == { Request("POST", "post_file", None, 3), Request("POST", "missing", None, 1),
              Request("HEAD", "index", None, 0) }
BesideIt == { Request("POST", "post_file", None, 2) }

(* One peer makes two requests of any kind; beside it another posts.      *)
Pair(first, second) ==
  LET c == CHOOSE x \in Clients : TRUE IN [x \in Clients |-> IF x = c THEN first ELSE second]
TwoPeers == Pair(Gets \cup Posts \cup Refusals, BesideIt)
Posting == Pair(Posts, {})
TwoAndOne == Pair(2, 1)
=============================================================================

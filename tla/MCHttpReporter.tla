--------------------------- MODULE MCHttpReporter ---------------------------
(***************************************************************************)
(* HttpReporter for model checking: workloads with traffic and a caller of   *)
(* request_detail(), one with all kinds of requests, one with two clients. *)
(* Subscribers are idle, used or new, packets empty or not.                *)
(***************************************************************************)
EXTENDS HttpReporter

Get(path) == [valid |-> TRUE, method |-> "GET", path |-> path, imsi |-> << >>, query |-> << >>]
Ask(path, key, digits) == [Get(path) EXCEPT !.query = << [key |-> key, value |-> digits] >>]
Imsi(digits) == [Get("/subscribers/") EXCEPT !.imsi = digits]

Flow(key, bytes) == [key |-> key, bytes |-> bytes]
MCBusy ==
  {[http |-> FALSE, clients |-> {}, heads |-> {}, asks |-> TRUE,
    traffic |-> [subs |-> s, flows |-> f, events |-> 1]] :
     s \in {<<Unused, 1>>},
     f \in {<<Flow("a", 1), Flow("b", 2), Flow("c", 1)>>, <<Flow("a", 2), NoFlow, Flow("c", 1)>>}}
\* 10 stands for a character that is no digit.
MCHeads ==
  {<< [Get("/stats") EXCEPT !.method = "POST"] >>, << [Get("/flows") EXCEPT !.method = "HEAD"] >>,
   << Get("/healthz") >>, << Get("/stats"), Get("/other") >>, << Ask("/metrics", "subscribers", <<1>>) >>,
   << Ask("/flows", "limit", <<2, 5, 7>>) >>, << Ask("/subscribers", "limit", <<10>>) >>,
   << Imsi(<<1>>), Imsi(<<1, 10>>) >>}
MCQuiet ==
  {[http |-> TRUE, clients |-> {"c1"}, heads |-> MCHeads, asks |-> FALSE,
    traffic |-> [subs |-> <<1>>, flows |-> <<Flow("a", 1), NoFlow, NoFlow>>, events |-> 0]],
   [http |-> TRUE, clients |-> {"c1", "c2"}, heads |-> {<< Get("/flows") >>}, asks |-> FALSE,
    traffic |-> [subs |-> << >>, flows |-> <<Flow("a", 1), NoFlow, NoFlow>>, events |-> 0]]}
\* One client that asks for a table.
MCOneClient ==
  {[http |-> TRUE, clients |-> {"c1"}, heads |-> {<< Get("/flows") >>}, asks |-> FALSE,
    traffic |-> [subs |-> <<1>>, flows |-> <<Flow("a", 1), NoFlow, NoFlow>>, events |-> 0]]}
MCWorkloads == MCBusy \cup MCQuiet
=============================================================================

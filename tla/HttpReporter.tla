---------------------------- MODULE HttpReporter ----------------------------
(***************************************************************************)
(* The HTTP endpoint (src/reporter.cpp) with its clients, the publication  *)
(* it reads from, and main() from runtime.start() to its return.  One      *)
(* thread serves one connection at a time and answers from the latest      *)
(* snapshots.                                                              *)
(*                                                                         *)
(* What a client sends is the sequence of what its request line reads as   *)
(* after each piece that arrives; with the last piece the head is complete.*)
(* A body is the rows and counters in it.  A body of rows is larger than   *)
(* what the socket takes and is sent as the client reads.                  *)
(***************************************************************************)
EXTENDS DetailScan, Sums

CONSTANTS
  Clients,                     \* clients
  RecvRounds, NumberWidth,     \* 4; 2^64
  FlowsLimit, SubsLimit,       \* defaults of ?limit=: 20 and 50
  Workloads                    \* [http, clients, heads, asks, traffic]: whether there is an
                               \* endpoint, who connects, what they may send, whether
                               \* somebody else asks for the tables, the traffic

ASSUME HttpAssumption == {RecvRounds, NumberWidth} \subseteq Nat \ {0}
ASSUME WorkloadsAssumption ==
  \A w \in Workloads :
    /\ w.traffic.subs \in Seq(Usage)
    /\ DOMAIN w.traffic.flows = TableSlots /\ \A s \in TableSlots : w.traffic.flows[s].bytes \in Nat

VARIABLES
  main,                        \* where main() is
  http, stop,                  \* where the thread is; stop_
  load, backlog,               \* the workload; connections to accept
  client,                      \* per client: "idle", "connected" or "gone" (hung up)
  head, sent,                  \* per client: what it sends, and the pieces sent
  conn, got, round,            \* the connection served, pieces received, rounds of recv
  snap, response               \* route(): the counters it has loaded; the answer

httpVars == <<http, conn, got, round, snap, response>>
clientVars == <<load, client, head, sent>>
serviceVars == <<meterVars, main, stop, backlog, httpVars, clientVars>>

NoOne == "none"
NoLine == [valid |-> FALSE, method |-> "", path |-> "", imsi |-> << >>, query |-> << >>]
NoResponse == [status |-> 0, counters |-> ZeroStats, rows |-> << >>]
-----------------------------------------------------------------------------
(* Requests and answers *)

\* Digits to a number, in 64 bits.
Number(digits) == FoldAlong(LAMBDA n, d : (10 * n + d) % NumberWidth, 0, digits)
Numeric(text) == text # << >> /\ \A i \in DOMAIN text : text[i] \in 0 .. 9

\* query_param(): the value of the first pair with that key.
QueryParam(query, key, fallback) ==
  LET pairs == SelectSeq(query, LAMBDA p : p.key = key) IN
  IF pairs = << >> THEN fallback
  ELSE IF Numeric(Head(pairs).value) THEN Number(Head(pairs).value) ELSE fallback

FirstRows(rows, n) == SubSeq(rows, 1, SmallerOf(n, Len(rows)))
Answer(status, counters, rows) == [status |-> status, counters |-> counters, rows |-> rows]

RenderPrometheus(s, d, series) == Answer(200, s, FirstRows(d.subs, series))
RenderStatsJson(s) == Answer(200, s, << >>)
RenderSubscribersJson(d, limit) == Answer(200, d.total, FirstRows(d.subs, limit))
\* The subscriber's number stands for its IMSI.
RenderSubscriberJson(d, imsi) ==
  Answer(200, ZeroStats, FirstRows(SelectSeq(d.subs, LAMBDA r : r.sub = imsi), 1))
RenderFlowsJson(d, limit) == Answer(200, ZeroStats, FirstRows(d.top, limit))

\* The requests that look at the tables; a bad IMSI is refused before.
Allowed(req) == req.valid /\ req.method \in {"GET", "HEAD"}
NeedsDetail(req) ==
  /\ Allowed(req)
  /\ \/ req.path \in {"/metrics", "/flows", "/subscribers"}
     \/ req.path = "/subscribers/" /\ Numeric(req.imsi)

\* route(), given the two snapshots.
Route(req, s, d, running) ==
  IF ~req.valid THEN Answer(400, ZeroStats, << >>)
  ELSE IF ~Allowed(req) THEN Answer(405, ZeroStats, << >>)
  ELSE CASE req.path = "/healthz" -> Answer(200, IF running THEN 1 ELSE 0, << >>)
         [] req.path = "/metrics" -> RenderPrometheus(s, d, QueryParam(req.query, "subscribers", 0))
         [] req.path = "/stats" -> RenderStatsJson(s)
         [] req.path = "/subscribers/" /\ ~Numeric(req.imsi) -> Answer(400, ZeroStats, << >>)
         [] NeedsDetail(req) /\ req.path # "/metrics" /\ ~d.published -> Answer(503, ZeroStats, << >>)
         [] req.path = "/flows" /\ d.published -> RenderFlowsJson(d, QueryParam(req.query, "limit", FlowsLimit))
         [] req.path = "/subscribers" /\ d.published ->
              RenderSubscribersJson(d, QueryParam(req.query, "limit", SubsLimit))
         [] req.path = "/subscribers/" /\ Numeric(req.imsi) /\ d.published ->
              LET found == RenderSubscriberJson(d, Number(req.imsi)) IN
              IF found.rows = << >> THEN Answer(404, ZeroStats, << >>) ELSE found
         [] OTHER -> Answer(404, ZeroStats, << >>)
-----------------------------------------------------------------------------
(* The clients *)

Ended == main \in {"exit 0", "exit 1", "killed"}

\* The kernel accepts connections while the socket listens.
Connect(c) ==
  /\ ~Ended /\ http # "off"
  /\ c \in load.clients /\ client[c] = "idle"
  /\ client' = [client EXCEPT ![c] = "connected"]
  /\ \E h \in load.heads : head' = [head EXCEPT ![c] = h]
  /\ backlog' = Append(backlog, c)
  /\ UNCHANGED <<meterVars, main, stop, httpVars, load, sent>>

SendPiece(c) ==
  /\ ~Ended /\ client[c] = "connected" /\ sent[c] < Len(head[c])
  /\ sent' = [sent EXCEPT ![c] = @ + 1]
  /\ UNCHANGED <<meterVars, main, stop, backlog, httpVars, load, client, head>>

HangUp(c) ==
  /\ ~Ended /\ client[c] = "connected"
  /\ client' = [client EXCEPT ![c] = "gone"]
  /\ UNCHANGED <<meterVars, main, stop, backlog, httpVars, load, head, sent>>

\* Runtime::request_detail() by an embedding program.
AskDirectly ==
  /\ ~Ended /\ load.asks
  /\ RequestDetail
  /\ UNCHANGED <<subs, flows, todo, stats, meter, scanVars, main, stop, backlog, httpVars, clientVars>>

-----------------------------------------------------------------------------
(* serve_loop() *)

\* The head of the loop: the flag, then poll() for at most 100 ms and accept().
ServeTest ==
  /\ ~Ended /\ http = "test"
  /\ http' = IF stop THEN "ended" ELSE "poll"
  /\ UNCHANGED <<meterVars, main, stop, backlog, conn, got, round, snap, response, clientVars>>

PollAccept ==
  /\ ~Ended /\ http = "poll"
  /\ IF backlog = << >>
       THEN http' = "test" /\ UNCHANGED <<backlog, conn>>
       ELSE /\ http' = "recv" /\ conn' = Head(backlog) /\ backlog' = Tail(backlog)
  /\ UNCHANGED <<meterVars, main, stop, got, round, snap, response, clientVars>>

\* A round of recv(): what has arrived is read, or 250 ms pass, or the client is
\* gone.  It is the last one if the head is complete or no round is left.
Received ==
  /\ sent[conn] > got
  /\ got' \in got + 1 .. sent[conn]
  /\ round' = round + 1
  /\ http' = IF got' < Len(head[conn]) /\ round' < RecvRounds THEN "recv" ELSE "route"
\* Mutant: poll() waits without a limit.
NothingReceivedGone == client[conn] = "gone" /\ http' = "route" /\ UNCHANGED <<got, round>>
NothingReceived ==
  /\ sent[conn] = got \/ client[conn] = "gone"
  /\ http' = "route" /\ UNCHANGED <<got, round>>
RecvRound ==
  /\ ~Ended /\ http = "recv"
  /\ Received \/ NothingReceived
  /\ UNCHANGED <<meterVars, main, stop, backlog, conn, snap, response, clientVars>>

\* The request line as far as it has arrived, complete or not.
Request == IF got = 0 THEN NoLine ELSE head[conn][got]

\* Runtime::snapshot(): while the counters are being stored the load may give
\* up, and the snapshot is then an empty one.
LoadSnapshot ==
  /\ ~Ended /\ http = "route"
  /\ snap' \in {stats} \cup (IF meter \in {"tick", "last"} THEN {ZeroStats} ELSE {})
  /\ http' = IF NeedsDetail(Request) THEN "ask" ELSE "render"
  /\ UNCHANGED <<meterVars, main, stop, backlog, conn, got, round, response, clientVars>>

\* Runtime::detail() first asks.
AskDetail ==
  /\ ~Ended /\ http = "ask"
  /\ RequestDetail
  /\ http' = "render"
  /\ UNCHANGED <<subs, flows, todo, stats, meter, scanVars, main, stop, backlog,
                 conn, got, round, snap, response, clientVars>>

\* What is published is pinned and the answer is made from it.  Nothing of this
\* is seen by another thread, so it is one step.
Running == main \in {"ingest", "draining"}
Render ==
  /\ ~Ended /\ http = "render"
  /\ response' = Route(Request, snap, detail, Running)
  /\ snap' = ZeroStats
  /\ http' = "send"
  /\ UNCHANGED <<meterVars, main, stop, backlog, conn, got, round, clientVars>>

\* The head is sent, and the body unless the method is HEAD: a short one at once,
\* a long one as the client reads; nothing limits how long send() waits for it.  A client that is gone may have reset the
\* connection: send() then raises SIGPIPE, which nobody handles.
WaitsForClient ==
  /\ http = "send" /\ client[conn] = "connected"
  /\ Request.method # "HEAD" /\ response.rows # << >>
Send ==
  /\ ~Ended /\ http = "send" /\ ~WaitsForClient
  /\ http' = "close"
  /\ UNCHANGED <<meterVars, main, stop, backlog, conn, got, round, snap, response, clientVars>>
ClientReads ==
  /\ ~Ended /\ WaitsForClient
  /\ http' = "close"
  /\ UNCHANGED <<meterVars, main, stop, backlog, conn, got, round, snap, response, clientVars>>
BrokenPipe ==
  /\ ~Ended /\ http = "send" /\ client[conn] = "gone"
  /\ main' = "killed"
  /\ UNCHANGED <<meterVars, stop, backlog, httpVars, clientVars>>

Close ==
  /\ ~Ended /\ http = "close"
  /\ client' = [client EXCEPT ![conn] = "idle"]
  /\ head' = [head EXCEPT ![conn] = << >>] /\ sent' = [sent EXCEPT ![conn] = 0]
  /\ conn' = NoOne /\ got' = 0 /\ round' = 0
  /\ response' = NoResponse
  /\ http' = "test"
  /\ UNCHANGED <<meterVars, main, stop, backlog, snap, load>>

-----------------------------------------------------------------------------
(* main(), from runtime.start() on *)

Stopping == main \in {"stopping", "failing"}

\* HttpReporter::start(), or --http 0.
StartHttp ==
  /\ main = "starting"
  /\ \/ main' = "ingest" /\ http' = IF load.http THEN "test" ELSE "off"
     \/ load.http /\ main' = "failing" /\ UNCHANGED http
  /\ UNCHANGED <<meterVars, stop, backlog, conn, got, round, snap, response, clientVars>>

\* A signal, or the source is exhausted: some events may still be in the ring.
LeaveIngest ==
  /\ main = "ingest"
  /\ main' = "draining"
  /\ todo' \in {0, todo}
  /\ UNCHANGED <<subs, flows, stats, age, meter, scanVars, stop, backlog, httpVars, clientVars>>

\* The wait for an empty ring is over, or its two seconds are; Runtime::stop()
\* clears running_ and raises meter_stop_.
StopRuntime ==
  /\ main = "draining"
  /\ main' = "stopping"
  /\ UNCHANGED <<meterVars, stop, backlog, httpVars, clientVars>>

\* Runtime::stop() has joined the metering thread.
JoinMeter ==
  /\ Stopping /\ meter = "ended"
  /\ main' = IF main = "failing" THEN "exit 1" ELSE "joined"
  /\ UNCHANGED <<meterVars, stop, backlog, httpVars, clientVars>>

\* HttpReporter::stop(): raise the flag, then join.
\* Mutant: the flag is not raised.
StopHttpUnraised ==
  /\ main = "joined"
  /\ main' = "http stop"
  /\ UNCHANGED <<meterVars, stop, backlog, httpVars, clientVars>>
StopHttp ==
  /\ main = "joined"
  /\ main' = "http stop"
  /\ stop' = TRUE
  /\ UNCHANGED <<meterVars, backlog, httpVars, clientVars>>
JoinHttp ==
  /\ main = "http stop" /\ http \in {"off", "ended"}
  /\ main' = "exit 0"
  /\ UNCHANGED <<meterVars, stop, backlog, httpVars, clientVars>>

-----------------------------------------------------------------------------
MeterStep ==
  /\ ~Ended
  /\ Apply \/ TickBegin(Stopping) \/ TickScan
  /\ UNCHANGED <<main, stop, backlog, httpVars, clientVars>>
HttpStep ==
  \/ ServeTest \/ PollAccept \/ RecvRound \/ LoadSnapshot \/ AskDetail
  \/ Render \/ Send \/ BrokenPipe \/ Close
MainStep == StartHttp \/ StopRuntime \/ JoinMeter \/ StopHttp \/ JoinHttp
ClientStep == ClientReads \/ AskDirectly \/ \E c \in Clients : Connect(c) \/ SendPiece(c) \/ HangUp(c)

ServiceInit ==
  /\ load \in Workloads /\ ScanInit(load.traffic)
  /\ main = "starting" /\ http = "off" /\ stop = FALSE
  /\ backlog = << >>
  /\ client = [c \in Clients |-> "idle"] /\ head = [c \in Clients |-> << >>] /\ sent = [c \in Clients |-> 0]
  /\ conn = NoOne /\ got = 0 /\ round = 0
  /\ snap = ZeroStats /\ response = NoResponse

ServiceNext == MeterStep \/ HttpStep \/ MainStep \/ LeaveIngest \/ ClientStep

ServiceSpec == ServiceInit /\ [][ServiceNext]_serviceVars

\* The threads are scheduled, and time passes for their timeouts.  (They have a
\* step exactly when they are ready: the two formulas are weak fairness.)  Every
\* round of the metering loop takes what is in the rings and looks at the flag;
\* ticks alone do not keep it there.  Clients need not connect, send, read or stay.
MeterReady == ~Ended /\ meter # "ended"
Leaving == MeterStep /\ (todo' < todo \/ meter' \in {"last", "ended"})
HttpReady == ~Ended /\ http \notin {"off", "ended", "recv"} /\ ~WaitsForClient
FairSpec ==
  /\ ServiceSpec
  /\ []<>~MeterReady \/ []<><<MeterStep>>_serviceVars
  /\ []<>~(MeterReady /\ Stopping) \/ []<><<Leaving>>_serviceVars
  /\ []<>~HttpReady \/ []<><<HttpStep>>_serviceVars
  /\ WF_serviceVars(RecvRound) /\ WF_serviceVars(MainStep)

-----------------------------------------------------------------------------
(* Properties *)

\* The tables a pass publishes are a rolling view of the counters, as
\* meter_thread.cpp:178-183 says: a row shows a value its subscriber or flow had
\* while the pass went on, and who was there from the beginning is left out only
\* of a full table, all of whose rows are at least as large.
LeftOut(bytes, rows, limit) == Len(rows) = limit /\ \A i \in DOMAIN rows : rows[i].bytes >= bytes
SubsSound(rows) ==
  /\ \A i \in DOMAIN rows :
       LET r == rows[i] IN
       /\ r.bytes <= subs[r.sub]
       /\ r.sub \in DOMAIN PassOrigin.subs => PassOrigin.subs[r.sub] <= r.bytes
       /\ \A j \in DOMAIN rows : rows[j].sub = r.sub => i = j
  /\ \A n \in DOMAIN PassOrigin.subs :
       PassOrigin.subs[n] # Unused =>
         (\E i \in DOMAIN rows : rows[i].sub = n) \/ LeftOut(PassOrigin.subs[n], rows, SubLimit)
FlowsSound(rows) ==
  /\ \A i \in DOMAIN rows : rows[i].slot \in PassOrigin.kept =>
       /\ rows[i].key = flows[rows[i].slot].key
       /\ rows[i].bytes \in PassOrigin.flows[rows[i].slot].bytes .. flows[rows[i].slot].bytes
  /\ \A s \in PassOrigin.kept :
       PassOrigin.flows[s].key # "none" =>
         (\E i \in DOMAIN rows : rows[i].slot = s) \/ LeftOut(PassOrigin.flows[s].bytes, rows, FlowLimit)
  /\ \A i \in 1 .. Len(rows) - 1 : rows[i].bytes >= rows[i + 1].bytes
TablesSound == [][pass' # pass => SubsSound(detail'.subs) /\ FlowsSound(detail'.top)]_serviceVars

\* While the metering thread ticks and readers keep their interest alive, pass
\* after pass is completed, although each tick examines a few entries only and
\* a tick is lost when a request is stamped after the tick has read the time
\* (meter_thread.cpp:167-264): it is enough that this does not go on for ever.
StampedLate == meter = "tick" /\ age = 0
DetailKeptFresh ==
  (<>[]~StampedLate /\ []<>Demanded /\ []<>(meter = "tick" /\ ~Ended)) => ([]<>(pass = 0) /\ []<>(pass = 1))

\* If every long answer is read in the end, or its client goes away, a client
\* that connects and waits is answered, whatever it and the others send or fail
\* to send, unless the program ends (reporter.cpp:505-544).
AnswersRead == []<>~WaitsForClient
RequestsAnswered ==
  AnswersRead => \A c \in Clients : client[c] = "connected" ~> client[c] # "connected" \/ Ended

\* Under the same condition, and if no client resets its connection under a
\* send(), main() returns once the ingest loop is left, with both threads joined
\* (main.cpp:394-401); so it does if the HTTP endpoint cannot be started.
LeftIngest == main = "draining" \/ Stopping
ExitReached ==
  AnswersRead /\ [](main # "killed")
    => (LeftIngest ~> Ended /\ meter = "ended" /\ http \in {"off", "ended"})

\* What reporter.hpp:8-9 says of stop(), without those conditions: poll() has a
\* timeout "so shutdown is prompt".  A client that does not read keeps the thread
\* in send(), and stop() waits for it.
ShutdownPrompt == stop ~> http = "ended" \/ Ended
=============================================================================

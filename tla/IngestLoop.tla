----------------------------- MODULE IngestLoop -----------------------------
(***************************************************************************)
(* The ingest loop of src/main.cpp: it opens the source, takes batches     *)
(* from it, strips the link layer and hands each packet to the frame       *)
(* processor, until the source is exhausted or a signal comes.             *)
(***************************************************************************)
EXTENDS PacketSource, Ingest

CONSTANT Memory       \* per link type, what a view into freed or reused memory may show

\* What lies where a header is read: lengths are numbers, flags are bits, and at
\* the GTP-U port there is a GTP-U header.  Which values they have, and whether
\* they fit together, is open.
GtpuData(d) ==
  /\ d.declared \in Nat /\ {d.e, d.s, d.pn} \subseteq BOOLEAN
  /\ d.exts \in Seq(Range(d.exts)) /\ \A i \in DOMAIN d.exts : d.exts[i].units \in Nat
IpLengths(d) ==
  /\ d.version \in {4, 6} => d.doff \in Nat
  /\ d.version = 4 => d.ihl \in Nat /\ d.total_len \in Nat
  /\ d.version = 6 => /\ d.payload_len \in Nat /\ d.exts \in Seq(Range(d.exts))
                      /\ \A i \in DOMAIN d.exts : d.exts[i].len \in Nat
IpData(d) ==
  /\ IpLengths(d)
  /\ d.version \in {4, 6} /\ EitherPort(d, GtpuPort) => GtpuData(d.body) /\ IpLengths(d.body.body)
LinkData(l, d) ==
  CASE l = "ethernet" -> d.tags \in Nat /\ IpData(d.body)
    [] l = "raw_ip" -> IpData(d)
    [] l = "linux_sll" -> IpData(d.body)
    [] OTHER -> TRUE

\* A packet that is said to carry a PDU does.
OuterIp(layer) ==
  ParseIp(IF layer.is_ethernet THEN ParseEthernet(layer.payload).payload ELSE layer.payload)
Carries(l, p) ==
  "pdu" \in DOMAIN p =>
    LET outer == OuterIp(StripLinkLayer(l, View(p.size, p.data))) IN
    /\ outer.valid /\ outer.proto = "udp" /\ EitherPort(outer, GtpuPort)
    /\ outer.payload = p.pdu /\ p.pdu.size \in Nat /\ GtpuData(p.pdu.data)

\* A cooked packet may end with its link header.
Captured(l, p) ==
  /\ p.size \in Nat /\ Carries(l, p)
  /\ (l = "linux_sll" => p.size > 16) => LinkData(l, p.data)
ASSUME PacketsAssumption ==
  /\ \A r \in Replays : \A i \in DOMAIN r.file.records : Captured(r.file.link, r.file.records[i])
  /\ \A l \in {"ethernet", "raw_ip"} :
       /\ \A p \in LivePackets[l] : Captured(l, p)
       /\ \A p \in Memory[l] : LinkData(l, p.data) /\ "pdu" \notin DOMAIN p

VARIABLES
  main,                         \* "open", "test", "fill", "process", "done" or "failed"
  signalled,                    \* g_stop
  seen                          \* history: packets skipped, of Ethernet, of Diameter;
                                \* events the metering thread has taken

vars == <<sourceVars, ingestVars, main, signalled, seen>>

Init ==
  /\ SourceInit /\ IngestInit
  /\ main = "open" /\ signalled = FALSE
  /\ seen = [skipped |-> 0, ethernet |-> 0, diameter |-> 0, popped |-> 0, gyPopped |-> 0]

OnSignal ==
  /\ ~signalled /\ main \notin {"done", "failed"}
  /\ signalled' = TRUE
  /\ UNCHANGED <<sourceVars, ingestVars, main, seen>>

\* The source opens, or main() returns 1: a file that is no capture or has no
\* packets, an interface that cannot be opened.
Open ==
  /\ main = "open"
  /\ \/ (OpenReplay \/ OpenLive) /\ main' = "test"
     \/ ~(kind = "replay" /\ ReplayOpens) /\ main' = "failed" /\ UNCHANGED sourceVars
  /\ UNCHANGED <<ingestVars, signalled, seen>>

TestStop ==
  /\ main = "test"
  /\ main' = IF signalled THEN "done" ELSE "fill"
  /\ UNCHANGED <<sourceVars, ingestVars, signalled, seen>>

FillBatch ==
  /\ main = "fill"
  /\ Fill
  /\ UNCHANGED <<ingestVars, main, signalled, seen>>

\* next_batch() returns.  Without a packet the loop ends if the source is
\* exhausted, and otherwise sleeps and goes round.
BatchFilled ==
  /\ main = "fill"
  /\ BatchReady
  /\ LinuxNothing \/ UNCHANGED sourceVars
  /\ main' = IF batch # << >> THEN "process" ELSE IF exhausted THEN "done" ELSE "test"
  /\ UNCHANGED <<ingestVars, signalled, seen>>

\* The bytes a view shows: those read for it while they are in place.
Shows(e) == IF e.generation = generation THEN {e.packet} ELSE Memory[link]

\* Told from the outer packet alone: one that is to be read as Diameter.
IsDiameter(outer) ==
  cfg.parse_diameter /\ outer.valid /\ outer.proto \in {"tcp", "sctp"} /\ EitherPort(outer, DiameterPort)
One(b) == IF b THEN 1 ELSE 0

ProcessView(p, layer) ==
  IF ~layer.valid
    THEN seen' = [seen EXCEPT !.skipped = @ + 1] /\ UNCHANGED ingestVars
    ELSE /\ Process(p, layer.payload, layer.is_ethernet)
         /\ seen' = [seen EXCEPT !.ethernet = @ + One(layer.is_ethernet),
                                 !.diameter = @ + One(IsDiameter(OuterIp(layer)))]
ProcessPacket ==
  /\ main = "process" /\ AtRest /\ batch # << >>
  /\ \E p \in Shows(Head(batch)) :
       ProcessView(p, StripLinkLayer(link, View(Head(batch).packet.size, p.data)))
  /\ batch' = Tail(batch)
  /\ UNCHANGED <<kind, file, asked, link, replayVars, liveVars, taken, main, signalled>>

ProcessDiameter ==
  /\ main = "process"
  /\ DiameterMessage \/ EmitGyEvent
  /\ UNCHANGED <<sourceVars, main, signalled, seen>>

BatchDone ==
  /\ main = "process" /\ AtRest /\ batch = << >>
  /\ main' = "test"
  /\ UNCHANGED <<sourceVars, ingestVars, signalled, seen>>

MeterTakes ==
  /\ \/ PopMeterEvent /\ seen' = [seen EXCEPT !.popped = @ + 1]
     \/ PopGyEvent /\ seen' = [seen EXCEPT !.gyPopped = @ + 1]
  /\ UNCHANGED <<sourceVars, main, signalled>>

MainStep == Open \/ TestStop \/ FillBatch \/ BatchFilled \/ ProcessPacket \/ ProcessDiameter \/ BatchDone

Next == MainStep \/ MeterTakes \/ OnSignal

Spec == Init /\ [][Next]_vars

\* The main thread is scheduled; no packet need arrive and no signal come.  This
\* is WF_vars(MainStep): Ready holds just where MainStep is enabled, and is told
\* without parsing a packet.
Ready == main \notin {"done", "failed"} /\ (main = "fill" => BatchReady \/ ENABLED Fill)
FairSpec == Spec /\ ([]<>~Ready \/ []<><<MainStep>>_vars)

-----------------------------------------------------------------------------
(* Properties.  A packet carries, beside its bytes, what it was built to    *)
(* say: "pdu" the GTP-U PDU that arrives, "events" and "gy" the events it   *)
(* should lead to.                                                          *)

Says(field) == field \in DOMAIN last.packet /\ AtRest

\* Every packet handed out by the source is waiting in the batch, was skipped
\* for its link type, is Diameter by its protocol and port, or is in exactly one
\* class of IngestStats: no return of process_ip() or process_gtpu() counts
\* nothing, or twice.  Every event made is in a ring, with the metering thread,
\* or counted as dropped.  Holds between any two steps of the ingest and metering
\* threads (main.cpp:361-374, pipeline.hpp:71-237).
PacketsAccounted ==
  /\ taken = Len(batch) + seen.skipped + seen.diameter
               + (stats.non_ip + stats.not_gtpu_port + stats.gtpu_parse_errors + stats.gtpu_gpdus + stats.gtpu_control)
  /\ stats.frames = seen.ethernet
  /\ stats.gtpu_gpdus + stats.gtpu_control = stats.events_pushed + stats.events_dropped
  /\ stats.events_pushed = seen.popped + Len(meterRing)
  /\ stats.gy_events = seen.gyPopped + Len(gyRing) + stats.gy_events_dropped

\* A PDU is well formed: its length field covers the optional fields and a
\* chain of at most MaxGtpuExts extension headers, none empty, and is covered
\* by the bytes that are there.
ChainOf(h, n) ==
  IF n = 0 THEN ~h.e \/ h.first_ext = "none"
  ELSE /\ h.e /\ h.first_ext # "none" /\ n <= Len(h.exts)
       /\ \A i \in 1 .. n : h.exts[i].units > 0 /\ (h.exts[i].next = "none" <=> i = n)
HeadersOf(h, n) ==
  IF h.e \/ h.s \/ h.pn THEN 4 + 4 * Total([i \in 1 .. n |-> h.exts[i].units]) ELSE 0
WellFormed(pdu, n) ==
  LET h == pdu.data IN
  /\ pdu.size >= 8 /\ h.version = 1 /\ h.pt
  /\ ChainOf(h, n) /\ HeadersOf(h, n) <= h.declared /\ h.declared <= pdu.size - 8

\* Reference for parse_gtpu() and process_gtpu(): exactly the well-formed PDUs
\* that arrive lead to an event; it is charged with nothing for control, the
\* length of the tunnelled IP packet where there is one, and otherwise with the
\* bytes the length field leaves after the headers.
ExactlyMetered(pdu, events) ==
  LET chains == {n \in 0 .. MaxGtpuExts : WellFormed(pdu, n)} IN
  /\ events # << >> <=> chains # {}
  /\ \A n \in chains :
       LET size == pdu.data.declared - HeadersOf(pdu.data, n)
           inner == ParseIp(View(size, pdu.data.body))
       IN events[1].bytes =
            IF pdu.data.msg_type # "gpdu" THEN 0
            ELSE IF inner.valid /\ cfg.meter_inner_ip_length THEN inner.ip_total_len ELSE size
GtpuExact ==
  [][last' # last /\ "pdu" \in DOMAIN last'.packet => ExactlyMetered(last'.packet.pdu, last'.events)]_vars

\* What the builders of synth.hpp encode is what the pipeline meters: tunnel,
\* QFI, direction, bytes and flow, through VLAN tags, extension headers, IPv4
\* and IPv6.
MeteredAsBuilt ==
  Says("events") =>
    /\ Len(last.events) = Len(last.packet.events)
    /\ \A i \in DOMAIN last.events : \A f \in DOMAIN last.packet.events[i] :
         last.events[i][f] = last.packet.events[i][f]

\* The Gy events of a Diameter packet are those of its messages up to the first
\* one that is cut or malformed: one per credit-control block in order, at most
\* MaxMscc per message, with the subscriber and the octets of the message.
GyAsBuilt == cfg.parse_diameter /\ Says("gy") => last.gy = last.packet.gy

\* No view handed on by a parser reaches past the view it was given: link, IP
\* and transport headers, tunnel and inner packet (net.hpp, gtpu.hpp).
IpInside(v) ==
  LET p == ParseIp(v) IN p.payload.size >= 0 /\ p.l3_header_len + p.l4_header_len + p.payload.size <= v.size
Nested(v) ==
  LET ip == IF link = "ethernet" THEN ParseEthernet(v).payload ELSE v
      outer == ParseIp(ip)
      gtpu == outer.valid /\ outer.proto = "udp" /\ EitherPort(outer, GtpuPort)
      h == ParseGtpu(outer.payload)
  IN /\ ip.size <= v.size /\ IpInside(ip)
     /\ gtpu => h.payload.size <= outer.payload.size /\ IpInside(h.payload)
ViewsInside == [][last' # last => Nested(last'.view)]_vars

\* A replay that reports itself exhausted has handed out every packet of the
\* capture as often as asked, and the cursor never leaves the capture; a record
\* cut off at the end of the file costs that record only.
ReplayCounted ==
  kind = "replay" /\ main \notin {"open", "failed"} =>
    /\ cursor \in 0 .. Len(packets)
    /\ taken = cursor + (IF exhausted THEN loop - 1 ELSE loop) * Len(packets)
    /\ exhausted /\ asked < LoopWidth => taken = asked * Len(packets)
CapturedWhole(f, ps) ==
  /\ Len(ps) <= Len(f.records) /\ \A i \in DOMAIN ps : ps[i] = f.records[i]
  /\ Total([i \in DOMAIN ps |-> 16 + ps[i].size]) + 24 <= f.size
  /\ ps # f.records => Total([i \in 1 .. Len(ps) + 1 |-> 16 + f.records[i].size]) + 24 > f.size
ReplayIndexed == kind = "replay" /\ main \notin {"open", "failed"} => CapturedWhole(file, packets)
ReplayExact == ReplayCounted /\ ReplayIndexed

\* A finite replay ends the program's loop, also when the capture fills its
\* last batch exactly.
ReplayEnds ==
  kind = "replay" /\ main = "test" /\ OptLoops # 0 ~> main = "done"

\* ingest_rawsock.cpp:102: "the buffer is reused, so each batch entry views the
\* bytes read for it."
EntriesViewTheirBytes ==
  main = "process" => \A i \in DOMAIN batch : batch[i].generation = generation
=============================================================================

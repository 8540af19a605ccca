------------------------------- MODULE Ingest -------------------------------
(***************************************************************************)
(* The frame processor of include/gtpm/pipeline.hpp: from a view of a      *)
(* captured packet to meter events and Gy events in the two rings, with    *)
(* its counters.  The rings are the bounded queues that SpscRing is shown  *)
(* to implement; the metering thread takes from them at any moment.        *)
(* frames_bytes, a sum of sizes, is left out.                              *)
(***************************************************************************)
EXTENDS Synth

CONSTANTS MeterRingSize, GyRingSize, Configs       \* ring sizes; the IngestConfigs

ASSUME IngestAssumption ==
  /\ {MeterRingSize, GyRingSize} \subseteq Nat \ {0}
  /\ Configs \subseteq [parse_diameter : BOOLEAN, count_wire_bytes : BOOLEAN,
                          meter_inner_ip_length : BOOLEAN]

VARIABLES
  cfg,                   \* cfg_
  stats,                 \* IngestStats
  meterRing, gyRing,     \* the elements of the rings
  rest, pending,         \* process_diameter(): the bytes to go, and Gy events to push
  outcome,               \* the FrameOutcome so far
  last                   \* history: the packet being processed and its events

ingestVars == <<cfg, stats, meterRing, gyRing, rest, pending, outcome, last>>

Counters == {"frames", "non_ip", "not_gtpu_port", "gtpu_parse_errors", "gtpu_gpdus", "gtpu_control",
             "inner_parse_errors", "diameter_messages", "diameter_parse_errors", "gy_events",
             "events_pushed", "events_dropped", "gy_events_dropped", "truncated_frames"}
Count(names) == stats' = [c \in Counters |-> stats[c] + (IF c \in names THEN 1 ELSE 0)]

\* What processing a packet has counted, the events it has made and, if it is
\* Diameter, the payload to go through.
Verdict(counts, events, outcm) ==
  [counts |-> counts, events |-> events, outcome |-> outcm, diameter |-> NoBytes]

-----------------------------------------------------------------------------
(* GTP-U *)

\* The direction is that of the PDU session container.
\* Mutant: without a container the packet is taken to be downlink.
DirectionOfType(q) == IF q.pdu_type = 1 THEN "uplink" ELSE "downlink"
Direction(q) == IF ~q.has THEN "unknown" ELSE IF q.pdu_type = 1 THEN "uplink" ELSE "downlink"

\* The MeterEvent of a PDU: a packet that is not IP, or is cut before its
\* header ends, is charged by its size and has no flow.
MeterEvent(h, inner, wire) ==
  [teid |-> h.teid, qfi |-> h.qfi, wire |-> IF cfg.count_wire_bytes THEN wire ELSE 0, control |-> h.msg_type # "gpdu",
   dir |-> Direction(h.qfi),
   bytes |-> IF h.msg_type # "gpdu" THEN 0
             ELSE IF inner.valid /\ cfg.meter_inner_ip_length THEN inner.ip_total_len ELSE h.payload.size,
   flow |-> IF h.msg_type = "gpdu" /\ inner.valid THEN FlowKey(inner, h.payload.data) ELSE << >>]

\* Mutant: a packet that is cut is counted as such and in no class.
GtpuVerdictUnclassed(h, inner, wire) ==
  LET event == <<MeterEvent(h, inner, wire)>> IN
  IF h.status = "truncated" THEN Verdict({"truncated_frames"}, << >>, "parse_error")
  ELSE IF h.status # "ok" THEN Verdict({"gtpu_parse_errors"}, << >>, "parse_error")
  ELSE IF h.msg_type # "gpdu" THEN Verdict({"gtpu_control"}, event, "gtpu_control")
  ELSE Verdict({"gtpu_gpdus"} \cup (IF inner.valid THEN {} ELSE {"inner_parse_errors"}),
               event, "metered")
GtpuVerdict(h, inner, wire) ==
  LET event == <<MeterEvent(h, inner, wire)>> IN
  IF h.status = "truncated"
    THEN Verdict({"gtpu_parse_errors", "truncated_frames"}, << >>, "parse_error")
  ELSE IF h.status # "ok" THEN Verdict({"gtpu_parse_errors"}, << >>, "parse_error")
  ELSE IF h.msg_type # "gpdu" THEN Verdict({"gtpu_control"}, event, "gtpu_control")
  ELSE Verdict({"gtpu_gpdus"} \cup (IF inner.valid THEN {} ELSE {"inner_parse_errors"}),
               event, "metered")
ProcessGtpu(h, wire) == GtpuVerdict(h, ParseIp(h.payload), wire)

-----------------------------------------------------------------------------
(* Dispatch *)

EitherPort(p, port) == p.dst_port = port \/ p.src_port = port

Dispatch(outer, wire) ==
  IF ~outer.valid THEN Verdict({"non_ip"}, << >>, "not_our_traffic")
  ELSE IF outer.proto = "udp" /\ EitherPort(outer, GtpuPort) THEN ProcessGtpu(ParseGtpu(outer.payload), wire)
  ELSE IF cfg.parse_diameter /\ outer.proto \in {"tcp", "sctp"} /\ EitherPort(outer, DiameterPort)
    THEN [Verdict({}, << >>, "not_our_traffic") EXCEPT !.diameter = outer.payload]
  ELSE Verdict({"not_gtpu_port"}, << >>, "not_our_traffic")
ProcessIp(pkt, wire) == Dispatch(ParseIp(pkt), wire)

\* process_frame(): a frame that is no Ethernet frame has no payload, and what
\* has no bytes is no IP packet.
ProcessFrame(frame) ==
  LET v == ProcessIp(ParseEthernet(frame).payload, U16(frame.size)) IN
  [v EXCEPT !.counts = @ \cup {"frames"}]

PushCounts(room) == IF room THEN {"events_pushed"} ELSE {"events_dropped"}

\* process_frame() or process_ip() as a whole, up to the push of the event; of a
\* Diameter packet up to its first message.
Concludes(packet, view, v) ==
  LET room == Len(meterRing) < MeterRingSize IN
  /\ Count(v.counts \cup (IF v.events = << >> THEN {} ELSE PushCounts(room)))
  /\ meterRing' = IF room THEN meterRing \o v.events ELSE meterRing
  /\ outcome' = IF v.events = << >> \/ room THEN v.outcome ELSE "dropped"
  /\ rest' = v.diameter
  /\ last' = [packet |-> packet, view |-> view, events |-> v.events, gy |-> << >>]
  /\ UNCHANGED <<cfg, gyRing, pending>>
Process(packet, view, is_ethernet) ==
  Concludes(packet, view, IF is_ethernet THEN ProcessFrame(view) ELSE ProcessIp(view, U16(view.size)))

-----------------------------------------------------------------------------
(* Diameter *)

ZeroMessage == [version |-> 0, length |-> 0, request |-> FALSE, credit_control |-> FALSE, avps |-> << >>]

\* The Gy events of a message: one per credit-control block, or one without.
GyEvents(gy) ==
  LET blocks == IF gy.mscc = << >> THEN << NoMscc >> ELSE gy.mscc IN
  [i \in DOMAIN blocks |->
     [imsi |-> gy.imsi, has_imsi |-> gy.has_imsi, is_request |-> gy.is_request,
      request_type |-> gy.request_type, result_code |-> gy.result_code] @@ blocks[i]]

\* One round of process_diameter(): stop on less than a header or on an error.
MessageParsed(m, r) ==
  IF r.status # "ok"
    THEN /\ Count({"diameter_parse_errors"})
         /\ outcome' = IF outcome = "gy_control" THEN outcome ELSE "parse_error"
         /\ rest' = NoBytes
         /\ UNCHANGED <<pending, last>>
    ELSE /\ Count({"diameter_messages"})
         /\ rest' = View(rest.size - m.length, Tail(rest.data))
         /\ pending' = IF m.credit_control THEN GyEvents(r.gy) ELSE << >>
         /\ last' = [last EXCEPT !.gy = @ \o pending']
         /\ UNCHANGED outcome
DiameterMessage ==
  LET m == IF rest.data = << >> THEN ZeroMessage ELSE Head(rest.data) IN
  /\ rest.size >= 20 /\ pending = << >>
  /\ MessageParsed(m, ParseDiameterGy(rest.size, m))
  /\ UNCHANGED <<cfg, meterRing, gyRing>>

\* One round of emit_gy_events().
EmitGyEvent ==
  /\ pending # << >>
  /\ pending' = Tail(pending)
  /\ IF Len(gyRing) < GyRingSize
       THEN /\ gyRing' = Append(gyRing, Head(pending))
            /\ outcome' = "gy_control"
            /\ Count({"gy_events"})
       ELSE Count({"gy_events", "gy_events_dropped"}) /\ UNCHANGED <<gyRing, outcome>>
  /\ UNCHANGED <<cfg, meterRing, rest, last>>

\* The packet is done with.
AtRest == pending = << >> /\ rest.size < 20

-----------------------------------------------------------------------------
(* The metering thread *)

PopMeterEvent ==
  /\ meterRing # << >>
  /\ meterRing' = Tail(meterRing)
  /\ UNCHANGED <<cfg, stats, gyRing, rest, pending, outcome, last>>
PopGyEvent ==
  /\ gyRing # << >>
  /\ gyRing' = Tail(gyRing)
  /\ UNCHANGED <<cfg, stats, meterRing, rest, pending, outcome, last>>

NoPacket == [kind |-> "none"]
IngestInit ==
  /\ cfg \in Configs
  /\ stats = [c \in Counters |-> 0]
  /\ meterRing = << >> /\ gyRing = << >>
  /\ rest = NoBytes /\ pending = << >> /\ outcome = "not_our_traffic"
  /\ last = [packet |-> NoPacket, view |-> NoBytes, events |-> << >>, gy |-> << >>]
=============================================================================

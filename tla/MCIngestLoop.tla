---------------------------- MODULE MCIngestLoop ----------------------------
(***************************************************************************)
(* IngestLoop for model checking: the packets.  Many captures of a single  *)
(* packet, to try the parsers; a few packets in longer captures and on a   *)
(* live interface, to try the loop, the rings and the batch buffer.        *)
(***************************************************************************)
EXTENDS IngestLoop

Packet(v) == [size |-> v.size, data |-> v.data]
Cut(p, n) == [p EXCEPT !.size = IF n < @ THEN @ - n ELSE 0]
Filler(n) == View(n, NoBytes.data)

Flow == [src_port |-> 1000, dst_port |-> 2000, addrs |-> "ue"]
Ports(a, b) == [src_port |-> a, dst_port |-> b, addrs |-> "outer"]
\* Tunnelled packets, and the flow each of them belongs to.
Inners == {[ip |-> BuildIpv4Udp(Flow, Filler(12)), flow |-> <<"ue", 1000, 2000, "udp", 4>>],
           [ip |-> BuildIpv4Tcp(Flow, Filler(0)), flow |-> <<"ue", 1000, 2000, "tcp", 4>>],
           [ip |-> BuildIpv6Udp(Flow, Filler(4)), flow |-> <<"ue", 1000, 2000, "udp", 6>>],
           [ip |-> Filler(24), flow |-> << >>]}

-----------------------------------------------------------------------------
(* GTP-U packets as the builders make them *)

OtherExt == [type |-> "other", content |-> 1, qfi |-> 0, pdu_type |-> 0]
GtpuSpecs ==
  [teid : {7}, msg_type : {"gpdu", "echo"}, with_seq : BOOLEAN, with_npdu : {FALSE}, with_qfi : BOOLEAN,
   qfi : {9}, pdu_type : {0, 1}, extra_ext : {<< >>, <<OtherExt>>, <<OtherExt, OtherExt>>}]
Expected(s, inner) ==
  IF Len(GtpuChain(s)) > MaxGtpuExts THEN << >>
  ELSE << [teid |-> s.teid, control |-> s.msg_type # "gpdu",
           qfi |-> IF s.with_qfi THEN [has |-> TRUE, qfi |-> s.qfi, pdu_type |-> s.pdu_type] ELSE NoQfi,
           dir |-> IF ~s.with_qfi THEN "unknown" ELSE IF s.pdu_type = 1 THEN "uplink" ELSE "downlink",
           bytes |-> IF s.msg_type = "gpdu" THEN inner.ip.size ELSE 0,
           flow |-> IF s.msg_type = "gpdu" THEN inner.flow ELSE << >>] >>
Built ==
  {Packet(BuildGtpuFrame(s, inner.ip)) @@ [events |-> Expected(s, inner)] : s \in GtpuSpecs, inner \in Inners}
  \cup
  {Packet(BuildEthernet(BuildIpv6Udp(Ports(GtpuPort, 99), BuildGtpu(s, inner.ip)), tags))
     @@ [events |-> IF tags > MaxVlanTags THEN << >> ELSE Expected(s, inner)] :
   s \in {t \in GtpuSpecs : t.with_seq /\ t.with_qfi}, inner \in Inners, tags \in 0 .. 3}

-----------------------------------------------------------------------------
(* Arbitrary PDUs: flags, lengths and chains that need not fit together *)

Ext(units, next) == [units |-> units, next |-> next, qfi |-> 5, pdu_type |-> 1]
Chains ==
  {[first |-> "none", exts |-> << >>],
   [first |-> "pdu_session_container", exts |-> << Ext(1, "none") >>],
   [first |-> "other", exts |-> << Ext(2, "pdu_session_container"), Ext(1, "none") >>],
   [first |-> "other", exts |-> << Ext(0, "none") >>],
   [first |-> "other", exts |-> << Ext(1, "other"), Ext(1, "other"), Ext(1, "none") >>],
   [first |-> "other", exts |-> << Ext(1, "other") >>]}
Pdus ==
  {View(size, [version |-> f.version, pt |-> f.pt, e |-> f.e, s |-> f.s, pn |-> FALSE, msg_type |-> f.msg,
               declared |-> declared, teid |-> 7, first_ext |-> c.first, exts |-> c.exts, body |-> inner.data]) :
   size \in {7, 8, 11, 12, 16, 20, 24, 62}, declared \in {0, 3, 4, 7, 8, 12, 16, 54},
   f \in [version : {1}, pt : {TRUE}, e : BOOLEAN, s : BOOLEAN, msg : {"gpdu"}]
         \cup {[version |-> 2, pt |-> TRUE, e |-> FALSE, s |-> FALSE, msg |-> "gpdu"],
               [version |-> 1, pt |-> FALSE, e |-> FALSE, s |-> FALSE, msg |-> "gpdu"],
               [version |-> 1, pt |-> TRUE, e |-> TRUE, s |-> FALSE, msg |-> "echo"]},
   c \in Chains, inner \in {BuildIpv4Udp(Flow, Filler(12))}}
\* A chain is described only where the flags say that there is one.
SoundPdus == {p \in Pdus : p.data.e \/ p.data.exts = << >>}
Arbitrary ==
  {Packet(BuildEthernet(BuildIpv4Udp(Ports(99, GtpuPort), pdu), 0)) @@ [pdu |-> pdu] : pdu \in SoundPdus}
Truncated ==
  {Cut(Packet(BuildEthernet(BuildIpv4Udp(Ports(99, GtpuPort), pdu), 0)), n) @@ [pdu |-> Cut(pdu, n)] :
   n \in {1, 9, 30}, pdu \in {p \in SoundPdus : p.size = 62 /\ p.data.declared = 54}}

-----------------------------------------------------------------------------
(* IP packets with headers that need not fit the packet *)

L4 == [src_port |-> 99, dst_port |-> 98, doff |-> 20, body |-> NoBytes.data]
Ipv4s ==
  {View(size, [version |-> 4, ihl |-> ihl, total_len |-> total, frag_off |-> frag, more_frags |-> more,
               proto |-> proto, addrs |-> "x"] @@ [L4 EXCEPT !.doff = doff]) :
   size \in {19, 20, 27, 44, 64}, ihl \in {16, 20, 24}, total \in {19, 20, 40, 70},
   frag \in {0, 3}, more \in {FALSE}, proto \in {"udp", "tcp", "sctp", "icmp"}, doff \in {16, 20, 28}}
V6Ext(len, next, frag) == [len |-> len, next |-> next, frag |-> frag]
Ipv6s ==
  {View(size, [version |-> 6, payload_len |-> pl, next |-> c[1], exts |-> c[2], addrs |-> "x"] @@ L4) :
   size \in {39, 40, 47, 56, 64}, pl \in {0, 8, 16, 24},
   c \in {<<"udp", << >> >>, <<"frag", <<V6Ext(0, "udp", "whole")>> >>, <<"frag", <<V6Ext(0, "udp", "later")>> >>,
          <<"frag", <<V6Ext(0, "udp", "first")>> >>, <<"hop_by_hop", <<V6Ext(0, "ah", "whole"), V6Ext(2, "udp", "whole")>> >>,
          <<"route", <<V6Ext(0, "dest", "whole"), V6Ext(0, "hop_by_hop", "whole"), V6Ext(0, "udp", "whole")>> >>,
          <<"dest", <<V6Ext(3, "tcp", "whole")>> >>, <<"hop_by_hop", << >> >>}}
OtherIp ==
  {Packet(BuildEthernet(ip, 0)) : ip \in Ipv4s \cup Ipv6s \cup {NoBytes, Filler(9)}}
  \cup {Cut(Packet(BuildEthernet(Filler(3), tags)), n) : tags \in 0 .. 3, n \in {0, 4, 9}}
  \cup {[size |-> 22 + ip.size, data |-> [tags |-> 3, body |-> ip.data]] :     \* a tag that looks like IP
          ip \in {v \in Ipv4s \cup Ipv6s : v.size = 64}}

-----------------------------------------------------------------------------
(* Diameter packets *)

GySpec == [imsi |-> 3, request_type |-> 2, rating_group |-> 10, used_input |-> 2, used_output |-> 5,
           granted |-> 9, result_code |-> 2001, include_mscc |-> TRUE]
CcrEvent == [imsi |-> 3, has_imsi |-> TRUE, is_request |-> TRUE, request_type |-> 2, result_code |-> 0,
             rating_group |-> 10, input |-> 2, output |-> 5, total |-> 7, granted |-> 0,
             has_used |-> TRUE, has_granted |-> FALSE]
CcaEvent == [imsi |-> 0, has_imsi |-> FALSE, is_request |-> FALSE, request_type |-> 2, result_code |-> 2001,
             rating_group |-> 10, input |-> 0, output |-> 0, total |-> 0, granted |-> 9,
             has_used |-> FALSE, has_granted |-> TRUE]
BareEvent == [CcrEvent EXCEPT !.rating_group = 0, !.input = 0, !.output = 0, !.total = 0, !.has_used = FALSE]

Blocks(n) == [i \in 1 .. n |-> CcrMscc([GySpec EXCEPT !.rating_group = 10 + i])]
WithAvps(m, avps) == BuildDiameter(TRUE, TRUE, SubSeq(m.avps, 1, 6) \o avps)
Ccr == BuildCcr(GySpec)
\* Messages and the events each of them should lead to; a bad one has none and
\* ends the packet.  Of a group with a bad AVP in it, what precedes counts.
Good ==
  {[m |-> Ccr, gy |-> << CcrEvent >>], [m |-> BuildCca(GySpec), gy |-> << CcaEvent >>],
   [m |-> BuildCcr([GySpec EXCEPT !.include_mscc = FALSE]), gy |-> << BareEvent >>],
   [m |-> BuildDiameter(FALSE, TRUE, << PutAvpStr("origin_host", 15, 0) >>), gy |-> << >>],
   [m |-> WithAvps(Ccr, << PutAvpGrouped("mscc", << PutAvp("rating_group", 4, 8, TRUE) >>) >>),
    gy |-> << [BareEvent EXCEPT !.rating_group = 8] >>],
   [m |-> WithAvps(Ccr, << >>), gy |-> << BareEvent >>],
   [m |-> WithAvps(Ccr, << PutAvpGrouped("subscription_id",
            << PutAvpU32("subscription_id_type", 1), PutAvpStr("subscription_id_data", 3, 0) >>) >>),
    gy |-> << [BareEvent EXCEPT !.has_imsi = FALSE] >>],
   [m |-> WithAvps(Ccr, << PutAvpGrouped("mscc", << PutAvpGrouped("used_service_unit",
            << PutAvpU32("cc_input_octets", 4), PutAvpU64("cc_output_octets", 6) >>) >>) >>),
    gy |-> << [BareEvent EXCEPT !.has_used = TRUE, !.input = 4, !.output = 6, !.total = 10] >>],
   [m |-> WithAvps(Ccr, << PutAvpGrouped("mscc", << PutAvpU32("rating_group", 8),
            [PutAvpGrouped("used_service_unit", << PutAvpU64("cc_input_octets", 4) >>) EXCEPT !.length = 7] >>) >>),
    gy |-> << [BareEvent EXCEPT !.rating_group = 8] >>]}
  \cup {[m |-> WithAvps(Ccr, Blocks(n)),
         gy |-> [i \in 1 .. SmallerLen(n, MaxMscc) |-> [CcrEvent EXCEPT !.rating_group = 10 + i]]] : n \in 1 .. MaxMscc + 1}
Bad == {[Ccr EXCEPT !.version = 2], [Ccr EXCEPT !.length = 16], [Ccr EXCEPT !.length = @ + 2],
        [Ccr EXCEPT !.avps[6].length = 7], [Ccr EXCEPT !.length = MaxMsgLen + 4],
        [Ccr EXCEPT !.avps[6].length = 400], [Ccr EXCEPT !.avps[1].vendor = TRUE, !.avps[1].length = 11]}

DiameterPacket(proto, msgs, slack, gy) ==
  LET payload == View(Total([i \in DOMAIN msgs |-> msgs[i].length]) + slack, msgs)
      ports == Ports(DiameterPort, 99)
  IN Packet(BuildEthernet(IF proto = "tcp" THEN BuildIpv4Tcp(ports, payload)
                          ELSE View(32 + payload.size, Ipv4Header(ports, proto, 32 + payload.size)
                                                       @@ L4Header(ports, 12, payload)), 0))
     @@ [gy |-> gy]
DiameterPackets ==
  {DiameterPacket("tcp", << g.m >>, slack, g.gy) : g \in Good, slack \in {0, 8, 20}}
  \cup {DiameterPacket("sctp", << g.m, h.m >>, 0, g.gy \o h.gy) : g \in Good, h \in Good}
  \cup {DiameterPacket("tcp", << g.m, h.m >>, -4, g.gy) : g \in Good, h \in Good}
  \cup {DiameterPacket("tcp", << g.m, b, g.m >>, 0, g.gy) : g \in Good, b \in Bad}
  \cup {DiameterPacket("sctp", << >>, n, << >>) : n \in {0, 12, 24}}

-----------------------------------------------------------------------------
(* What is replayed and captured *)

Plain == Packet(BuildGtpuFrame([teid |-> 7, msg_type |-> "gpdu", with_seq |-> FALSE, with_npdu |-> FALSE,
                                with_qfi |-> TRUE, qfi |-> 9, pdu_type |-> 1, extra_ext |-> << >>],
                               BuildIpv4Udp(Flow, Filler(12))))
Noise == Packet(BuildEthernet(BuildIpv4Tcp(Flow, Filler(5)), 1))
Gy == DiameterPacket("tcp", << WithAvps(Ccr, Blocks(2)) >>, 0,
                     [i \in 1 .. 2 |-> [CcrEvent EXCEPT !.rating_group = 10 + i]])
RawIp(p) == [size |-> p.size - 14, data |-> p.data.body]
Cooked(p) == [size |-> p.size + 2, data |-> p.data]

Once(f) == [file |-> f, loops |-> 1]
MCSinglePackets == Built \cup Arbitrary \cup Truncated \cup OtherIp \cup DiameterPackets
Capture(recs) == WrittenBy(recs, "ethernet")
MCReplays ==
  {Once(Capture(<< p >>)) : p \in MCSinglePackets}
  \cup {[file |-> Capture(recs), loops |-> n] :
          recs \in {<< Plain, Gy >>, << Plain, Plain >>, << Noise, Plain, Gy >>}, n \in 0 .. 2}
  \cup {[file |-> Capture(<< Plain >>), loops |-> LoopWidth + 1], Once(Capture(<< >>))}
  \cup {Once(WrittenBy(<< RawIp(Plain), RawIp(Gy) >>, "raw_ip")), Once(WrittenBy(<< Cooked(Plain), Filler(16) >>, "linux_sll")),
        Once(WrittenBy(<< Plain >>, "ieee802_11"))}
  \cup {Once([Capture(<< Plain, Noise >>) EXCEPT !.size = @ - n]) : n \in {1, 60, 80, 200}}
  \cup {Once([Capture(<< Plain >>) EXCEPT !.magic = "pcapng"]), Once([Capture(<< Plain >>) EXCEPT !.readable = FALSE])}

MCLivePackets == [ethernet |-> {Plain, Gy}, raw_ip |-> {RawIp(Plain)}]
MCMemory == [ethernet |-> {Noise, Plain}, raw_ip |-> {RawIp(Noise)}]
MCConfigs == {[parse_diameter |-> TRUE, count_wire_bytes |-> TRUE, meter_inner_ip_length |-> TRUE],
              [parse_diameter |-> FALSE, count_wire_bytes |-> FALSE, meter_inner_ip_length |-> FALSE]}
=============================================================================

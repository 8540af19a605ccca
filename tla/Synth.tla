------------------------------- MODULE Synth --------------------------------
(***************************************************************************)
(* The packet builders of include/gtpm/synth.hpp, as the inverse of the    *)
(* parsers: from what a packet is to say, the view of its bytes.  Length   *)
(* fields keep their 16 bits.  MAC addresses, checksums, TTL and sequence  *)
(* numbers are looked at by no parser and left out.                        *)
(***************************************************************************)
EXTENDS GtpuParser, DiameterParser, TLC

GtpuPort == 2152                                   \* kGtpuPort
DiameterPort == 3868                               \* kDiameterPort

U16(n) == n % 65536

\* ipv4_header(), build_ipv4_udp(), build_ipv4_tcp()
Ipv4Header(s, proto, total_len) ==
  [version |-> 4, ihl |-> 20, total_len |-> U16(total_len), frag_off |-> 0, more_frags |-> FALSE,
   proto |-> proto, addrs |-> s.addrs]
L4Header(s, len, payload) ==
  [src_port |-> s.src_port, dst_port |-> s.dst_port, doff |-> len, body |-> payload.data]
BuildIpv4Udp(s, payload) ==
  View(28 + payload.size, Ipv4Header(s, "udp", 28 + payload.size) @@ L4Header(s, 8, payload))
BuildIpv4Tcp(s, payload) ==
  View(40 + payload.size, Ipv4Header(s, "tcp", 40 + payload.size) @@ L4Header(s, 20, payload))
BuildIpv6Udp(s, payload) ==
  View(48 + payload.size,
       [version |-> 6, payload_len |-> U16(8 + payload.size), next |-> "udp", exts |-> << >>,
        addrs |-> s.addrs] @@ L4Header(s, 8, payload))
\* A tag that is not skipped begins with a zero byte (vlan_id is 100).
BuildEthernet(ip, vlan_tags) ==
  View(14 + 4 * vlan_tags + ip.size,
       [tags |-> vlan_tags, body |-> IF vlan_tags > MaxVlanTags THEN NoBytes.data ELSE ip.data])

\* build_gtpu(): extra extension headers, then the PDU session container; each
\* is padded to a multiple of four bytes and names the type of its successor.
GtpuChain(s) ==
  s.extra_ext \o (IF ~s.with_qfi THEN << >>
                  ELSE << [type |-> "pdu_session_container", content |-> 2,
                           qfi |-> s.qfi % 64, pdu_type |-> s.pdu_type % 16] >>)
GtpuExts(chain) ==
  [i \in DOMAIN chain |->
     [units |-> Padded(chain[i].content + 2) \div 4, qfi |-> chain[i].qfi, pdu_type |-> chain[i].pdu_type,
      next |-> IF i < Len(chain) THEN chain[i + 1].type ELSE "none"]]
BuildGtpu(s, payload) ==
  LET chain == GtpuChain(s)
      exts == GtpuExts(chain)
      optional == s.with_seq \/ s.with_npdu \/ chain # << >>
      length == (IF optional THEN 4 ELSE 0) + 4 * Total([i \in DOMAIN exts |-> exts[i].units]) + payload.size
  IN View(8 + length,
          [version |-> 1, pt |-> TRUE, e |-> chain # << >>, s |-> s.with_seq, pn |-> s.with_npdu,
           msg_type |-> s.msg_type, declared |-> U16(length), teid |-> s.teid,
           first_ext |-> IF chain = << >> THEN "none" ELSE chain[1].type,
           exts |-> exts, body |-> payload.data])
BuildGtpuFrame(s, inner) ==
  BuildEthernet(BuildIpv4Udp([src_port |-> GtpuPort, dst_port |-> GtpuPort, addrs |-> "outer"],
                             BuildGtpu(s, inner)), 0)

-----------------------------------------------------------------------------
(* Diameter *)

PutAvp(code, len, value, vendor) ==
  [code |-> code, length |-> (IF vendor THEN 12 ELSE 8) + len, vendor |-> vendor, value |-> value]
PutAvpU32(code, value) == PutAvp(code, 4, value, FALSE)
PutAvpU64(code, value) == PutAvp(code, 8, value, FALSE)
PutAvpStr(code, len, text) == PutAvp(code, len, text, FALSE)
AvpsSize(avps) == Total([i \in DOMAIN avps |-> Padded(avps[i].length)])
PutAvpGrouped(code, avps) == PutAvp(code, AvpsSize(avps), avps, FALSE)

BuildDiameter(credit_control, request, avps) ==
  [version |-> 1, length |-> 20 + AvpsSize(avps), request |-> request,
   credit_control |-> credit_control, avps |-> avps]

\* build_ccr() and build_cca(); the texts have the lengths of the defaults of
\* GySpec, the last text is the IMSI.
CcrMscc(s) ==
  PutAvpGrouped("mscc",
    << PutAvpU32("rating_group", s.rating_group),
       PutAvpGrouped("used_service_unit",
         << PutAvpU64("cc_input_octets", s.used_input), PutAvpU64("cc_output_octets", s.used_output),
            PutAvpU64("cc_total_octets", s.used_input + s.used_output) >>) >>)
CcaMscc(s) ==
  PutAvpGrouped("mscc",
    << PutAvpU32("rating_group", s.rating_group),
       PutAvpGrouped("granted_service_unit", << PutAvpU64("cc_total_octets", s.granted) >>),
       PutAvpU32("result_code", s.result_code) >>)
BuildCcr(s) ==
  BuildDiameter(TRUE, TRUE,
    << PutAvpStr("session_id", 21, 0), PutAvpStr("origin_host", 15, 0), PutAvpStr("origin_realm", 11, 0),
       PutAvpU32("cc_request_type", s.request_type), PutAvpU32("cc_request_number", 1),
       PutAvpGrouped("subscription_id",
         << PutAvpU32("subscription_id_type", 1), PutAvpStr("subscription_id_data", 15, s.imsi) >>) >>
    \o IF s.include_mscc THEN << CcrMscc(s) >> ELSE << >>)
BuildCca(s) ==
  BuildDiameter(TRUE, FALSE,
    << PutAvpStr("session_id", 21, 0), PutAvpU32("result_code", s.result_code),
       PutAvpStr("origin_host", 15, 0), PutAvpStr("origin_realm", 11, 0),
       PutAvpU32("cc_request_type", s.request_type), PutAvpU32("cc_request_number", 1) >>
    \o IF s.include_mscc THEN << CcaMscc(s) >> ELSE << >>)
=============================================================================

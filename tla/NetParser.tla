----------------------------- MODULE NetParser ------------------------------
(***************************************************************************)
(* Ethernet, IPv4, IPv6 and transport headers (include/gtpm/net.hpp).      *)
(*                                                                         *)
(* A view of bytes is [size, data]: how many bytes are present and, as a   *)
(* record, the fields that are found there.  Cutting a view changes only   *)
(* its size, so a field may be declared that is not present; the parsers   *)
(* have to look at the size first.  A packet inside another one is the     *)
(* field "body" of its data.                                               *)
(***************************************************************************)
EXTENDS Integers, Sequences

CONSTANTS MaxVlanTags, MaxIpv6ExtHeaders      \* kMaxVlanTags, kMaxIpv6ExtHeaders

ASSUME NetAssumption == MaxVlanTags \in Nat /\ MaxIpv6ExtHeaders \in Nat

View(size, data) == [size |-> size, data |-> data]
NoBytes == View(0, [version |-> 0])
SmallerLen(a, b) == IF a < b THEN a ELSE b

\* parse_ethernet(): at most MaxVlanTags tags are skipped, and all of them have
\* to be there.  "body" is what lies where the parser stops: of a frame with more
\* tags the rest of the next one, whose first bits may look like an IP version.
ParseEthernet(frame) ==
  LET tags == frame.data.tags
      off == 14 + 4 * SmallerLen(tags, MaxVlanTags)
  IN IF frame.size < 14 \/ frame.size < off THEN [valid |-> FALSE, payload |-> NoBytes]
     ELSE [valid |-> TRUE, payload |-> View(frame.size - off, frame.data.body)]

-----------------------------------------------------------------------------
(* Transport headers *)

L4MinLen == [udp |-> 8, tcp |-> 20, sctp |-> 12]
NoL4 == [src_port |-> 0, dst_port |-> 0, l4_header_len |-> 0, payload |-> NoBytes]

\* Mutant: the data offset is not compared with what is present.
L4HeaderMinOnly(hdr, proto, l4) == hdr >= L4MinLen[proto]
L4HeaderFits(hdr, proto, l4) == hdr \in L4MinLen[proto] .. l4.size

\* parse_l4().  A TCP header may be longer than its minimum; a bad data
\* offset leaves the ports but no payload.
ParseL4(l4, proto) ==
  IF proto \notin DOMAIN L4MinLen \/ l4.size < L4MinLen[proto] THEN NoL4
  ELSE LET hdr == IF proto = "tcp" THEN l4.data.doff ELSE L4MinLen[proto]
           fits == L4HeaderFits(hdr, proto, l4)
       IN [src_port |-> l4.data.src_port, dst_port |-> l4.data.dst_port,
           l4_header_len |-> IF fits THEN hdr ELSE 0,
           payload |-> IF fits THEN View(l4.size - hdr, l4.data.body) ELSE NoBytes]

-----------------------------------------------------------------------------
(* IP *)

IpPacket(version, total, l3, proto, fragmented, l4) ==
  [valid |-> TRUE, ip_version |-> version, ip_total_len |-> total, l3_header_len |-> l3,
   proto |-> proto, fragmented |-> fragmented, src_port |-> l4.src_port, dst_port |-> l4.dst_port,
   l4_header_len |-> l4.l4_header_len, payload |-> l4.payload]
NotAPacket == [IpPacket(0, 0, 0, "none", FALSE, NoL4) EXCEPT !.valid = FALSE]

\* parse_ipv4(): what follows the header is clamped to what is present, and
\* only the first fragment has a transport header.
ParseIpv4(pkt) ==
  LET h == pkt.data IN
  IF pkt.size < 20 \/ h.ihl < 20 \/ h.ihl > pkt.size \/ h.total_len < h.ihl THEN NotAPacket
  ELSE IpPacket(4, h.total_len, h.ihl, h.proto, h.more_frags \/ h.frag_off # 0,
                IF h.frag_off # 0 THEN NoL4
                ELSE ParseL4(View(SmallerLen(h.total_len, pkt.size) - h.ihl, h), h.proto))

\* IPv6 extension headers.  Bytes after the described ones are zero, and
\* next-header 0 is a hop-by-hop header.
Ipv6Exts == {"hop_by_hop", "route", "dest", "ah", "frag"}
ZeroExt == [len |-> 0, next |-> "hop_by_hop", frag |-> "whole"]
Ipv6ExtLen(kind, ext) ==
  CASE kind = "frag" -> 8
    [] kind = "ah" -> (ext.len + 2) * 4
    [] OTHER -> (ext.len + 1) * 8

\* One round of the loop of parse_ipv6(); "how" says why it stopped.
Ipv6Step(end, w, ext) ==
  LET len == Ipv6ExtLen(w.next, ext) IN
  IF w.how # "walking" \/ w.next \notin Ipv6Exts THEN w
  ELSE IF w.off + 8 > end \/ w.off + len > end THEN [w EXCEPT !.how = "cut"]
  ELSE [next |-> ext.next, off |-> w.off + len,
        fragmented |-> IF w.next = "frag" THEN ext.frag # "whole" ELSE w.fragmented,
        how |-> IF w.next = "frag" /\ ext.frag = "later" THEN "fragment" ELSE "walking"]

Ipv6Parsed(pkt, end, w) ==
  IF pkt.size < 40 THEN NotAPacket
  ELSE IpPacket(6, 40 + pkt.data.payload_len, IF w.how = "cut" THEN 40 ELSE w.off, w.next, w.fragmented,
                IF w.how = "walking" THEN ParseL4(View(end - w.off, pkt.data), w.next) ELSE NoL4)
Ipv6Walk(data, end) ==
  LET walk[i \in 0 .. MaxIpv6ExtHeaders] ==
        IF i = 0 THEN [next |-> data.next, off |-> 40, fragmented |-> FALSE, how |-> "walking"]
        ELSE Ipv6Step(end, walk[i - 1], IF i <= Len(data.exts) THEN data.exts[i] ELSE ZeroExt)
  IN  walk
ParseIpv6(pkt) ==
  LET end == SmallerLen(40 + pkt.data.payload_len, pkt.size)
  IN  Ipv6Parsed(pkt, end, Ipv6Walk(pkt.data, end)[MaxIpv6ExtHeaders])

\* parse_ip(): the version nibble of the first byte decides.
ParseIp(pkt) ==
  IF pkt.size = 0 THEN NotAPacket
  ELSE CASE pkt.data.version = 4 -> ParseIpv4(pkt)
         [] pkt.data.version = 6 -> ParseIpv6(pkt)
         [] OTHER -> NotAPacket

\* flow_key(): a hash of the tuple, here the tuple itself; what a collision does
\* is the subject of FlowTable.
FlowKey(p, data) == <<data.addrs, p.src_port, p.dst_port, p.proto, p.ip_version>>
=============================================================================

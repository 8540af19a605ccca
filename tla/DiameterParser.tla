--------------------------- MODULE DiameterParser ---------------------------
(***************************************************************************)
(* Diameter messages, their AVPs and the Gy fields taken out of them       *)
(* (include/gtpm/diameter.hpp).                                            *)
(*                                                                         *)
(* The data of a view of AVPs is the sequence of AVPs at the offsets that  *)
(* the declared lengths give, followed by zero bytes.  An AVP is           *)
(* [code, length, vendor, value]; the value of a grouped one is again such *)
(* a sequence.  kAvpMaxDepth is not modelled: the walks nest three deep.   *)
(***************************************************************************)
EXTENDS NetParser, Sums

CONSTANTS MaxMscc,                     \* kMaxMsccPerMessage
          MaxMsgLen                    \* kDiameterMaxMsgLen

ASSUME DiameterAssumption == MaxMscc \in Nat /\ MaxMsgLen \in Nat

ZeroAvp == [code |-> "none", length |-> 0, vendor |-> FALSE, value |-> << >>]
AvpHeaderLen(a) == IF a.vendor THEN 12 ELSE 8
Padded(n) == ((n + 3) \div 4) * 4

\* One round of for_each_avp() over an area of that size.  A walk collects the
\* AVPs its callback is given (no caller stops it early): each is given before
\* its padding is looked at.
AvpStep(size, w, a) ==
  LET left == size - w.off
      rejected == left < 8 \/ a.length < AvpHeaderLen(a) \/ a.length > left
  IN IF w.status # "ok" \/ left = 0 THEN w
     ELSE IF rejected THEN [w EXCEPT !.status = "bad_avp"]
     ELSE [status |-> IF Padded(a.length) > left THEN "bad_avp" ELSE "ok",
           off |-> w.off + Padded(a.length), avps |-> Append(w.avps, a)]

ForEachAvp(area) ==
  FoldAlong(LAMBDA w, a : AvpStep(area.size, w, a), [status |-> "ok", off |-> 0, avps |-> << >>],
           Append(area.data, ZeroAvp))

DataLen(a) == a.length - AvpHeaderLen(a)
\* for_each_sub_avp(), by callers that ignore its status.
ForEachSubAvp(a) == ForEachAvp(View(DataLen(a), a.value)).avps

AsU32(a, old) == IF DataLen(a) = 4 THEN a.value ELSE old
AsU64(a, old) == IF DataLen(a) \in {4, 8} THEN a.value ELSE old

-----------------------------------------------------------------------------
(* Gy *)

NoMscc == [rating_group |-> 0, input |-> 0, output |-> 0, total |-> 0, granted |-> 0,
           has_used |-> FALSE, has_granted |-> FALSE]

\* parse_used_service_unit(): the total, if none was given, is the sum.
TotalOfUsed(info) == IF info.total = 0 THEN info.input + info.output ELSE info.total
ParseUsedServiceUnit(usu, info) ==
  LET Unit(i, a) ==
        CASE a.code = "cc_input_octets" -> [i EXCEPT !.input = AsU64(a, @)]
          [] a.code = "cc_output_octets" -> [i EXCEPT !.output = AsU64(a, @)]
          [] a.code = "cc_total_octets" -> [i EXCEPT !.total = AsU64(a, @)]
          [] OTHER -> i
      used == FoldAlong(Unit, [info EXCEPT !.has_used = TRUE], ForEachSubAvp(usu))
  IN [used EXCEPT !.total = TotalOfUsed(used)]

ParseMscc(mscc) ==
  LET Granted(i, a) == IF a.code = "cc_total_octets" THEN [i EXCEPT !.granted = AsU64(a, @)] ELSE i
      Service(i, a) ==
        CASE a.code = "rating_group" -> [i EXCEPT !.rating_group = AsU32(a, @)]
          [] a.code = "used_service_unit" -> ParseUsedServiceUnit(a, i)
          [] a.code = "granted_service_unit" ->
               FoldAlong(Granted, [i EXCEPT !.has_granted = TRUE], ForEachSubAvp(a))
          [] OTHER -> i
  IN FoldAlong(Service, NoMscc, ForEachSubAvp(mscc))

\* parse_subscription_id().  pack_imsi() takes 1 to 19 digits; the value 0 is a
\* text with something else in it.
ParseSubscriptionId(sub, gy) ==
  LET Field(s, a) ==
        CASE a.code = "subscription_id_type" -> [s EXCEPT !.type = AsU32(a, @)]
          [] a.code = "subscription_id_data" -> [s EXCEPT !.text = a.value, !.len = DataLen(a)]
          [] OTHER -> s
      s == FoldAlong(Field, [type |-> 99, text |-> 0, len |-> 0], ForEachSubAvp(sub))
      packs == s.len \in 1 .. 19 /\ s.text # 0
  IN IF s.type # 1 THEN gy                                  \* SubscriptionIdType::kImsi
     ELSE [gy EXCEPT !.has_imsi = packs, !.imsi = IF packs THEN s.text ELSE @]

NoGy == [is_request |-> FALSE, imsi |-> 0, has_imsi |-> FALSE, request_type |-> 0,
         result_code |-> 0, mscc |-> << >>, mscc_overflow |-> FALSE]

\* Mutant: the array of credit-control blocks is taken to have one more slot.
MsccRoomOffByOne(gy) == Len(gy.mscc) <= MaxMscc
MsccRoom(gy) == Len(gy.mscc) < MaxMscc

ParseGy(hdr) ==
  LET Field(gy, a) ==
        CASE a.code = "cc_request_type" -> [gy EXCEPT !.request_type = AsU32(a, @)]
          [] a.code = "result_code" -> [gy EXCEPT !.result_code = AsU32(a, @)]
          [] a.code = "subscription_id" -> ParseSubscriptionId(a, gy)
          [] a.code = "mscc" -> IF MsccRoom(gy) THEN [gy EXCEPT !.mscc = Append(@, ParseMscc(a))]
                                ELSE [gy EXCEPT !.mscc_overflow = TRUE]
          [] OTHER -> gy
      walk == ForEachAvp(hdr.avps)
  IN [status |-> walk.status, gy |-> FoldAlong(Field, [NoGy EXCEPT !.is_request = hdr.request], walk.avps)]

-----------------------------------------------------------------------------
DiameterHeader(status, m) ==
  [status |-> status, msg_length |-> m.length, request |-> m.request,
   credit_control |-> m.credit_control, avps |-> View(m.length - 20, m.avps)]

\* parse_diameter_header().
ParseDiameterHeader(size, m) ==
  LET bad_length == m.length < 20 \/ m.length > MaxMsgLen \/ m.length % 4 # 0 IN
  DiameterHeader(IF size < 20 THEN "truncated"
                 ELSE IF m.version # 1 THEN "bad_version"
                 ELSE IF bad_length THEN "bad_length"
                 ELSE IF size < m.length THEN "truncated" ELSE "ok", m)

\* parse_diameter_gy(): other commands than credit control are not looked into.
GyParsed(hdr, walk) ==
  IF hdr.status # "ok" THEN [status |-> hdr.status, gy |-> NoGy]
  ELSE IF ~hdr.credit_control THEN [status |-> "ok", gy |-> NoGy]
  ELSE walk
ParseDiameterGy(size, m) ==
  LET hdr == ParseDiameterHeader(size, m) IN GyParsed(hdr, ParseGy(hdr))
=============================================================================

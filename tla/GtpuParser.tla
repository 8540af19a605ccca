----------------------------- MODULE GtpuParser -----------------------------
(***************************************************************************)
(* The GTP-U header and its extension headers (include/gtpm/gtpu.hpp).     *)
(*                                                                         *)
(* The data of a GTP-U view has the fields of the fixed header, the first  *)
(* extension type, and the extension headers in the order in which they    *)
(* lie in memory; the bytes behind the last one are zero.  seq, npdu and   *)
(* rqi are read by nobody and left out.                                    *)
(***************************************************************************)
EXTENDS NetParser

CONSTANT MaxGtpuExts                       \* kGtpuMaxExtHeaders

ASSUME GtpuAssumption == MaxGtpuExts \in Nat

ZeroGtpuExt == [units |-> 0, next |-> "none", qfi |-> 0, pdu_type |-> 0]
NoQfi == [has |-> FALSE, qfi |-> 0, pdu_type |-> 0]

\* One round of the loop of parse_ext_chain() over an area of that size.  A
\* header has at least four bytes, two of them content, so a PDU session
\* container always has its QFI; the last container wins.
ExtStep(size, w, ext) ==
  IF w.status # "ok" \/ w.next = "none" THEN w
  ELSE IF w.links = MaxGtpuExts THEN [w EXCEPT !.status = "ext_chain_too_long"]
  ELSE IF w.consumed >= size THEN [w EXCEPT !.status = "truncated"]
  ELSE IF ext.units = 0 THEN [w EXCEPT !.status = "bad_ext_header"]
  ELSE IF w.consumed + 4 * ext.units > size THEN [w EXCEPT !.status = "truncated"]
  ELSE [status |-> "ok", next |-> ext.next, links |-> w.links + 1,
        consumed |-> w.consumed + 4 * ext.units,
        qfi |-> IF w.next = "pdu_session_container"
                  THEN [has |-> TRUE, qfi |-> ext.qfi, pdu_type |-> ext.pdu_type] ELSE w.qfi]

\* The loop, round by round.
ExtAt(exts, i) == IF i <= Len(exts) THEN exts[i] ELSE ZeroGtpuExt
ExtWalk(area, first_type) ==
  LET walk[i \in 0 .. MaxGtpuExts + 1] ==
        IF i = 0 THEN [status |-> "ok", next |-> first_type, links |-> 0, consumed |-> 0, qfi |-> NoQfi]
        ELSE ExtStep(area.size, walk[i - 1], ExtAt(area.data, i))
  IN  walk
ParseExtChain(area, first_type) == ExtWalk(area, first_type)[MaxGtpuExts + 1]

\* What the optional fields and the chain take of the length field.
\* Mutant: the optional fields are forgotten.
UsedByChain(h, chain) == IF h.e \/ h.s \/ h.pn THEN chain.consumed ELSE 0
UsedByHeaders(h, chain) == IF h.e \/ h.s \/ h.pn THEN 4 + chain.consumed ELSE 0

GtpuResult(status, h, qfi, payload) ==
  [status |-> status, teid |-> h.teid, msg_type |-> h.msg_type, qfi |-> qfi, payload |-> payload]
GtpuError(status) ==
  [status |-> status, teid |-> 0, msg_type |-> "none", qfi |-> NoQfi, payload |-> NoBytes]

\* parse_gtpu().  The length field counts everything after the fixed header,
\* the optional fields and the chain included; the walk is bounded by it.
GtpuParsed(frame, h, chain) ==
  LET optional == h.e \/ h.s \/ h.pn
      used == UsedByHeaders(h, chain)
  IN IF frame.size < 8 THEN GtpuError("truncated")
     ELSE IF h.version # 1 THEN GtpuError("bad_version")
     ELSE IF ~h.pt THEN GtpuError("not_gtpu")
     ELSE IF frame.size - 8 < h.declared THEN GtpuError("truncated")
     ELSE IF optional /\ h.declared < 4 THEN GtpuError("bad_length")
     ELSE IF optional /\ chain.status # "ok" THEN GtpuError(chain.status)
     ELSE IF h.declared < used THEN GtpuError("bad_length")
     ELSE GtpuResult("ok", h, chain.qfi, View(h.declared - used, h.body))
ParseGtpu(frame) ==
  LET h == frame.data IN
  GtpuParsed(frame, h, ParseExtChain(View(h.declared - 4, h.exts), IF h.e THEN h.first_ext ELSE "none"))
=============================================================================

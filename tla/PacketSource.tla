---------------------------- MODULE PacketSource ----------------------------
(***************************************************************************)
(* Where packets come from: a capture file replayed from memory            *)
(* (include/gtpm/pcap.hpp, src/ingest_pcap.cpp) or a live interface on     *)
(* Linux or BSD (src/ingest_rawsock.cpp).  next_batch() is a loop; each of *)
(* its rounds is an action.                                                *)
(*                                                                         *)
(* An entry of a batch is a view into the memory of the source: the packet *)
(* read for it, and the generation of the memory it points into.  Once the *)
(* memory has been moved or read into again, the view may show anything.   *)
(***************************************************************************)
EXTENDS NetParser, Sums, Functions

CONSTANTS
  SourceKinds,       \* a subset of {"replay", "linux", "bpf"}
  Replays,           \* what is replayed: [file, loops], a file being
                     \* [readable, size, magic, link, records]
  LivePackets,       \* per link type, the packets that may arrive on an interface
  LoopWidth,         \* 2^32: main() casts --loops to 32 bits
  BatchSize,         \* batch_size
  MaxPackets         \* bound: packets taken from an endless source

ASSUME SourceAssumption ==
  /\ SourceKinds \subseteq {"replay", "linux", "bpf"}
  /\ LoopWidth \in Nat \ {0} /\ BatchSize \in Nat \ {0} /\ MaxPackets \in Nat

VARIABLES
  kind, file, asked,         \* which source; for a replay its capture and --loops
  link,                      \* link_type()
  packets,                   \* packets_ of the PcapFile
  cursor, loop, exhausted,   \* cursor_, loop_, exhausted_
  generation, slots, room,   \* buffer_: how often it changed, its size, its capacity
  unread,                    \* the records of the last BPF read that were not handed out
  batch,                     \* the batch: entries [packet, generation]
  taken                      \* packets_replayed(), and its like for live capture

replayVars == <<packets, cursor, loop, exhausted>>
liveVars == <<generation, slots, room, unread>>
sourceVars == <<kind, file, asked, link, replayVars, liveVars, batch, taken>>

-----------------------------------------------------------------------------
(* Capture files *)

\* The loop of PcapFile::load(): a record that the file does not hold to its
\* end is the last one and is dropped.
IndexStep(size, w, rec) ==
  IF w.done \/ w.off + 16 > size THEN w
  ELSE IF rec.size > size - (w.off + 16) THEN [w EXCEPT !.done = TRUE, !.malformed = @ + 1]
  ELSE [w EXCEPT !.off = @ + 16 + rec.size, !.packets = Append(@, rec)]
IndexWalk(f) ==
  LET walk[i \in 0 .. Len(f.records)] ==
        IF i = 0 THEN [off |-> 24, packets |-> << >>, malformed |-> 0, done |-> FALSE]
        ELSE IndexStep(f.size, walk[i - 1], f.records[i])
  IN  walk
Index(f) == IndexWalk(f)[Len(f.records)]

\* --loops is a number, and the file a sequence of records that have a size.
ASSUME ReplaysAssumption ==
  \A r \in Replays :
    /\ r.loops \in Nat /\ r.file.size \in Nat
    /\ r.file.records \in Seq(Range(r.file.records))
    /\ \A i \in DOMAIN r.file.records : r.file.records[i].size \in Nat

Loadable(f) == f.readable /\ f.size >= 24 /\ f.magic \in {"micro", "micro_swapped", "nano", "nano_swapped"}

\* PcapWriter: open() writes the file header, write() a record.
WrittenBy(recs, link_type) ==
  [readable |-> TRUE, magic |-> "micro", link |-> link_type, records |-> recs,
   size |-> 24 + Total([i \in DOMAIN recs |-> 16 + recs[i].size])]

\* strip_link_layer(): a view of an Ethernet frame or of an IP packet.
StripLinkLayer(link_type, v) ==
  CASE link_type = "ethernet" -> [valid |-> TRUE, is_ethernet |-> TRUE, payload |-> v]
    [] link_type = "raw_ip" -> [valid |-> TRUE, is_ethernet |-> FALSE, payload |-> v]
    [] link_type = "linux_sll" /\ v.size > 16 ->
         [valid |-> TRUE, is_ethernet |-> FALSE, payload |-> View(v.size - 16, v.data.body)]
    [] OTHER -> [valid |-> FALSE, is_ethernet |-> FALSE, payload |-> NoBytes]

NoReplay == [file |-> [readable |-> FALSE], loops |-> 0]

SourceInit ==
  /\ kind \in SourceKinds
  /\ \E r \in IF kind = "replay" THEN Replays ELSE {NoReplay} : file = r.file /\ asked = r.loops
  /\ link = "none" /\ packets = << >> /\ cursor = 0 /\ loop = 0 /\ exhausted = FALSE
  /\ generation = 0 /\ slots = 0 /\ room = 0 /\ unread = << >>
  /\ batch = << >> /\ taken = 0

\* PcapReplaySource::open(): a capture without packets is an error.
ReplayOpens == Loadable(file) /\ Index(file).packets # << >>
OpenReplay ==
  /\ kind = "replay" /\ ReplayOpens
  /\ packets' = Index(file).packets
  /\ link' = file.link
  /\ UNCHANGED <<kind, file, asked, cursor, loop, exhausted, liveVars, batch, taken>>

\* LiveCaptureSource::open() succeeds, with a buffer for one packet on Linux.
OpenLive ==
  /\ kind # "replay"
  /\ link' \in IF kind = "linux" THEN {"ethernet"} ELSE {"ethernet", "raw_ip"}
  /\ slots' = 1 /\ room' = 1
  /\ UNCHANGED <<kind, file, asked, replayVars, generation, unread, batch, taken>>

-----------------------------------------------------------------------------
(* next_batch() *)

OptLoops == asked % LoopWidth
Filling == Len(batch) < BatchSize
Entry(p, gen) == [packet |-> p, generation |-> gen]

\* Mutant: the loop that just ended is not counted.
LastLoopOffByOne == OptLoops # 0 /\ loop >= OptLoops
LastLoop == OptLoops # 0 /\ loop + 1 >= OptLoops

\* Bound: an endless replay is cut.
Bounded == OptLoops = 0 /\ taken >= MaxPackets

\* A round of the replay: at the end of the capture start over, or stop.
ReplayPacket ==
  LET at_end == cursor >= Len(packets)
      from == IF at_end THEN 0 ELSE cursor
  IN /\ kind = "replay" /\ Filling /\ ~exhausted
     /\ ~Bounded
     /\ ~(at_end /\ LastLoop)
     /\ loop' = IF at_end THEN loop + 1 ELSE loop
     /\ cursor' = from + 1
     /\ batch' = Append(batch, Entry(packets[from + 1], generation))
     /\ taken' = taken + 1
     /\ UNCHANGED <<kind, file, asked, link, packets, exhausted, liveVars>>

ReplayExhausted ==
  /\ kind = "replay" /\ Filling /\ ~exhausted
  /\ cursor >= Len(packets) /\ LastLoop
  /\ loop' = loop + 1
  /\ exhausted' = TRUE
  /\ UNCHANGED <<kind, file, asked, link, packets, cursor, liveVars, batch, taken>>

\* Linux: poll() says that a packet is there, and the buffer is made to hold its
\* slot; beyond its capacity it is moved and its capacity doubled.
NextSlot == Len(batch) + 1
GrowBuffer ==
  LET moved == NextSlot > room IN
  /\ slots' = IF NextSlot > slots THEN NextSlot ELSE slots
  /\ room' = IF moved THEN 2 * room ELSE room
  /\ generation' = IF moved THEN generation + 1 ELSE generation

LinuxPacket ==
  /\ kind = "linux" /\ Filling /\ taken < MaxPackets
  /\ GrowBuffer
  /\ \E p \in LivePackets[link] : batch' = Append(batch, Entry(p, generation'))
  /\ taken' = taken + 1
  /\ UNCHANGED <<kind, file, asked, link, replayVars, unread>>

\* recv() has nothing after all, and next_batch() returns with a larger buffer.
LinuxNothing ==
  /\ kind = "linux" /\ Filling /\ NextSlot > slots
  /\ GrowBuffer
  /\ UNCHANGED <<kind, file, asked, link, replayVars, unread, batch, taken>>

\* A BPF read returns the records that have arrived, over the ones before.  A
\* record that is cut is skipped and counted nowhere.
BpfRead ==
  /\ kind = "bpf" /\ Filling /\ unread = << >>
  /\ taken < MaxPackets
  /\ \E n \in 1 .. BatchSize : unread' \in [1 .. n -> LivePackets[link]]
  /\ generation' = generation + 1
  /\ UNCHANGED <<kind, file, asked, link, replayVars, slots, room, batch, taken>>

BpfPacket ==
  /\ kind = "bpf" /\ Filling /\ unread # << >>
  /\ batch' = Append(batch, Entry(Head(unread), generation))
  /\ unread' = Tail(unread)
  /\ taken' = taken + 1
  /\ UNCHANGED <<kind, file, asked, link, replayVars, generation, slots, room>>

Fill == ReplayPacket \/ ReplayExhausted \/ LinuxPacket \/ BpfRead \/ BpfPacket

\* next_batch() returns: the batch is full, the replay is over, or no packet
\* was waiting.
\* Mutant: the end of the replay does not end the batch.
BatchReadyIfFull == ~Filling \/ (kind # "replay" /\ unread = << >>) \/ (kind = "replay" /\ Bounded)
BatchReady ==
  ~Filling \/ exhausted \/ (kind # "replay" /\ unread = << >>) \/ (kind = "replay" /\ Bounded)
=============================================================================

--------------------------- MODULE IndicatorStream ---------------------------
(***************************************************************************)
(* The bytes of the indicator: the line, read in chunks of any size with   *)
(* noise in them, the PacketAssembler and the StabilityTracker of a driver *)
(* and the state it publishes.  Two protocols: VESAR (XK3190 is the same   *)
(* with another Discrete), whose packets are framed and carry a checksum,  *)
(* and CAS 22 byte, whose packets end with CR LF and carry a flag.         *)
(*                                                                         *)
(* A weight is one byte here and its own checksum; the drivers' threads    *)
(* that hang in a read are in ScaleSettings.                               *)
(***************************************************************************)
EXTENDS Integers, Sequences, FiniteSetsExt, SequencesExt

CONSTANTS
  Raw,         \* weights on the line, in its own unit
  Discrete,    \* discrete_kg in that unit
  Window,      \* STABILITY_WINDOW_S
  Slack,       \* a fifth of it
  SilenceTime, \* rx_error_timeout_s
  CasLimit,    \* 4 * PACKET_LEN
  MaxPackets,  \* bound: packets the indicator sends
  MaxNoise,    \* bound: bytes of noise among them
  MaxOpens     \* bound: times the port is opened

(* Control bytes and flags, apart from every weight. *)
STX == 1002
ETX == 1003
LF  == 1010
CR  == 1013
ST  == 2001
US  == 2002
OL  == 2003

PacketLen == 4
Amplitude == 3 * Discrete
ASSUME RawAssumption == Raw \subseteq -999 .. 999 /\ Discrete \in Nat \ {0}
ASSUME WindowAssumption == /\ Slack < Window /\ Window < SilenceTime
                           /\ {Slack, Window, SilenceTime} \subseteq Nat
ASSUME LimitAssumption == CasLimit \in Nat /\ CasLimit > PacketLen
ASSUME BoundAssumption == {MaxPackets, MaxNoise, MaxOpens} \subseteq Nat

VARIABLES
  proto,    \* which protocol the driver speaks
  line,     \* bytes the port has not given yet
  reading,  \* the port is open, _read_loop runs
  buffer,   \* PacketAssembler._buffer
  samples,  \* StabilityTracker._samples, with their age
  quiet,    \* time since the last packet, or since the port was opened
  display,  \* driver.state
  got,      \* all bytes read since the port was opened (history)
  readings, \* all packets read since then, with their age (history)
  packets, noise, opens

streamVars ==
  <<proto, line, reading, buffer, samples, quiet, display, got, readings, packets, noise, opens>>

Byte == Raw \cup {STX, ETX, LF, CR, ST, US, OL}
Reading == [weight : Raw \cup {0}, stable : BOOLEAN, over : BOOLEAN]
NothingShown  == [status |-> "no_data", weight |-> 0, stable |-> FALSE, over |-> FALSE]
Failed  == [NothingShown EXCEPT !.status = "port_error"]
Capped(n, bound) == IF n < bound THEN n ELSE bound
Older(seq, bound) == [i \in DOMAIN seq |-> [seq[i] EXCEPT !.age = Capped(@ + 1, bound)]]

StreamTypeOK ==
  /\ proto \in {"vesar", "cas22"} /\ reading \in BOOLEAN
  /\ line \in Seq(Byte) /\ got \in Seq(Byte) /\ buffer \in Seq(Byte)
  /\ \A k \in DOMAIN readings : readings[k].packet \in Reading
  /\ Len(buffer) <= IF proto = "vesar" THEN PacketLen - 1 ELSE CasLimit
  /\ quiet \in 0 .. SilenceTime + 1
  /\ display.status \in {"ok", "no_data", "port_error"}
  /\ packets \in 0 .. MaxPackets /\ noise \in 0 .. MaxNoise /\ opens \in 0 .. MaxOpens

StreamInit ==
  /\ proto \in {"vesar", "cas22"}
  /\ line = <<>> /\ reading = FALSE /\ buffer = <<>> /\ samples = <<>> /\ quiet = 0
  /\ display = NothingShown /\ got = <<>> /\ readings = <<>>
  /\ packets = 0 /\ noise = 0 /\ opens = 0

(***************************************************************************)
(* parse_packet: the whole of a packet, or nothing.                        *)
(***************************************************************************)
VesarPacket(p) ==
  /\ Len(p) = PacketLen
  /\ p[1] = STX /\ p[2] \in Raw /\ p[3] = p[2] /\ p[4] = ETX
VesarReading(p) == [weight |-> p[2], stable |-> FALSE, over |-> FALSE]

CasPacket(p) ==
  /\ Len(p) = PacketLen
  /\ p[1] \in {ST, US, OL} /\ (p[1] = OL \/ p[2] \in Raw)
  /\ p[3] = CR /\ p[4] = LF
CasReading(p) ==
  IF p[1] = OL THEN [weight |-> 0, stable |-> FALSE, over |-> TRUE]
  ELSE [weight |-> p[2], stable |-> p[1] = ST, over |-> FALSE]

IsPacket(p) == IF proto = "vesar" THEN VesarPacket(p) ELSE CasPacket(p)
ReadingOf(p) == IF proto = "vesar" THEN VesarReading(p) ELSE CasReading(p)

(***************************************************************************)
(* PacketAssembler.feed: what is left in the buffer and the packets.       *)
(***************************************************************************)
From(seq, i) == SubSeq(seq, i, Len(seq))
PacketAt(bytes, i) == SubSeq(bytes, i, i + PacketLen - 1)

Fed(rest, read) == [rest |-> rest, read |-> read]
WithFirst(reading1, fed) == Fed(fed.rest, <<reading1>> \o fed.read)

(* A turn of the loop when its buffer is the bytes from i on; more: what   *)
(* it makes of the bytes from a later place on.                            *)
(* VESAR: noise before STX is dropped; a false STX costs one byte.         *)
VesarTurn(bytes, i, more) ==
  LET starts == {k \in i .. Len(bytes) : bytes[k] = STX}
      at     == Min(starts)
  IN  IF starts = {} THEN Fed(<<>>, <<>>)
      ELSE IF Len(bytes) - at + 1 < PacketLen THEN Fed(From(bytes, at), <<>>)
      ELSE IF VesarPacket(PacketAt(bytes, at))
           THEN WithFirst(VesarReading(PacketAt(bytes, at)), more[at + PacketLen])
           ELSE more[at + 1]

CasRest(bytes) == IF Len(bytes) > CasLimit THEN From(bytes, Len(bytes) - PacketLen + 1) ELSE bytes

(* CAS 22: the bytes up to every CR LF; without one the buffer is cut.     *)
CasTurn(bytes, i, more) ==
  LET ends == {k \in i + 1 .. Len(bytes) : bytes[k - 1] = CR /\ bytes[k] = LF}
      end  == Min(ends)
      candidate == PacketAt(bytes, end - PacketLen + 1)
  IN  IF ends = {} THEN Fed(CasRest(From(bytes, i)), <<>>)
      ELSE IF end - PacketLen + 1 >= i /\ CasPacket(candidate)
           THEN WithFirst(CasReading(candidate), more[end + 1])
           ELSE more[end + 1]

Turn(bytes, i, more) ==
  IF proto = "vesar" THEN VesarTurn(bytes, i, more) ELSE CasTurn(bytes, i, more)
Assembled(bytes) == LET loop[i \in 1 .. Len(bytes) + 1] == Turn(bytes, i, loop) IN loop[1]

(* Mutant: what is left of a chunk is thrown away. *)
FeedForgets(chunk) == [Assembled(chunk) EXCEPT !.rest = <<>>]
Feed(chunk) == Assembled(buffer \o chunk)

(***************************************************************************)
(* StabilityTracker.update and quantize.                                   *)
(***************************************************************************)
(* Samples leave the deque from the left until one is in the window.       *)
Kept(window) ==
  LET young == {i \in DOMAIN window : window[i].age <= Window}
  IN  IF young = {} THEN <<>> ELSE From(window, Min(young))

Track(window, read) ==
  Kept(window) \o [i \in DOMAIN read |-> [weight |-> read[i].weight, age |-> 0]]

Level(window) ==
  LET weights == {window[i].weight : i \in DOMAIN window}
  IN  /\ window[1].age >= Window - Slack
      /\ Max(weights) - Min(weights) <= Amplitude

Quantize(w) == IF w < 0 THEN -((-w) \div Discrete) * Discrete ELSE (w \div Discrete) * Discrete

(***************************************************************************)
(* The line.                                                               *)
(***************************************************************************)
PacketsOf(w) ==
  IF proto = "vesar" THEN {<<STX, w, w, ETX>>} ELSE {<<ST, w, CR, LF>>, <<OL, OL, CR, LF>>}

SendPacket(w) ==
  /\ reading /\ packets < MaxPackets /\ Len(line) <= PacketLen
  /\ \E p \in PacketsOf(w) : line' = line \o p
  /\ packets' = packets + 1
  /\ UNCHANGED <<proto, reading, buffer, samples, quiet, display, got, readings, noise, opens>>

(* A byte too many, or a packet that lost its first or its last. *)
Noise(w) ==
  /\ reading /\ noise < MaxNoise /\ Len(line) <= PacketLen
  /\ \E p \in PacketsOf(w) : \E b \in {<<p[1]>>, Tail(p), Front(p)} : line' = line \o b
  /\ noise' = noise + 1
  /\ UNCHANGED <<proto, reading, buffer, samples, quiet, display, got, readings, packets, opens>>

(***************************************************************************)
(* The thread of the driver.                                               *)
(***************************************************************************)
Open ==
  /\ ~reading /\ opens < MaxOpens
  /\ reading' = TRUE /\ opens' = opens + 1
  /\ UNCHANGED <<proto, line, buffer, samples, quiet, display, got, readings, packets, noise>>

(* The read loop is over: what it held goes with it. *)
Close ==
  /\ reading' = FALSE
  /\ line' = <<>> /\ buffer' = <<>> /\ samples' = <<>> /\ quiet' = 0
  /\ got' = <<>> /\ readings' = <<>>

Silent(chunk, read) == IF read # <<>> THEN 0 ELSE Capped(quiet + 1, SilenceTime + 1)

(* What is shown of the packets of a chunk: the last of them. *)
Shown(read, window) ==
  LET r == read[Len(read)]
  IN  [status |-> "ok", over |-> r.over,
       weight |-> IF proto = "vesar" THEN Quantize(r.weight) ELSE r.weight,
       stable |-> IF proto = "vesar" THEN Level(window) ELSE r.stable]

(* One turn of _read_loop: the bytes that came in the timeout of a read    *)
(* (64 bytes take longer than that), the unit of time here.                *)
ReadChunk(n) ==
  LET chunk  == SubSeq(line, 1, n)
      fed    == Feed(chunk)
      window == Track(Older(samples, Window + 1), fed.read)
  IN
  /\ reading
  /\ line' = From(line, n + 1)
  /\ buffer' = fed.rest
  /\ quiet' = Silent(chunk, fed.read)
  /\ got' = got \o chunk
  /\ readings' = Older(readings, Window + SilenceTime + 1)
                   \o [i \in DOMAIN fed.read |-> [packet |-> fed.read[i], age |-> 0]]
  /\ IF fed.read = <<>>
     THEN IF quiet' > SilenceTime THEN display' = NothingShown /\ samples' = <<>>
          ELSE display' = display /\ samples' = Older(samples, Window + 1)
     ELSE /\ display' = Shown(fed.read, window)
          /\ samples' = IF proto = "vesar" THEN window ELSE <<>>
  /\ UNCHANGED <<proto, reading, packets, noise, opens>>

Read ==
  \/ line = <<>> /\ ReadChunk(0)
  \/ \E n \in DOMAIN line : ReadChunk(n)

(* Opening or reading fails; the thread waits and opens the port again. *)
PortFails ==
  /\ reading \/ display.status = "no_data"
  /\ Close /\ display' = Failed
  /\ UNCHANGED <<proto, packets, noise, opens>>

(* set_port: the thread ends, the state is cleared, another one starts. *)
SwitchPort ==
  /\ reading \/ display.status = "port_error"
  /\ Close /\ display' = NothingShown
  /\ UNCHANGED <<proto, packets, noise, opens>>

-----------------------------------------------------------------------------
StreamNext ==
  \/ \E w \in Raw : SendPacket(w) \/ Noise(w)
  \/ Open \/ Read \/ PortFails \/ SwitchPort

StreamSpec == StreamInit /\ [][StreamNext]_streamVars

-----------------------------------------------------------------------------
(***************************************************************************)
(* Properties.                                                             *)
(***************************************************************************)

(* Wherever the reads cut the stream and whatever noise is between: the    *)
(* packets read are those that stand in the bytes read since the port was  *)
(* opened, each once and in order.                                         *)
EveryPacketRead ==
  LET Starts == {i \in 1 .. Len(got) - PacketLen + 1 : IsPacket(PacketAt(got, i))}
  IN  \E where \in [DOMAIN readings -> Starts] :
        /\ \A i \in Starts : \E k \in DOMAIN readings : where[k] = i
        /\ \A j, k \in DOMAIN readings : j < k => where[j] < where[k]
        /\ \A k \in DOMAIN readings : readings[k].packet = ReadingOf(PacketAt(got, where[k]))

(* A weight a VESAR driver calls stable has stood for the window: every    *)
(* packet of it, also those that shared a chunk, lies within three         *)
(* discretes, and the first is almost as old as the window is long.        *)
StableIsLevel ==
  proto = "vesar" /\ display.stable =>
    LET last == readings[Len(readings)].age
        In   == {k \in DOMAIN readings : readings[k].age - last <= Window}
    IN  /\ \A j, k \in In : readings[j].packet.weight - readings[k].packet.weight <= Amplitude
        /\ \E k \in In : readings[k].age - last >= Window - Slack

(* What is shown as data is the last packet of the open port, cut to the   *)
(* discrete towards zero as the display of the indicator does it, and not  *)
(* older than the silence the driver allows, however much noise comes.     *)
ShownIsFresh ==
  display.status = "ok" =>
    /\ reading /\ readings # <<>>
    /\ LET r == readings[Len(readings)].packet IN
         /\ readings[Len(readings)].age <= SilenceTime
         /\ display.over = r.over
         /\ proto = "vesar" =>
              /\ display.weight % Discrete = 0
              /\ IF r.weight < 0 THEN r.weight <= display.weight /\ display.weight <= 0
                 ELSE 0 <= display.weight /\ display.weight <= r.weight
         /\ proto = "cas22" => display.weight = r.weight

(* The bytes of the line and what is shown of them: no packet lost or made *)
(* up, stable only over a level window, fresh or not shown.                *)
StreamInv == StreamTypeOK /\ EveryPacketRead /\ StableIsLevel /\ ShownIsFresh
=============================================================================

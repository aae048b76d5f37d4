------------------------------ MODULE HostDriver ------------------------------
(***************************************************************************)
(* The packets of the host's driver, byte by byte: what each method of     *)
(* adafruit_esp32spi.py puts into _sendbuf, what the handlers of           *)
(* src/handlers.cpp read at their fixed offsets, what they write into the  *)
(* reply, and what _wait_response_cmd makes of it.                         *)
(*                                                                         *)
(* The link hands over whole packets in order (SerialLink).  What the      *)
(* firmware does for a command belongs to NinaFirmware: here a handler     *)
(* answers with any of its answers.  SET_NET, which has no answer, is left *)
(* out, and so are methods that only send two of these commands in a row.  *)
(***************************************************************************)
EXTENDS Integers, SequencesExt

CONSTANTS
    Sockets,      \* socket numbers
    Ssids, Passphrases, Names, Chunks,  \* byte strings a program passes on
    Addresses, Ports,
    Sizes,        \* sizes it asks socket_read for
    Held,         \* data the firmware may have for it, at most
    SendbufSize,  \* length of _sendbuf at first
    RxSize, TxSize \* SPI_RX_BUFFER_SIZE, SPI_TX_BUFFER_SIZE

Bytes == 0 .. 255
Words == 0 .. 65535

ASSUME StringsAssumption ==
    /\ Ssids \cup Passphrases \cup Names \cup Chunks \cup Held \subseteq Seq(Bytes)
    /\ Addresses \subseteq [1 .. 4 -> Bytes]
ASSUME NumbersAssumption ==
    Sockets \subseteq 0 .. 9 /\ Ports \subseteq Words /\ Sizes \subseteq Words
ASSUME SizesAssumption == {SendbufSize, RxSize, TxSize} \subseteq Nat

VARIABLES
    sendbuf,   \* _sendbuf
    rxBuffer,  \* rx_buffer
    phase,     \* of the exchange: "fresh", "sent", "replied", "done"
    command,   \* the command
    packet,    \* what is on the line: the command's packet or its reply
    took,      \* history: the arguments the handler took from rx_buffer
    gave,      \* history: what the handler answered
    outcome    \* what the driver's method returned or raised

driverVars == <<sendbuf, rxBuffer, phase, command, packet, took, gave, outcome>>

START == 224
END == 238
ERR == 239
REPLY_FLAG == 128

Low(n) == n % 256
High(n) == (n \div 256) % 256
Le16(bytes) == bytes[1] + 256 * bytes[2]
Be16(bytes) == 256 * bytes[1] + bytes[2]

-----------------------------------------------------------------------------
(* The driver's commands.  "meant" is what the handler is to understand.   *)

Command(code, params, decode, meant) ==
    [code |-> code, params |-> params, wide |-> FALSE, replies |-> 1,
     wideReply |-> FALSE, decode |-> decode, meant |-> meant]

status == Command(32, <<>>, "byte", <<>>)
network_data == [Command(33, <<<<255>>>>, "list", <<>>) EXCEPT !.replies = 3]
MAC_address == Command(34, <<<<255>>>>, "bytes", <<>>)
firmware_version == Command(55, <<>>, "bytes", <<>>)
wifi_set_passphrase(ssid, passphrase) ==
    Command(17, <<ssid, passphrase>>, "flag", <<ssid, passphrase>>)
request_host(name) == Command(52, <<name>>, "flag", <<name>>)
resolved_host == Command(53, <<>>, "bytes", <<>>)
get_socket == Command(63, <<>>, "slot", <<>>)

Port(port) == <<High(port), Low(port)>>
\* An address given as a string travels as the host name, with 0.0.0.0.
open_by_name(s, name, port, mode) ==
    Command(45, <<name, <<0, 0, 0, 0>>, Port(port), <<s>>, <<mode>>>>, "flag",
            <<name, <<0, 0, 0, 0>>, port, s, mode>>)
open_by_address(s, ip, port, mode) ==
    Command(45, <<ip, Port(port), <<s>>, <<mode>>>>, "flag", <<<<>>, ip, port, s, mode>>)

socket_status(s) == Command(47, <<<<s>>>>, "byte", <<s>>)
socket_close(s) == Command(46, <<<<s>>>>, "any", <<s>>)
socket_available(s) == Command(43, <<<<s>>>>, "le16", <<s>>)
data_sent(s) == Command(42, <<<<s>>>>, "flag", <<s>>)
write_chunk(s, data) ==
    [Command(68, <<<<s>>, data>>, "byte", <<s, data>>) EXCEPT !.wide = TRUE]

\* Mutant of socket_read: the size in network order.
socket_read_swapped(s, size) ==
    [Command(69, <<<<s>>, <<High(size), Low(size)>>>>, "bytes", <<s, size>>)
        EXCEPT !.wide = TRUE, !.wideReply = TRUE]

socket_read(s, size) ==
    [Command(69, <<<<s>>, <<Low(size), High(size)>>>>, "bytes", <<s, size>>)
        EXCEPT !.wide = TRUE, !.wideReply = TRUE]

\* Commands that no handler of this firmware takes.
Unknown(code, params) == Command(code, params, "flag", <<>>)
start_scan_networks == Unknown(54, <<>>)
get_scan_networks == [Unknown(39, <<>>) EXCEPT !.replies = -1]  \* any number
wifi_set_ent(code, text) == Unknown(code, <<text>>)             \* identity, user, password
wifi_set_entenable == Unknown(79, <<>>)
set_ap_network(ssid) == Unknown(24, <<ssid, <<0>>>>)            \* bytes(1): one zero byte
set_ap_passphrase(ssid, passphrase) == Unknown(25, <<ssid, passphrase, <<0>>>>)
current(code) == [Unknown(code, <<<<255>>>>) EXCEPT !.decode = "bytes"]  \* ssid, bssid, rssi
disconnect == Unknown(48, <<>>)
ping(ip, ttl) == [Unknown(62, <<ip, <<ttl>>>>) EXCEPT !.decode = "le16"]
insert_databuf(s, data) == [Unknown(70, <<<<s>>, data>>) EXCEPT !.wide = TRUE]
send_udp(s) == Unknown(57, <<<<s>>>>)
start_server(port, s, mode) == Unknown(40, <<Port(port), <<s>>, <<mode>>>>)
server_state(s) == Unknown(41, <<<<s>>>>)
set_esp_debug(on) == Unknown(26, <<<<on>>>>)
set_pin_mode(pin, mode) == Unknown(80, <<<<pin>>, <<mode>>>>)
set_write(code, pin, value) == Unknown(code, <<<<pin>>, <<value>>>>)  \* digital, analog
get_time == [Unknown(59, <<>>) EXCEPT !.decode = "bytes"]

\* Commands that say all by their code, commands with arguments that a handler takes,
\* and commands that no handler takes.
Queries == {status, network_data, MAC_address, firmware_version, resolved_host, get_socket}

WithArguments ==
    {wifi_set_passphrase(a, p) : a \in Ssids, p \in Passphrases}
    \cup {request_host(n) : n \in Names}
    \cup {open_by_name(s, n, p, 0) : s \in Sockets, n \in Names, p \in Ports}
    \cup {open_by_address(s, i, p, 0) : s \in Sockets, i \in Addresses, p \in Ports}
    \cup {socket_status(s) : s \in Sockets} \cup {socket_close(s) : s \in Sockets}
    \cup {socket_available(s) : s \in Sockets} \cup {data_sent(s) : s \in Sockets}
    \cup {write_chunk(s, d) : s \in Sockets, d \in Chunks}
    \cup {socket_read(s, n) : s \in Sockets, n \in Sizes}

NotTaken ==
    {start_scan_networks, get_scan_networks, wifi_set_entenable, disconnect, get_time}
    \cup {send_udp(s) : s \in Sockets} \cup {server_state(s) : s \in Sockets}
    \cup {wifi_set_ent(c, a) : c \in {74, 75, 76}, a \in Ssids}
    \cup {set_ap_network(a) : a \in Ssids}
    \cup {set_ap_passphrase(a, p) : a \in Ssids, p \in Passphrases}
    \cup {current(c) : c \in {35, 36, 37}}
    \cup {ping(i, 250) : i \in Addresses}
    \cup {insert_databuf(s, d) : s \in Sockets, d \in Chunks}
    \cup {start_server(p, s, 0) : p \in Ports, s \in Sockets}
    \cup {set_esp_debug(on) : on \in {0, 1}}
    \cup {set_pin_mode(5, mode) : mode \in {0, 1}} \cup {set_write(c, 5, 1) : c \in {81, 82}}

Commands == Queries \cup WithArguments \cup NotTaken

-----------------------------------------------------------------------------
(* _send_command *)

Length(n, wide) == IF wide THEN <<High(n), Low(n)>> ELSE <<Low(n)>>

Body(c) ==
    LET Param(p) == Length(Len(p), c.wide) \o p
    IN  <<START, c.code % REPLY_FLAG, Len(c.params)>>
            \o FlattenSeq([i \in DOMAIN c.params |-> Param(c.params[i])]) \o <<END>>

Padded(n) == 4 * ((n + 3) \div 4)

\* A buffer whose first bytes are overwritten.
Overlaid(buffer, bytes) == bytes \o SubSeq(buffer, Len(bytes) + 1, Len(buffer))

\* A longer packet gets a new buffer; the padding is what the buffer held.
_send_command(c) ==
    LET n == Padded(Len(Body(c)))
        buffer == IF n > Len(sendbuf) THEN [i \in 1 .. n |-> 0] ELSE sendbuf
    IN  /\ sendbuf' = Overlaid(buffer, Body(c))
        /\ packet' = SubSeq(sendbuf', 1, n)

-----------------------------------------------------------------------------
(* The handlers' side.  Offsets count from 0, as in the code. *)

At(i) == rxBuffer'[i + 1]
Slice(i, n) == SubSeq(rxBuffer', i + 1, i + n)

\* h_start_client_tcp
OpenArguments ==
    LET h == At(3)
    IN  IF At(2) = 4
        THEN <<<<>>, Slice(4, 4), Be16(Slice(9, 2)), At(12), At(14)>>
        ELSE <<Slice(4, h), Slice(5 + h, 4), Be16(Slice(10 + h, 2)), At(13 + h), At(15 + h)>>

\* What the handler of a command takes from rx_buffer.
Arguments(code) ==
    CASE code = 17 -> <<Slice(4, At(3)), Slice(5 + At(3), At(4 + At(3)))>>
      [] code = 52 -> <<Slice(4, At(3))>>
      [] code = 45 -> OpenArguments
      [] code \in {42, 43, 46, 47} -> <<At(4)>>
      [] code = 68 -> <<At(5), Slice(8, Be16(Slice(6, 2)))>>
      [] code = 69 -> <<At(5), Le16(Slice(8, 2))>>
      [] OTHER -> <<>>

\* An answer: the value the handler gives, and the reply's bytes behind its first two.
Answer(value, body) == [ok |-> TRUE, value |-> value, body |-> body]
Flag(n) == Answer(n, <<1, 1, n>>)
Number16(n) == Answer(n, <<1, 2, Low(n), High(n)>>)
Text(t) == Answer(t, <<1, Len(t)>> \o t)
LongText(t) == Answer(t, <<1, High(Len(t)), Low(Len(t))>> \o t)
Refused == [ok |-> FALSE, value |-> 0, body |-> <<>>]
\* A START_CLIENT that fails: no parameter, and the end byte over its length.
NoParams == [ok |-> FALSE, value |-> 0, body |-> <<0>>]

Version == <<48, 46, 48, 46, 49, 45, 97, 108, 112, 104, 97>>  \* "0.0.1-alpha"
Mac == <<0, 224, 76, 238, 239, 1>>

\* h_get_conn_status
StatusAnswers == {Flag(n) : n \in {0, 1, 3, 4}}
\* h_get_ip_addr: address, mask, gateway
AddressAnswers ==
    LET m == <<255, 255, 255, 0>>
    IN  {Answer(<<a, m, a>>, <<3, 4>> \o a \o <<4>> \o m \o <<4>> \o a) : a \in Addresses}
\* h_get_data_buf_tcp: as much as is held and asked for
ReadAnswers(size) ==
    {LongText(SubSeq(d, 1, IF size < Len(d) THEN size ELSE Len(d))) : d \in Held}

\* What the handler of a command may answer to what it took.
Answers(code, args) ==
    CASE code = 32 -> StatusAnswers
      [] code = 33 -> AddressAnswers
      [] code = 34 -> {Text(Mac)}
      [] code = 55 -> {Text(Version)}
      [] code \in {17, 46} -> {Flag(1)}
      [] code = 42 -> {Flag(1)}
      [] code = 43 -> {Number16(n) : n \in {0} \cup Sizes}
      [] code = 45 -> {Flag(1)}
      [] code = 47 -> {Flag(0), Flag(4)}
      [] code = 52 -> {Flag(1), Flag(0)}
      [] code = 53 -> {Text(a) : a \in Addresses}
      [] code = 63 -> {Flag(s) : s \in Sockets}
      [] code = 68 -> {Number16(Len(args[2]))}
      [] code = 69 -> ReadAnswers(args[2])
      [] OTHER -> {}

AlwaysAnswered == {32, 33, 34, 42, 52, 53, 55}

\* The handler returned 0, or there is none.
Refuses(code) == IF code = 45 THEN {NoParams} ELSE {Refused : x \in {code} \ AlwaysAnswered}

\* spi_dispatch_command
ReplyBytes(code, answer) ==
    IF ~answer.ok /\ answer.body = <<>> THEN <<ERR, 0, END>>
    ELSE <<START, REPLY_FLAG + code>> \o answer.body \o <<END>>

-----------------------------------------------------------------------------
(* _wait_response_cmd: "at" is the next byte.  A read behind the last byte *)
(* meets FakeSerialSPI's assertion, one across it leaves zeros.            *)

Parsing == [at |-> 1, raised |-> "none", values |-> <<>>]
Raise(p, error) == [p EXCEPT !.raised = error]

Has(p) == p.at <= Len(packet)
Peek(p, i) == IF p.at + i <= Len(packet) THEN packet[p.at + i] ELSE 0

Read(p, value, n) == [p EXCEPT !.at = @ + n, !.values = Append(@, value)]

\* _check_data
Check(p, desired) ==
    IF p.raised # "none" THEN p
    ELSE IF ~Has(p) THEN Raise(p, "AssertionError")
    ELSE IF Peek(p, 0) # desired THEN Raise([p EXCEPT !.at = @ + 1], "RuntimeError")
    ELSE [p EXCEPT !.at = @ + 1]

\* Mutant of Begins: the error byte is waited past.
BeginsPastError ==
    LET marks == {i \in DOMAIN packet : packet[i] = START}
    IN  IF marks = {} THEN Raise(Parsing, "AssertionError")
        ELSE [Parsing EXCEPT !.at = 1 + CHOOSE i \in marks : \A j \in marks : i <= j]

\* _wait_spi_char: the first start or error byte decides.
Begins ==
    LET marks == {i \in DOMAIN packet : packet[i] \in {START, ERR}}
    IN  IF marks = {} THEN Raise(Parsing, "AssertionError")
        ELSE LET i == CHOOSE i \in marks : \A j \in marks : i <= j
                 p == [Parsing EXCEPT !.at = i + 1]
             IN  IF packet[i] = ERR THEN Raise(p, "RuntimeError") ELSE p

Parameter(p, wide) ==
    LET w == IF wide THEN 2 ELSE 1
        n == IF wide THEN 256 * Peek(p, 0) + Peek(p, 1) ELSE Peek(p, 0)
        data == [p EXCEPT !.at = @ + w]
    IN  IF p.raised # "none" THEN p
        ELSE IF ~Has(p) \/ ~Has(data) THEN Raise(p, "AssertionError")
        ELSE Read(data, [i \in 1 .. n |-> Peek(data, i - 1)], n)

\* As many parameters as there are to be.
Filled(p, wide, count) ==
    LET after[i \in 0 .. count] == IF i = 0 THEN p ELSE Parameter(after[i - 1], wide)
    IN  after[count]

Response(c) ==
    LET head == Check(Begins, c.code + REPLY_FLAG)
        count == IF c.replies < 0 THEN Peek(head, 0) ELSE c.replies
        body == Check(head, count)
    IN  Check(Filled(body, c.wideReply, count), END)

\* What the method makes of the parameters.
Decoded(c, values) ==
    CASE c.decode = "list" -> values
      [] c.decode = "bytes" -> values[1]
      [] c.decode = "le16" -> Le16(values[1])
      [] OTHER -> values[1][1]

NoOutcome == [raised |-> "none", value |-> 0]
Raised(error) == [raised |-> error, value |-> 0]

Outcome(c, p) ==
    IF p.raised # "none" THEN Raised(p.raised)
    ELSE IF c.decode = "flag" /\ p.values[1][1] # 1 THEN Raised("RuntimeError")
    ELSE IF c.decode = "slot" /\ p.values[1][1] = 255 THEN Raised("OSError")
    ELSE [raised |-> "none", value |-> Decoded(c, p.values)]

-----------------------------------------------------------------------------
DriverInit ==
    /\ sendbuf = [i \in 1 .. SendbufSize |-> 0]
    /\ rxBuffer = [i \in 1 .. RxSize |-> 0]
    /\ phase = "fresh"
    /\ command = status
    /\ packet = <<>>
    /\ took = <<>>
    /\ gave = Refused
    /\ outcome = NoOutcome

Send ==
    /\ phase \in {"fresh", "done"}
    /\ \E c \in Commands : command' = c /\ _send_command(c)
    /\ phase' = "sent"
    /\ outcome' = NoOutcome
    /\ UNCHANGED <<rxBuffer, took, gave>>

\* A packet longer than rx_buffer is dropped, and the host waits on.
Handle ==
    /\ phase = "sent"
    /\ Len(packet) <= RxSize
    /\ rxBuffer' = Overlaid(rxBuffer, packet)
    /\ took' = Arguments(At(1))
    /\ gave' \in Answers(At(1), took') \/ gave' \in Refuses(At(1))
    /\ packet' = ReplyBytes(At(1), gave')
    /\ phase' = "replied"
    /\ UNCHANGED <<sendbuf, command, outcome>>

Receive ==
    /\ phase = "replied"
    /\ LET p == Response(command)
       IN  /\ outcome' = Outcome(command, p)
           /\ packet' = SubSeq(packet, p.at, Len(packet))
    /\ phase' = "done"
    /\ UNCHANGED <<sendbuf, rxBuffer, command, took, gave>>

DriverNext == Send \/ Handle \/ Receive

DriverSpec == DriverInit /\ [][DriverNext]_driverVars

-----------------------------------------------------------------------------
\* Every variable keeps its type; the driver's buffer only grows.
DriverTypeOK ==
    /\ sendbuf \in Seq(Bytes) /\ Len(sendbuf) >= SendbufSize
    /\ rxBuffer \in [1 .. RxSize -> Bytes]
    /\ phase \in {"fresh", "sent", "replied", "done"}
    /\ command \in Commands
    /\ packet \in Seq(Bytes)
    /\ outcome.raised \in {"none", "RuntimeError", "OSError", "AssertionError"}

\* A handler takes from rx_buffer exactly what the method was called with, at
\* offsets that depend on every parameter before: one and two byte lengths, both
\* byte orders, both forms of START_CLIENT, whatever earlier and longer packets
\* left behind in the two buffers.
HandlerTakesWhatWasMeant == phase = "replied" => took = command.meant

\* The method returns what the handler answered, having read the reply to its last
\* byte, and raises a RuntimeError, nothing else, when the handler refused: data
\* that look like start, end or error bytes included.
OutcomeIsAnswer ==
    phase = "done" =>
        IF gave.ok /\ (command.decode = "flag" => gave.value = 1)
        THEN outcome.raised = "none" /\ outcome.value = gave.value /\ packet = <<>>
        ELSE outcome.raised = "RuntimeError"

\* "it bundles up a serial requests, hands it off to a handler": every command fits.
EveryCommandFits == phase = "sent" => Len(packet) <= RxSize

\* h_get_data_buf_tcp answers within tx_buffer whatever socket_read may ask for
\* ("Read up to 'size' bytes from the socket number").
ReplyFits == phase = "replied" => Len(packet) <= TxSize

\* get_socket raises "OSError(23)  # ENFILE - File table overflow" when there is no slot.
NoSlotIsTableOverflow ==
    phase = "done" /\ command.code = 63 /\ ~gave.ok => outcome.raised \in {"none", "OSError"}

=============================================================================

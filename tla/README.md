# A TLA+ model of rtl872x-nina-fw

The repository is a firmware for the RTL8720DN that answers the commands of
Arduino's NINA firmware, so that a CircuitPython host can use it as a Wi-Fi
coprocessor, together with the host's driver (`testapp/`). This directory models
the firmware's logic, both transports and the host's driver with the classes on
top of it, checks the models with TLC and proves, with TLAPS, all of what the checks
show but the liveness for every size of the system.

All paths below are relative to the repository; the host's files are in
`testapp/adafruit_esp32spi/`.

## The system

| Part | State it keeps | Operations | Talks to |
|---|---|---|---|
| Socket table, `src/wifi-api.cpp` 58-118, 285-535 | `wifi.sockets`: ten slots with type, state, `nagle_enabled`, netconn, held netbuf, `offset`, `dlen` | allocate, connect, state, available, read, write, flush, stop, tear down all | lwIP's netconn API |
| Station and resolver, `src/wifi-api.cpp` 34-48, 101-283 | `wifi.status`, ssid, access point, password; `resolved_hostname` in `src/handlers.cpp` | join, status, address, look up a name | radio, DHCP, DNS; a join tears down the socket table |
| Handlers, `src/handlers.cpp`, `spi_dispatch_command` | `rx_buffer`, `tx_buffer` | one per command code | the two above; a reply for the transport |
| Serial transport, `src/serial-dispatch.cpp` and `testapp/serialrtl.py` | bytes of the current frame, `rx_buffer` | frame a packet, reply | UART, which the firmware's `printf` shares |
| SPI transport, `src/spi-dispatch.cpp` | FIFOs, two semaphores, ready pin | read and write packets, interrupt handler | the driver's `_send_command`, `_wait_response_cmd` |
| Driver, `adafruit_esp32spi.py` | `_sendbuf`, the pins | one method per command, joining, reset | one packet and one reply per command |
| Host sockets, `adafruit_esp32spi_socket.py` | `_socknum`, `_buffer` of each object | connect, send, recv, readline, available, connected, close | the driver, one command per call |
| WiFi manager, `adafruit_esp32spi_wifimanager.py` | `_ap_index`, failure count | connect with retries, reset, create_ap, requests | the driver's `connect_AP`, `status`, `is_connected` |
| WSGI server, `adafruit_esp32spi_wsgiserver.py` | `_server_sock`, `_client_sock` | start, update_poll | the driver's server commands, socket objects |
| Pins, `digitalio.py`, `PWMOut.py` | direction, value, drive mode, duty cycle of each object | setters, `switch_to_*`, deinit | the driver's pin commands |
| Sketch, test program | - | `setup`, `loop`; a manual test | transport; driver |

The firmware is a single loop: a transport reads a packet, a handler runs to its
end, the reply goes out. There is no other thread of its own, so the
concurrency is with what is outside: the lwIP stack and the peers, who send,
close and reset between any two commands; the radio, which loses access points;
the UART and the SPI pins, which move at any time; the host, which runs methods
made of several commands, gives up after a while, and may be restarted.

What is hard here: state that outlives what it describes (a slot's state, its
Nagle note, a netconn pointer, the status, the resolver's answer, the number in a
closed socket object, the bytes in a reused buffer), a blocking read in a loop
that serves everybody, offsets into a buffer that several calls share, joins that
fail half way, retries over a list, serial reads that return less than asked, and
two ends that hand two pins to and fro. `PROJECT.json` lists each of these hazards
at its line with the properties that watch it.

## Modules

| Module | What it is |
|---|---|
| `SocketService` | What the socket commands promise: slots go free - reserved - connected - free, and a connected slot hands out its peer's bytes in order. Abstract; no netconns or offsets. |
| `SocketTable` | The socket table, one action per `wifi_api_*` function. `ImplementsSocketService` is the refinement mapping to `SocketService`. |
| `WifiStation` | Joining, status, loss of access points, resolver. |
| `NinaFirmware` | The handlers: composes `SocketTable` and `WifiStation` (both by INSTANCE, sharing `ret`) and adds the reply. |
| `SerialLink` | Both ends of the serial transport, byte by byte, with a host that may be killed and started again. |
| `SpiLink` | Both ends of the SPI transport: pins, FIFOs, the dispatcher's stages, the driver's waits and resets. |
| `HostDriver` | The packets: how each driver method packs its parameters into `_sendbuf`, at which offsets the handler reads them out of `rx_buffer`, what the reply is, and what `_wait_response_cmd` makes of it. |
| `SocketClient` | The host's socket methods as sequences of commands over `SocketTable`. |
| `WifiManager` | The manager and the driver's joining over `WifiStation`, one command per step. |
| `WsgiServer` | The WSGI server and its socket objects over a firmware that has a server (external). |
| `HostPins` | `DigitalInOut`, `Pin` and `PWMOut` over a board that has pin commands (external). |
| `HostLibraryProofs` | The inductive invariants and the theorems of `WsgiServer`, `HostPins` and `HostDriver`. It extends all three, and so the last two have names of their own for what every module has (`DriverSpec`, `PinsSpec`, ...). |
| other `*Proofs` | The inductive invariant and the theorems of the module of that name. |
| `MC*` | Instances for TLC: the constants' values. |

Each variable and action is commented in its module and every definition's
source lines are in the `map` of `PROJECT.json`. The main correspondences:

* `sockets[s]` is `socket_info_t`. `type` has the names of `SOCK_TYPE_*`, `state`
  the two values the firmware stores. The unused field `current_data` is left out.
* `conn` is lwIP: the state of each netconn, whether its pcb is still there, how
  many bytes the peer has sent (`rcvd`) and `netconn_recv` has handed out
  (`taken`). Bytes are numbered, so that a lost, repeated or foreign byte shows.
  A failed connect may or may not leave a pcb; a reset drops it.
* `fw` in `SocketTable` is the command loop: `up`, `blocked` in `netconn_recv` (its
  `recv_timeout` is 0), or `undefined` after a null dereference. Nothing is promised
  after that, so the model stops there until a reboot.
* `wifi_api_connect` runs to its end inside one command. It is one action, whose
  disjuncts are its exits; what each exit has already reset or set is part of it.
* In `SerialLink` a packet is reduced to the command's code and its parameter bytes:
  the start and end bytes are cut off, as the handler never looks at them. The
  handler reads as many bytes as the code says, whatever the frame's length is.
* In `SpiLink` a stage of `fw.at` is one of the dispatcher's waits. A transfer moves
  a byte each way, so that what the host clocks in while it reads is in the RX FIFO
  afterwards, as it is on the chip; an empty TX FIFO clocks out zeros, and an RX FIFO
  with `RxSize` bytes takes no more. Packets are padded to whole words with what
  `_sendbuf` holds (`Left`). A wait of the driver can run out in any state of the firmware
  and only raises (`GiveUp`, `adafruit_esp32spi.py` 190, 238, 271): the program may go on
  with its next command, as `connect_normal` does (`adafruit_esp32spi_wifimanager.py`
  143-150), or call `reset` first (`Reset`). That pulses a wired reset pin; in `SerialRTL`
  the pin is a mock.
* In `HostDriver` buffers are byte functions that keep what they held: `_sendbuf`
  only grows, and the padding is what was there. `took` and `meant` compare what the
  handler read with what the caller passed.
* In `SocketClient`, `WifiManager`, `WsgiServer` and `HostPins` a method is at one place
  at a time (`call.at`, `mgr.at`, `poll.at`), and each step is one command with the
  attributes set up to the next. In `SocketClient`, `WifiManager` and `HostPins` a packet
  that says error, or one that never comes, raises; in `WifiManager` and `HostPins` a command
  may also be performed and its answer missed. The commands of `WsgiServer` never fail.
  `socket_close` swallows the `RuntimeError` of a missed stop
  (`adafruit_esp32spi.py` 780-783): neither `WsgiServer` nor `SocketClient` has that.
* History variables and fields (`delivered`, `promised`, `asked`, `sent`, `executed`,
  `killed`, `returned`, `took`, `gave`, `turn`, `lost`, `sound`, `set`, `sent` and `answers` of a
  connection, ...) record what earlier steps did and are marked as history where
  they are declared. No guard of the code's actions looks at one; a guard that bounds
  an instance (`sent` in `SerialLink`, `lost` in `SpiLink`) does.

Definitions called "Mutant of ..." are not part of a specification. Each is a
plausible bug of the definition that follows it, with which TLC must find the
property named in `PROJECT.json` violated; they show that the properties can fail.

## What the runs show

| Run | Instance | What it shows |
|---|---|---|
| `socket_table` | 2 slots, 2 netconns, TCP and UDP, reads of 0, 1, 2, 2 bytes per peer; 246 thousand states | Whatever order the calls come in: every established connection has a slot that can close it (`LiveConnsOwned`), no pnc dangles or is shared, the polled state is this connect's, held data is the slot's own, bytes come once and in order, announced bytes do not go away, the Nagle note is right about the pcb although it outlives it, a flush releases what was written, null is dereferenced only after a connect failed or a peer reset, and the table implements `SocketService`. |
| `wifi_station` | 2 access points of one network, 1 of another, the empty ssid; 9 thousand states | After any join that fails at any stage, CONNECTED names the network whose lease the interface has, and a failed join never reports the one before. |
| `nina_firmware` | 2 slots, 1 netconn, TCP and TLS, 1 access point; 624 thousand states | A join closes every connection, also when a slot refuses its teardown; a status never disowns open connections. |
| `serial_link` | packets of 2 and 3 bytes, one with an `@` inside, 3 exchanges, a host killed at any byte, `LengthTimely`, not `CutShort`; 18 thousand states | Every packet is handed off once and in order however it is cut up, also behind one whose host was killed; each reply is the last packet's own, unless the host that reads it was started after a kill; every write ends. |
| `socket_client` | 2 objects, 2 slots, 2 netconns, 2 bytes per peer; 2 million states | The client never makes the firmware block, every allocated slot is held by exactly one object, every object gets its stream unbroken. |
| `kept_socket` | 2 objects on 1 slot, a program that goes on using an object it has closed (`KeepsClosed`); 67 thousand states | Also such a program never makes the firmware block, and each of its calls ends. |
| `host_driver` | all commands in any order and number, strings of 0 to 4 bytes with start, end and error bytes among them, buffers of 24 bytes, `_sendbuf` of 16; 2.9 million states | The fixed offsets of the handlers fit every packet of the driver, whatever an earlier one left in the buffers; the outcome is what the handler answered, read to the last byte, also with marks among the data. |
| `spi_link` | five commands in any order: without parameters, in whole words, padded, refused, refused and padded; any wait runs out at any point, with or without a reset afterwards, and then at most 3 commands before one; resets at any point; 1.04 million states | As long as no wait has run out since the last reset, no earlier packet was padded and `rx_buffer[3]` held a count that serves, a handler is given the command the host waits for, whole (`HandsOff`), and the outcome is that command's own (`OutcomeIsOwn`), at whatever speed the two ends go through their handshakes. Every such command ends without the clock, but for two standoffs, and every command at all ends with it. |
| `wifi_manager` | list of 3 networks, 2 access points, 2 attempts before a reset; 880 states | Requests go out only over a network of the list, opened with its own password; no join is sent to a connected firmware; `connect` tries every network again and again, and ends if one of them stays in range. |
| `host_pins` | 2 digital and 1 PWM object, 2 pins, any command missed or its answer lost; 44 thousand states | A pin of an object that says OUTPUT, after completed calls, is an output at the level last written, whatever the previous owner left. |
| `wsgi_server` | 3 slots with slot 0 among them, requests with and without a body and a malformed one, clients that leave or fall silent at any time, sockets of the program's own; 200 thousand states | No request is answered twice, an answered connection is closed in the same poll, the server's slot stays its own, a poll returns unless it waits for a part of a request that its peer, connected or not, never sends, and the server goes on answering complete requests unless such a peer holds it. |
| `spi_count` | as `spi_link` with `SEND_DATA_TCP` and a parameterless command; a violation | The one disagreement that is a run, see below. |

The MC instances check the type invariants of `SocketTable`, `WifiStation`, `SerialLink`
and `WsgiServer`; each other module states its own (`TypeOK`), to be added to a cfg
when the module is changed.

## Disagreements

Where the code and what the repository says of it disagree. `spi_count` is a run of
`PROJECT.json`. The others are stated as properties too, with cfgs in which TLC finds
them violated; they are not part of the runs, and serve as reproductions:
`tlc -config MCResolver.cfg MCWifiStation.tla`, and so on. `MCPinsTold` names three
properties: TLC stops at one, and its line has to go for the next to show.

| Cfg, module and property | Says | Does |
|---|---|---|
| `MCSpiCount`, `MCSpiLink`, `HandsOffWhatWasSent` | "start, command, param_count" (`src/spi-dispatch.cpp` 275) | The loop over the parameters runs to `rx_buffer[3]`, not yet received, instead of `rx_buffer[2]` (line 282). |
| `MCSpiRace`, `MCSpiLink`, `SelectIsForReply` | "Wait until the ready pin goes low" (`adafruit_esp32spi.py` 179) | A reply that is ready before the host deselects takes the pin down and up again unseen (`src/spi-dispatch.cpp` 227). |
| `MCSpiError`, `MCSpiLink`, `ErrorIsReadWhole` | "Error response to command" (`adafruit_esp32spi.py` 268) | The dispatcher waits for all bytes of the error packet to be read (`src/spi-dispatch.cpp` 233), the driver reads one. |
| `MCSerialSplit`, `MCSerialLink`, `HandsOffRequests` | "bundles up a serial requests, hands it off" (`src/serial-dispatch.cpp` 3-4) | A length whose second byte is late is read short (line 38). |
| `MCSerialCut`, `MCSerialLink`, `Answered` | "and then returns the result over serial" (`src/serial-dispatch.cpp` 4-6) | After a frame that was cut short the loop takes the next one for its rest (line 51), which is never answered. |
| `MCLongName`, `MCHostDriver`, `EveryCommandFits` | "in param 1: hostname" (`src/handlers.cpp` 172) | A packet longer than the buffer is dropped without an answer (`src/serial-dispatch.cpp` 41); 240 bytes of name are enough. |
| `MCLongRead`, `MCHostDriver`, `ReplyFits` | "Read up to 'size' bytes from the socket number" (`adafruit_esp32spi.py` 738) | The size is not compared with `tx_buffer` (`src/handlers.cpp` 363). |
| `MCNoSlot`, `MCHostDriver`, `NoSlotIsTableOverflow` | "ENFILE - File table overflow" (`adafruit_esp32spi.py` 632) | Without a slot the firmware answers with an error packet (`src/handlers.cpp` 312), never 255, and RuntimeError is raised. |
| `MCResolver`, `MCWifiStation`, `ResolvedIsAsked` | "Convert a hostname to a packed 4-byte IP address" (`adafruit_esp32spi.py` 602) | For a dotted quad `inet_aton` overwrites the local pointer (`src/wifi-api.cpp` 276) and the host reads the answer to an earlier lookup. |
| `MCStartClient`, `MCNinaFirmware`, `StartClientTellsOutcome` | "1 on success, 0 on failure" (`src/handlers.cpp` 178) | A failed connect is answered with 1 (`src/wifi-api.cpp` 315). |
| `MCSetNet`, `MCNinaFirmware`, `SetNetAnswers` | "ssid of open network to connect to", "1 for success" (`src/handlers.cpp` 16-17) | The length of a null password is taken (`src/handlers.cpp` 30, `src/wifi-api.cpp` 230). |
| `MCConnected`, `MCSocketClient`, `ConnectedIsTrue` | "Whether or not we are connected to the socket" (`adafruit_esp32spi_socket.py` 180) | The state never changes after the connect (`src/wifi-api.cpp` 326). |
| `MCIsConnected`, `MCWifiManager`, `IsConnectedTrue` | "Whether the ESP32 is connected to an access point" (`adafruit_esp32spi.py` 492) | The status is the last join's, whatever became of the access point (`src/wifi-api.cpp` 269). |
| `MCPinsTold`, `MCHostPins`, `DirectionTellsPin` | "Returns the pin's direction." (`digitalio.py` 152) | Setting `drive_mode` makes an input's pin an output (line 206). |
| `MCPinsTold`, `MCHostPins`, `SwitchesToOutput` | "and then switch to writing out digital values" (`digitalio.py` 134) | It sets `_direction`, which nothing reads (line 138), and raises "Not an output". |
| `MCPinsTold`, `MCHostPins`, `DutyCycleIsSet` | "Returns the PWMOut object's duty cycle" (`PWMOut.py` 63) | The setter does not store it (line 80). |
| `MCWsgiSlot`, `MCWsgiServer`, `ClientIsClient` | "returns a client socket connection if available." (`adafruit_esp32spi_wsgiserver.py` 119) | A client on slot 0 is replaced by a fresh socket (`adafruit_esp32spi_socket.py` 62). |
| `MCWsgiStale`, `MCWsgiServer`, `OnlyRequestsServed` | "When a request comes in, the application callable will be invoked" (`adafruit_esp32spi_wsgiserver.py` 84-85) | The closed client's number is polled on (line 115): the program's own socket on that slot is served. |
| `MCWsgiStarve`, `MCWsgiServer`, `RequestsServed` | "get the server check for new incoming client requests" (`adafruit_esp32spi_wsgiserver.py` 83-84) | The previous client's slot goes first (line 130), and a waiting client may never be served. |
| `MCWsgiBody`, `MCWsgiServer`, `BodyIsWhole` | "the request body" (`adafruit_esp32spi_wsgiserver.py` 167) | What has come so far is taken for the body (line 197). |

Five more are part of a property that says where it stops. `PollReturns` and
`ServerProgress` except a peer that never sends the rest of a request, since `readline`
runs without a timeout (`adafruit_esp32spi_wsgiserver.py` 172) inside what is to be called
"inside your main event loop" (line 83): a client that stays connected and is silent
holds the server, and the program, for ever. `HandsOff` and `OutcomeIsOwn` end with the
first wait that runs out and with the command after a padded packet. After a wait that only
raised (`adafruit_esp32spi.py` 190) the next command meets a dispatcher that may still be
in the middle of the last one, or a reply that is late; behind a padded packet (lines
200-210) up to three bytes are left over, which the dispatcher takes for the beginning of
the next command (it asks for exactly what it parses, `src/spi-dispatch.cpp` 275-303).
`HandsOffWhatWasSent` and `OwnOutcome`, which are the two without `sound`, as invariants of
`MCSpiLink.cfg` show what becomes of the next command. Last, `StreamUnbroken` is checked for a program that lets go of
closed objects, since `close` keeps `_socknum` and a later `recv` reads whatever
connection has the slot by then (`adafruit_esp32spi_socket.py` 208).

## Bounds, symmetry and views

`MaxRx` bounds the bytes of a peer, `MaxSends` the host's packets, `MaxChunks` the
chunks of a send; `MaxLost` the commands of an SPI host between the first that went
wrong and a reset. All four are guards and nothing else is cut off. Two slots are
enough for one slot to disturb another (the code's loops treat slots alike, and
`get_socket` takes the lowest); two netconns for a netconn to be reused by another
slot and for the pool to run out; two bytes for a segment of one or two bytes, a
read that stops inside it, one that ends with it and one that asks for more. The
proofs need none of these bounds. `kept_socket` has one slot, so that two objects
have to come to share it.

`host_driver` bounds nothing but the strings: commands follow each other without end,
over buffers that keep what earlier ones left. `SendbufSize` is such that some packets
fit and others make `_sendbuf` grow. `wifi_manager` needs three networks, so that
one can be skipped, with the one that is found last; two attempts, so that a failure
count that is forgotten differs from one that is kept. `spi_link` numbers the
answers modulo four, so that one is not taken for the next; with three commands before
a reset a late reply can be taken for the next command's and shift the one after it,
and what is lost is the only thing that is bounded: as long as all is well, commands go
on without end. `wsgi_server` has a slot
for the server, slot 0 and one more, so that slots are handed on between clients and
the program.

Netconns, socket objects and pins are symmetric: no module names one. Symmetry is not
used where liveness is checked. The views leave out `ret` and `reply`, which no
action reads unprimed; properties about them are action properties and are
evaluated on every step. Deadlock is checked except in `wsgi_server`, where the poll
may wait for ever on a client that has left or stalled.

## Fairness

The safety properties need none.

* `SerialLink`: the UART delivers, the dispatcher's `while(1)` keeps running and the
  host's read returns when a byte is there.
* `SpiLink`: weak fairness of `Host` and of `Firmware`: each end goes on while the pins
  allow it. Timeouts (`GiveUp`), resets and new commands are not fair, so that no command
  ends only because the driver's clock ran out. The second half of `CommandEnds`, which is
  about every command whatever has happened before, assumes weak fairness of `GiveUp` in
  its own formula: each wait of the driver has a timeout and stays at its place until then.
* `SocketClient`: a method that was called goes on (weak fairness of `Step`) and the
  clock advances (of `Timeout`, the ways out after 3 s, after the socket's timeout, and
  so on). `Timeout` is enabled at every wait and stays so, hence weak fairness is
  enough. `recv(0)` reads as long as there is more: that it ends rests on a peer that
  does not send for ever (`MaxRx`).
* `WifiManager`: a method that runs goes on. The environment is strongly fair to three
  answers: a join that could succeed is not missed or failed every time, and neither
  is the answer of a status command. `EveryNetworkTried` and `ConnectEnds` are about the
  manager's loop and not about a radio that never works. `ConnectEnds` presupposes a
  network with a password: the firmware does not survive a join of an open one.
* `WsgiServer`: the main loop polls, and the (external) firmware does not pass over a
  waiting client for ever. Peers owe nothing: a client may stay connected and never send
  the rest of its request. `RequestsServed` (`MCWsgiStarve`) assumes in its formula that
  peers go on, so that what it shows is not such a client's doing.

## Assumptions about the environment

* `UndefinedOnlyAfterFault` needs a netconn for every slot (`Netconns` at least as many
  as `MaxSockets`); `netconn_close` and `netconn_delete` are taken to succeed.
* `serial_link` assumes the second length byte in time (`LengthTimely`), and that bytes
  a killed host has handed to its port still go out (not `CutShort`). `MCSerialSplit` and
  `MCSerialCut` drop the one and the other. A host that is started after a kill may read
  the killed one's reply first: both commands are then answered one late, and `ReplyIsOwn`
  is about hosts that were not killed.
* The firmware's log never contains `@`, and handlers return.
* The promises of `SpiLink` hold from a reset to the first wait that runs out, the
  command after the first padded packet, or the first packet that finds in
  `rx_buffer[3]` no count that serves (`Counted`: 0 before a packet without parameters,
  which is so after a reset only; before others not 0, and their first parameter's length
  equals their number). What happens afterwards, replies that win the race for the ready pin
  and error packets are all in the run. Replies fit into a FIFO, and the dispatcher's wait for
  the slave to be idle is not modelled. The sketch is built for the serial
  transport (`serial_mode = 1`); the SPI transport is the other one in the source.
* `SocketClient`'s program sets a timeout, connects over TCP and, except in `kept_socket`,
  lets go of an object that a method has closed, and of all objects when it joins or
  resets. The code does not enforce this.
* `WifiManager` takes a missed answer to be gone by the time of the next command, and
  the reset pin to be wired.
* `WsgiServer`'s program starts the server once, polls on after an exception, and its
  application returns. `io.StringIO(body)` is MicroPython's, which takes bytes.
* The firmware here refuses every pin and server command. `HostPins` and `WsgiServer`
  therefore model the host's code over an external board or firmware that performs
  them as the driver's comments say; their map marks those parts external.

## What is proved

Eight modules hold proofs, for all values of the constants; each rests on the named
assumptions of the modules it extends and instantiates, on the hypotheses a theorem
states itself, and on nothing else. In each, `IInv` is an inductive strengthening
(`PinsInv` and `ExchangeInv` for the pins and the driver), a first theorem says that it
always holds, and the others follow from it. Hypotheses of theorems are named
where they are needed. Four say how the code is run: `EnoughNetconns` (a netconn for every
slot) for the null pointers, `~KeepsClosed` (a program that lets go of closed objects) for
two theorems about the host's sockets, `LengthTimely` and `~CutShort` for the serial
transport, whose opposites `MCSerialSplit` and `MCSerialCut` show. Two say what the packets
and their buffer are: `Formed` for the SPI transport (packets are what `_send_command` makes
of a command below 128 and its parameters, and fit into the buffer), and `PageBuffer` (`rx_buffer` has at most 256 bytes, as
`SPI_RX_BUFFER_SIZE` has it) for the driver.

**`SocketTableProofs`**: any number of slots and netconns, every set of read lengths,
any amount of data. From `IInv` follow `TypeOK`, `LiveConnsOwned`, `PncNeverDangles`,
`StateTellsConnect`, `HeldDataIsOwn`, `DeliveredInOrder` and `AnnouncedBytesHeld`. None
is inductive alone. That bytes come in order depends on the held netbuf being the
connection's last, which depends on teardown clearing the offset, which depends on a
slot with a netbuf being one that teardown closes. `IInv` puts this together:

* `SlotInv`, for each slot: a pnc is not free, and is a failed netconn exactly if the
  slot is not in use (`PncInv`); a netbuf belongs to a slot in use and ends where the
  connection's `taken` is, and a slot without one has offset and length 0 (`HeldInv`);
  what was delivered is the stream up to what is held (`StreamInv`); what was
  announced is held (`PromiseInv`);
* no two slots share a netconn, every live netconn has a slot in use, and no netconn has
  handed out more than arrived;
* `WaitInv`: when the loop is blocked, the slot it waits for is connected and holds
  nothing.

Every call but the teardown of all slots writes one slot and at most the netconn
it points at. Lemma `OneSlot` says that then it is enough to put that slot in order
again, `OnePeer` the same for a netconn, and each action's lemma does that.

Four more results rest on it:

* `NagleNoteTrue` and `FlushReleasesWrites`. The note in a slot outlives the connection it
  was made for. That it is right about the next one is inductive over `IInv`: a step
  leaves a slot's note and netconn alone (`SameNote`) or sets both.
* `UndefinedOnlyAfterFault`, for a table with a netconn for every slot. Without a failed
  connect every netconn out of the pool belongs to a slot that is in use; if the pool
  is empty while a slot is about to connect, the netconns are one more than the other
  slots, and two would share one (`EmptyPool`, by the pigeonhole principle).
* `ImplementsSocketService`: initial states map to initial states, and each action to the
  action of `SocketService` it promises or to a stutter.
* What a caller of the table can tell of its own slot and of the others after each call
  (`ReadSeen`, `ConnectSeen`, ...), for `SocketClientProofs`.

**`WifiStationProofs`**: any access points, networks, passwords and names. `TypeOK`,
`ConnectedMeansLeased` and `FailedJoinIsReported`, from `TypeOK /\ ConnectedMeansLeased`:
`FailedExit` and `LastExit` say once what each exit of a join leaves behind.

**`WifiManagerProofs`**: any list of networks and number of attempts.
`RequestOnListedNetwork` and `JoinOnlyWhenDown`. Every step of the manager is a step of
the station or leaves it alone, so that the invariant of `WifiStationProofs` is used
here by INSTANCE; `PlaceInv` adds what the status is where a method stands, `Listed` that
a connected station is on a network of the list.

**`HostLibraryProofs`**, the server: any slots and requests. `TypeOK`, `AnsweredOnce` and
`ServerKept`: `ServerInv` says that the number in the client object is never that of the
server's slot, although it outlives the client.

**`HostLibraryProofs`**, the pins: any pins, objects and duty cycles. `OutputAsWritten` and
`PinsTypeOK`. What an object's pin is like depends on the method's place, as attributes
are set before the commands (`StageInv`); as no two objects share a pin, a step has to put
only one object in order (`OneObject`, `OnePwm`).

**`HostLibraryProofs`**, the driver: any strings, addresses, ports, sizes and data, an
`rx_buffer` of up to 256 bytes, any other buffer, anything left in them.
`HandlerTakesWhatWasMeant` and `OutcomeIsAnswer`. `ExchangeInv` only carries one
exchange through its steps; the work is in what a step of it does to the bytes:

* A byte string is described by what lies where (`Lies`), and not by how it is put
  together. Each packet's layout is a fold over its parameters; `FormedIs` and the
  lemmas before it unroll it for the at most five parameters that occur, so that no
  induction over data is needed. `SendIs`: after `_send_command` the packet on the line
  begins with this layout, although it is written over what `_sendbuf` held.
* `MeantIsTaken`: at the handler's fixed offsets lie the bytes of the call's arguments,
  one case per command; numbers of two bytes come back because both ends order the
  bytes alike, ports and chunk lengths high byte first, sizes low byte first.
* `OneRead`, `ThreeRead`, `NoParamsRead` and `RefusalRead` follow `_wait_response_cmd` through
  the four forms a reply has. That it skips nothing, although start, end and error
  bytes may be among the data, is because each read begins where the last one ended.

`PageBuffer` is needed because `_send_command` keeps a length's lowest byte only
(`adafruit_esp32spi.py` 222): a name of 260 bytes says that it has 4. Such a packet is longer
than `rx_buffer` and dropped (`ShortIs`), so that no handler reads the wrong length. With a
larger buffer `HandlerTakesWhatWasMeant` would fail. `SizesAssumption` and
`NumbersAssumption` say that the numbers of the model fit the fields of the packets.

**`SpiLinkProofs`**: any packets that `_send_command` can form, padded and refused ones too, a
buffer of any size that holds them, any bytes in the padding, waits that run out and resets
at any point. `HandsOff` and `OutcomeIsOwn`. `IInv` claims nothing once `lost` counts; until
then `Driving` (the driver's own state) and one of `InStep` and `Rough` hold. That each command
begins `sound` is therefore no hypothesis but what has to be shown of the state that
the command before it left behind.

* `Handed` says for each place of the host where the dispatcher is and what is in the
  FIFOs, in six cases: nothing is left of an earlier command (`Settled`), the packet
  is not written (`Unwritten`), is being parsed (`Read`), has been answered (`Answered`), and so
  on. They overlap, as the dispatcher may run ahead: it throws padding away as if
  it had been clocked in with the reply, and may be back at its first wait before the reply
  is fetched, when the padding is as long as the reply.
* In `Read` the packet lies in `rx_buffer` up to `ptr` and in the FIFO, with its padding, behind
  (`Split`), and `Within` says that the dispatcher stands where a cut of the packet into its
  parameters has a boundary. The cut (`Cuts`) is a function of which only the steps are
  known, as in `SerialLinkProofs`. That the loop runs as often as there are parameters is
  `Counted` at its first test and the first parameter's length from then on.
* After a padded packet `Rough` says only that the dispatcher waits, whatever part of the
  padding it has thrown away: enough for the outcome, which the host already has, and for
  the next command, which counts as lost.

That answers are the command's own also when the reply wins the race for the ready
pin or the dispatcher is left in an error packet's rest rests on `Settled`, which allows the
latter: then no later select is served, and nothing wrong is handed off.

**`NinaFirmwareProofs`**: `JoinClosesConnections`, `OpenOnlyWhileJoined` and `TypeOK`, and
that the table's and the station's invariants hold under the handlers. A handler's step
is one of the table, of the station or of both; the invariants of the two modules are
used by INSTANCE, and what is left is that each half sees a step of its own or nothing
but a new `ret`. A join closes what is open because `LiveConnsOwned` gives every open
connection a slot that the teardown walks over; that a slot refuses its teardown makes
no difference since `ResetSockets` does not stop at it. `TableAssumption` and
`StationAssumption` say that the constants are what the two modules assume.

**`SocketClientProofs`**: any number of objects, any sizes and line ends.
`FirmwareNeverBlocks`, for any program: between the answer to `available` and the read no
other command runs, so that the bytes announced are still promised at the read
(`ReadInv`), and the table's `PromiseInv` says that promised bytes are held. `SlotsAccounted`
rests on `OneEach` (each object has a slot of its own, and while the firmware is up each
allocated slot an object), `StreamUnbroken` on `Streams` (what an object has got, in its
buffer, in the running method and returned, is what its slot has delivered): a step
delivers to one slot and adds the same bytes to one object. `TableAssumption` and
`ObjectsAssumption` say what the constants are.

**`SerialLinkProofs`**: any packets no longer than the buffer, any buffer up to 65535 bytes (what
the two bytes of a length can say; the code's has 256), any number of exchanges
and of kills. `HandsOffRequests`, `ReplyIsOwn` and `TypeOK`. Between
the host and the handlers lies a line of bytes, those on their way and those received
(`Line`). `IInv` cuts it into the frames of the packets that are not executed yet
(`Framed`); the dispatcher stands somewhere in the first, and its place, `remaining`,
`bytes` and the head of `rx_buffer` say where (`Reached`). The cut is a function of which
only the steps from one frame to the next are known, so that a list of frames needs no
recursion. Bytes that arrive do not change the line; a read takes bytes off its head
and moves every cut down (`Shifted`); a write adds a frame at its end (`Longer`). A host that
was never killed has its reply, waits for the dispatcher at its last packet, or has the
rest of the reply before it (`Exchange`). `PacketsAssumption` says that a packet's code has
no reply flag and determines its length, as the driver's `cmd & ~_REPLY_FLAG`
(`adafruit_esp32spi.py` 213) and the handlers' fixed offsets have it.

Checked by TLC and not proved: liveness (`Answered`, `CommandEnds`, `CallsReturn`,
`EveryNetworkTried`, `ConnectEnds`, `PollReturns`, `ServerProgress`), which is out of this
prover's reach. Everything else the passing runs check is a theorem as well.

## What is not modelled

* Slot number 10, which every bounds check lets through (`src/wifi-api.cpp` 297),
  command code 0x55, for which `handler_for` reads past its table
  (`src/handlers.cpp` 414): they touch memory whose contents no model has.
* The refill of the SPI FIFOs by the interrupt handler: it is the work of the SDK's
  `USI_SSI_SendData`, which the repository knows from a comment only
  (`src/spi-dispatch.cpp` 121). In `SpiLink` packets and replies fit into a FIFO.
* `wifi_api_last_error`, written in many places and never read; failures of
  `wifi_api_setup`, whose result `setup` ignores.
* UDP, TLS, AP mode, scanning: the firmware has no handler and answers with the error
  packet (`NoHandler`). `set_certificate`, `set_private_key` and `getaddrinfo` of the host.
* A send that the firmware performs in part (`adafruit_esp32spi.py` 695): the contents of
  what is sent are not in `SocketClient`.
* Digital and analog reads: their version check fails with this firmware's version.
* Debug output, the colours of the status pixel, `repr`s, the manual test script.

## Plan

1. Done: all components as far as listed above, and the proofs of every safety property
   that a run checks.
2. Model: an abstract request-reply link that `SerialLink` and `SpiLink` implement, over
   which `SocketClient` and `WifiManager` could then run.

# WifiSniffer: a TLA+ model

WifiSniffer turns an ESP32 into a network tap: it puts the radio in promiscuous
mode, filters the frames it hears, and streams them over TCP to Wireshark as a
pcap file. An earlier generation of the tool, an Arduino sketch, sends the same
file over a serial port. This directory holds TLA+ modules for the parts of both
(`src/Esp32Sniffer`, `src/ArduinoWifiSniffer`) whose correctness depends on the
order in which several tasks run, on failures of the network and of the power, or
on case analyses that
are easy to get wrong; TLC configurations that check them on small instances; and
theorems about them with proofs checked by TLAPS.

## 1. The system

| component | state | operations | interacts with |
|---|---|---|---|
| glue, `main/main.c` | `_sock` | `on_socket_accept_handler`, `on_start_capture`, `on_capture`, `setup` | called by the TCP server and by the sniffer tasks; calls both |
| sniffer, `wifi_sniffer.c` | `xHandle_sniff`, `_packet_queue`, promiscuous mode, filters and `_filter_sem` | `sniffer_start`, `sniffer_stop`, `sniffer_task`, `wifi_sniffer_packet_handler`, `sniffer_set_*` | the wifi driver calls the packet handler from its own task |
| `capture_lib.c` | the two capture callbacks | `capture_start`, `capture_on_send`, `capture_create_pcap_record`, `hex_to_byte_array` | between sniffer task and glue |
| `tcp_server.c` | the descriptors of lwIP | accept loop, `onSend`, `disconnect_socket` | calls the glue when a client is accepted |
| filter command, `console_sniffer_cmd.c` | none | `filter -s -f -r` | runs in the console's task, calls `sniffer_set_*` |
| `nvs_lib.c` with `wifi_sniffer_nvs.c`, `wifi_lib_nvs.c` | flash, one handle per call | get and set of numbers, names and filters | called by the main, console and button tasks, with and without the filter mutex |
| `wifi_lib.c`, `wifi_lib_nvs.c`, `console_wifi_*` | network interface, event group, saved network | `wifi_ap`, `wifi_sta`, static IP | console task, main task, event loop task |
| event loops, `wifi_sniffer.c`, `wifi_lib.c`, handlers in `main.c` | two queues of 20 events, the display | `sniffer_post_event`, `wifi_lib_post_event`, `sniffer_display_filter` | driver, sniffer tasks, console, button and main task post; two tasks handle |
| Arduino sniffer, `main.cpp`, `Sniffer.h` | `start`, `outType`, two filters, the channel, the line's buffer | `read`, `signal_start`, `loop`, `packet_cb` | loop task and wifi task write to one serial line |
| console, led, lcd, oled, serial libraries | none that matters | input and output | |
| Java bridge, Python scripts | byte streams | copy serial data | |

What is hard:

* **Interleaving.** The accept task, every sniffer task, the driver's task, the
  console, the button and the main task share `_sock`, `xHandle_sniff`, the
  radio's mode and the RSSI filter with no lock at all. A second client starts a
  second sniffer task and nothing stops the first.
* **Failure.** `write()` may fail, break after a part, send a part and report
  success, or report success for a client that is gone. A descriptor's number is
  reused by the next `accept()`. `xTaskCreate` may run out of memory.
* **Order.** The queue holds its records between sessions; the console runs before
  the mutex exists, and clients are accepted before the queue does; the saved
  filter is read before the mutex is taken; a filter is half written while the
  driver's callback compares with it.
* **Limits.** A post to a full event queue waits 10 ms and is dropped, a packet for a
  full packet queue too; flash has no space; a name grows between the call that
  asks for its length and the one that reads it.
* **One line, two writers.** On the Arduino, the commands' replies, the file header and
  the records share a serial line, and a command may follow another before that
  has been read.
* **Crash.** A filter is set in RAM and then committed to flash; power may be lost
  between the two, and a wrong hex digit or a full flash makes `ESP_ERROR_CHECK` abort
  there.
* **Waiting.** A switch of the wifi mode waits without a time limit for a bit that
  another task sets, and handlers of the event loops read the network interface
  that the switch destroys.
* **Case analysis.** Where source and destination stand in a frame depends on its
  type, its subtype and two bits.

What makes each part correct:

* *Capture path*: every client gets a well-formed pcap stream of consecutive
  records; none is delivered twice; a failed write ends the session in full; no
  descriptor leaks; the radio listens only while somebody drains the queue.
* *Filter configuration*: what the user was told is set survives a loss of power,
  RAM and flash agree, the mutex is given back, the device boots once the Wi-Fi has
  started.
* *Packet filter*: the station the user asked for is captured; the device's own
  stream, which carries the capture itself, is not, as long as the device has the
  address of its boot.
* *Records*: a record holds its frame without the check sequence, cut at the
  snapshot length, and nothing from beyond it; its time is the driver's.
* *Settings*: a read gives a value the setting had, a save that returned survives, no
  handle stays open, and a call fails only for a reason that can be named.
* *Events*: the display shows the filters in force.
* *Serial capture*: a capture started with care is a pcap file, and the host's commands
  are obeyed however fast they come.
* *Wi-Fi*: the device runs the mode, network and address that it will run after a
  restart, on the one interface that exists; no task uses an interface after it was
  destroyed; no switch waits for ever.

## 2. Modules

| module | models | composed with |
|---|---|---|
| `PcapFeed` | the abstract promise of the capture path: one reader at a time, a header, then consecutive records, with gaps only where the queue was full | |
| `CaptureSession` | accept task, sniffer tasks, driver's callback, queue, sockets | implements `PcapFeed` (`FeedSpec`) |
| `SnifferConfig` | filters in RAM and flash, mutex, boot, console, button, power | |
| `PcapRecord` | the record made of a packet, as operators | |
| `PacketFilter` | the driver's callback: whether a frame is captured, and its record | extends `PcapRecord` |
| `WifiLib` | mode switch, network interface, driver's events, saved settings, boot, console, power | |
| `SnifferEvents` | the sniffer's event loop, all that post to it, the handlers that print the filters, the boot from the TCP server on | |
| `KeyValue` | the abstract promise of the settings: a store whose reads and saves are atomic and whose saves last | |
| `NvsLib` | the accessors of `nvs_lib` and their callers, call by call, with a full flash and power losses | implements `KeyValue` (`KeyValueSpec`) |
| `SerialCapture` | the Arduino sniffer: loop task, wifi callback, serial line, host | |
| `CaptureSessionProofs`, `OneClientProofs`, `SnifferConfigProofs`, `PacketFilterProofs`, `WifiLibProofs`, `SnifferEventsProofs`, `NvsLibProofs`, `SerialCaptureProofs` | theorems and their proofs | extend the module they are about (`OneClientProofs`: `CaptureSessionProofs`) |
| `MC*` | small instances for TLC | extend the module of the same name |

`CaptureSession` and `PacketFilter` meet at the queue: what `PacketFilter` captures is
what `CaptureRecord` puts into the queue, as a number. `SnifferConfig` and
`PacketFilter` meet at the filters: `DataBySource` needs an RSSI filter that is not
0, and `RssiFilterOn` says that `SnifferConfig` never sets one. `ConfigWifi` of `SnifferConfig`
and `SwitchMode` of `PacketFilter` are the boot and the switches of `WifiLib`. `SnifferConfig` saves a filter
in one step; `NvsLib` is what that step is made of, and `KeyValueSpec` says that it may
be taken for one. `SnifferEvents` has the setters of `SnifferConfig` with the event that
follows them, and the sniffer task of `CaptureSession` reduced to the events it
posts; a filter half written and a mutex that has to be waited for are left to
`SnifferConfig`, what clients get to `CaptureSession`.

### CaptureSession

A step is one access to shared state. `Accept`, `DisconnectOld`, `SetSock` and
`CreateTask` are the accept loop with `on_socket_accept_handler`. A sniffer task goes
`init` (promiscuous mode on, `capture_start`), then for the header and for every
record `check` (`if (_sock)`), `load` (the argument of `onSend`, a second read of
`_sock`), `send` (`write()`, five outcomes), and after a failure `close`, `clear`
(`_sock = 0`), `deinit` (promiscuous mode off), `delete`. `vTaskDelete` ends the
task that `xHandle_sniff` names; when that is not the caller, the caller goes on
with its loop. `CaptureSession` starts with the queue and the callbacks in place;
what a client meets before that is in `SnifferEvents`. Deleting a task twice is
undefined; `ub` records it and the model stops. `CaptureRecord` and `AddQueue` are the driver's callback and `xQueueSend`.

`owner` is lwIP's table of descriptors, `peer` what the client has done, and
`stream` what it was sent: `Hdr`, record numbers, and `Frag` for a part of an
item. Descriptor 0 is the console. Record contents, the LCD output that follows
a send, and the events posted for the display are left out.

### SnifferConfig

`sniffer_set_filter` is `TakeSem`, `BeginSetRam`, `SetRam`, `SaveFilter`, `GiveSem`; between
the two assignments, of size and bytes, the filter is `Torn`.
`sniffer_set_rssi_filter` is `SetRssi`, `ReadSavedRssi`, `SaveRssi`, with no lock.
The main task (`setup`, `sniffer_init_config`), the console task
(`console_sniffer_filter`: source, frame type, RSSI) and the button run them.
Three things start the device again with its flash: `Abort`, an assertion that
fails whenever the code gets there; `Fault`, what may happen a bounded number of
times: a call that fails under `ESP_ERROR_CHECK`, such as a save to a full flash; and
`PowerLoss`, which is a fault at any step. `ConfigWifi` is the whole of
`config_wifi_init`, which `WifiLib` has in detail: it may never return, or abort. A
commit of NVS is atomic, which is what that library promises.

Where C defines nothing, `Undefined` sets `ub` and the model stops. That is so for an even
number of more than 12 digits, which `hex_to_byte_array` writes behind the six bytes
of the address (`OverrunArg`), and for a wrong digit: the filter then has size
`(size_t)-1`, the model value `Broken`, and `nvs_bytes_to_hex` counts up to it with an
`int` while the mutex is held (`CountTooFar`). Where the count comes round, NVS refuses
the size and the device aborts (`SaveFilter`). The events posted to the display are
left to `SnifferEvents`. `ToInt8` is the conversion of the typed number to 8 bits.

`Packet` and `Compare` are the driver's callback, which takes the mutex, gives it back
at once and then compares; `driver` remembers whether a task has begun to write a
filter meanwhile. `calm` says that since the last restart commands and clicks came
one at a time and after the boot; two properties are about calm times only.

### PcapRecord and PacketFilter

`Parties` gives the pair of addresses the code compares, from the packed structs of
`wifi_sniffer.h`; `OwnCandidates` and `FilterCandidates` which of them are compared
with the device's own address and with the user's filter; `Captures` is the whole
decision. A filter does not change while a frame is compared with it; how far that
is true is `JudgedWhole` of `SnifferConfig`. `own` is `addr_own_mac`, which `setup` reads once
(without an interface it is whatever was on the stack), `address` what the device has
now, and `SwitchMode` gives it another.

`capture_create_pcap_record` subtracts the frame's check sequence in the 12 bits
of `sig_len`, adds the two radiotap parts, cuts at `SnapLen`, and splits the
driver's microseconds. The bytes of the frame and the values inside the radiotap
parts are left out.

### WifiLib

A step is one access to the driver, to flash, to the event group or to `_esp_netif`.
`wifi_ap` and `wifi_sta` run as `LoadSetting` (what the command does not give comes
from flash), `StopWifi`, then `GetOld`, `FreeOld`, `ClearPointer`
(`destroy_net_if`), `Configure` (`wifi_set_conf`), `CreateNetif`, `SetPointer`,
`StartWifi`, then for AP mode `SaveMode`, `SaveChannel`, `SaveSsid`,
`SavePassword`, `WaitStarted` and the static address, for station mode
`WaitStarted`, `Connect` and `SaveMode`. The static address, which `set-ip` sets
too, is `GetForIp`, `StopDhcp`, `SetIp`, `StartDhcp`, `SaveIp`, `SaveGateway`, `PostGotIp`; `Report` is
the log of the address in use, at the end of `wifi_ap` and, at boot, of
`wifi_set_mode`. The same steps are taken by the console task and, while it
boots (`WifiInit`, `ReadMode`), by the main task.

`Accepted` is what `esp_wifi_set_config` takes: name, password and channel within its
limits, the channel cut to a byte before (`ToByte`). A configuration it does not take
is replaced by the defaults of menuconfig, saved all the same, and its error is
dropped; `refused` records that. A new interface comes with `NewAddress`. Every save and
every DHCP call may fail, which aborts.

`HandleEvent` is `wifi_event_handler` and `ip_event_handler` in the default loop,
which set the start bit and post to wifi_lib's own loop; `GetForDisplay` and
`Display` are the handler of that loop, which reads the interface and then uses
it. An interface is a record with a number that is never given again, so a
pointer to one that was destroyed can be told from one to its successor. Using or
destroying a destroyed interface sets `ub`, and the model stops; so does a password
longer than the buffer that the saved one is copied to (`SavePassword`, `PrevSize`). A failed
`ESP_ERROR_CHECK` is `Abort`.

### SnifferEvents

`Change`, `SetAddr2`, `SetRssi`, `SaveFails` and `Post` are a task that sets a filter, saves it or
aborts, and posts its event; `Create`, `SetOwnMac`, `PostIsUp`, `RestoreRssi` and `RestoreAddr2` are `setup` from the TCP server on and
`sniffer_init_config`, where `boot` names what exists already. `Accept`, `StartCapture` and
`Receive` are a client and its task, which abort when the packet queue is not there;
`QueueFull` is the driver's callback that finds it full. `HandleEvent` is the sniffer's
loop, `WifiNews` an event of wifi_lib's loop; both handlers print the filters, reading
one after the other without a lock (`ReadAddr2`, `ReadRssi`, `Show`). A post to a full queue
waits 10 ms: it is the step when there is room, or drops the event. `missed` and `late`
record the two ways in which the display stays behind. What the led and the LCD do
with an event is left out, and so is the layout.

### KeyValue and NvsLib

`NvsLib` has the calls of the accessors that something calls: `nvs_get_num32i`,
`nvs_get_string`, `nvs_get_array` and the setters of each. A read opens (`OpenNumber`, which
makes the namespace, or `OpenToRead`, which does not), asks for the length, reads and
closes; a save reads first and goes on with `OpenToWrite`, `SetValue`, `Commit` and
`CloseAfterSet` when the value differs, where names differ only over the length of the
new one (`Alike`). The main task makes `BootCalls`, users what `UserCalls` gives them. What the
NVS library does is external: a value set and not committed may or may not be on
flash (`disk`), and setting or opening for writing may find no space. `nvs_get_string` goes
on with a handle that was not opened (`garbage`); the model has the library refuse
it, which ends in an abort like every other failure.

In `KeyValue` a call is asked, takes effect in one step and is done; the mapping is `StageOf`
and `AnswerOf`. A save under way when the power fails has happened or not.

### SerialCapture

The loop task takes an op code (`Stop`, `Start`, `TakeArgument`, `Unknown`, `NoBytes`), then what the
command needs: `WriteHeader` and `Started` (`signal_start`), `SetChannel`, or `AddressByte`,
`AddressRead` and `SetFilter`, then `Hop`. The wifi task's `packet_cb` compares the two addresses
(`Packet`, `Second`), logs (`Display`), looks at `outType` (`ChooseType`) and writes a record in
`RecordParts` writes. `Flush` is the C library emptying the buffer of `printf` at any time.
`view` is what a reader makes of a capture started with care: when it was off, with
no record under way, no text waiting, in binary mode; it may expect a header, a
record, or be `Broken`. `hasty` says that the host sent a command right after an address
of fewer than six bytes, which `readBytes` then swallows. Commands are sequences of
pairs of characters. A host does not write more than the receive buffer of the line
holds (`Room`); what one that does would lose is left out, and so are the contents of
records and the TFT.

### What WifiLib leaves out

The network a station joins is left out: it is never saved, and nothing in this
module depends on it. So are the country, the DNS address, and names that do
not fit the console's buffers.

## 3. Runs

| run | instance | shows |
|---|---|---|
| `one_client` | 2 clients one after the other, 4 records, queue of 2, fairness | each stream is what `PcapFeed` promises, a session leaves no trace, the header is sent, a failure ends the session, the queue is drained |
| `takeover` | 2 clients that overlap, 3 records, queue of 2, short writes | what survives: no duplicate, order of the queue, no write into an earlier client's connection, idle radio |
| `takeover_format` | 2 overlapping clients, 2 records | finding: the stream of the second client is no pcap file |
| `short_write` | one client, short writes | finding: a cut item in a live stream |
| `config` | 2 commands or clicks at any time, packets, 1 fault (loss of power or a failing call), a flash with or without an RSSI filter of 0, fairness | the address filter under the mutex, what the callback compares with, acknowledged filters survive, an RSSI filter that is never 0, the mutex is given back, the device boots if `config_wifi_init` returns |
| `packet_filter` | addresses of 2 bytes with 2 values, two of them the device's, all filters, all frames, 4 samples of length and time | the decision, with a switch of mode before it, and the record |
| `wifi_quiet` | 2 commands after the boot, refused, odd and too long settings among them, events of stations, 1 loss of power, failing calls at any step, fairness | one interface, what runs is what is saved, no task uses a destroyed interface, every switch returns |
| `wifi_storm` | 2 commands at any time, events of stations, an event queue of 1 | when `_esp_netif` may name a destroyed interface |
| `wifi_wait` | one command after the boot into AP mode | finding: the wait for AP mode does not wait |
| `events` | 1 change by the console, 1 client, 1 event of wifi_lib, a queue of 2, all of them also during the boot, fairness | the display shows what is in force but for two named reasons, a change is shown, also with saves that fail |
| `nvs` | console and button, 2 calls at any time, 1 loss of power, an empty or a filled flash | refinement of `KeyValue`, committed settings, closed handles, reasons of failures |
| `serial` | a host that sends 3 commands at any time, 3 kinds of packets, fairness | whole captures, commands obeyed and taken, packets filtered, channel hopping; no deadlock |

**Bounds.** Two overlapping sessions are enough for every pair of tasks to meet
at every step, and a client that leaves gives its descriptor to the next. Three or
four records are enough for a queue that is full, one record in the callback's
hands and one in a task's. Two bytes with two values give addresses that share a
prefix and differ after it, and filters of every length from none to all. The
samples of lengths lie on both sides of the snapshot length, those of times on
both sides of a full second. Two commands and a loss of power let a command meet
the boot, another command, and a crash at every step of either; the commands of
`SnifferConfig` include the numbers 256 and 200, which 8 bits do not hold, 14 digits and a
wrong one. In `WifiLib` the switch of the boot and two commands are enough for AP,
station and AP again, which creates the second interface of a kind, or for two
settings after each other, and the switch of a restart for what was saved of them;
names that are accepted have at most two characters, a password needs two
(`MinPassword`, 8 in the driver) and overflows with three (`PrevSize`, 32), so that one name is
the beginning of another, and one name, one password and one channel are refused;
channel 258 is a channel only as a byte. `MaxPosted` is 1 or 2 where the code has 20: the
properties do not depend on it, and a full queue is met; so it is in `SnifferEvents`,
where main task, console, sniffer task and callback fill a queue of 2, and two changes
(one is the restore at boot) already overtake each other. `NvsLib` needs two
users, besides the main task, for two that save the same number while the main task
reads it, and one power loss for a boot on what the first run left; its values include
two of different length, so that a name grows while it is read, and one that is the
beginning of another. Three commands let `SerialCapture` start a capture, disturb it, and swallow a
command into a short address; its addresses are all alike but in their first byte
so that a filter of one byte tells them apart, and an address that the host cuts
short is among the commands.

The largest runs have 3,145,920 (`packet_filter`), 1.8 million (`wifi_storm`), 967,258
(`nvs`), 836,931 (`events`), 825,399 (`serial`), 519,600 (`config`) and 376,740
(`wifi_quiet`) distinct states.

**Type invariants** are theorems (§5).

**Deadlock** is checked in `serial`, whose loop never stops. The other programs may
wait for ever for a client, a command or a packet, and a bounded run ends when its
bounds are used up; what must not wait there is stated as liveness.

**One client at a time** (`OneClient`): the well-formedness of streams does not hold
without it, as `takeover_format` shows. It is how the tool is used (one Wireshark).

**A patient user.** In `wifi_quiet` (`EarlyCommands = FALSE`) commands are typed when the device
has booted, one after the other as the console has them. Events are not restricted:
those of stations, and those that the switch itself causes, may be under way at
any step. `OneNetif`, `InForceIsSaved`, `TasksUseLive` and `SwitchReturns` need commands after
the boot: §4 tells what happens without it. `SnifferConfig` restricts nobody: `AckedKept` and
`RssiAgrees` say themselves (`calm`) which commands they are about.

**Fairness.** FreeRTOS schedules every ready task, so each sniffer task, each step of
the accept handler and the callback's `xQueueSend` is weakly fair; `SendFails` and
`SendWhole` are alternatives of one `write()`, which returns. Nothing is assumed
of clients, users and the radio: connecting, leaving, typing, clicking and
capturing are never forced. In `SnifferConfig` and `WifiLib` a task's steps are fair
together, and so are those of each event loop; stations, users and the power are
free, and the number of power losses is bounded. `ConfigWifi` has no fairness, since
`config_wifi_init` waits without a limit: `BootFinishesAfterWifi` assumes that it
returns each time. There commands and faults come finitely often, by their bounds: a
user or a client that comes too early in each boot can make each abort. In `SnifferEvents` each task that sets
or posts, the boot, the event loop and each handler are fair; clients, packets and
users are not. In `SerialCapture` the loop task is fair, since `loop()` is called again
and again and its waits for bytes end after a second; the wifi task and the host
are free. `NvsLib` states only safety.

**Faulty variants.** Each module holds variants of some steps that a plausible slip
would leave (a forgotten reset, a wrong bound, a dropped write). Every property is
violated when one of them takes the place of the real step.

## 4. Findings

1. A client that connects while another's session runs can get two headers or a
   record before the header (`takeover_format`, `main.c:47`). Overlap is the only
   cause: `StreamsWellFormed` (§5). Even then nothing goes to an earlier client
   (`OwnOrLater`) or twice (`AtMostOnce`).
2. A short `write()` counts as success and leaves a cut item in the stream
   (`short_write`, `tcp_server.c:54`), although the comment above the function warns
   of it. Short writes are the only cause: `OnlyShortWritesTear`.
3. The start bit is never cleared, so from the second switch to AP mode on
   `wifi_ap` does not wait for the access point (`wifi_wait`, `wifi_lib.c:482`).

Met while modelling, without a run of their own:

* `filter -s` accepts any even number of digits (`console_sniffer_cmd.c:15`): more than 12
  are written behind the address, over what follows it on the stack. The limit of 12
  is looked at for odd numbers only (`console_sniffer_cmd.c:22`).
* A wrong hex digit gives a filter of size `(size_t)-1`: `nvs_bytes_to_hex` counts up to it
  with an `int`, while the mutex is held (`nvs_lib.c:25`), and if that ends NVS refuses the
  size and the device aborts (`wifi_sniffer_nvs.c:29`), also one that has long booted. A
  full flash aborts it too, at every save.
* A frame type set before `config_wifi_init` has initialised the driver aborts
  (`wifi_sniffer.c:508`).
* The device's own address is read once, at boot (`main.c:334`). After `set-ap` or `set-sta`
  has changed the mode it has another one, and its own stream passes the filter and
  is captured, and streamed again. A PS-Poll frame to the device is captured at any
  time, since only its sender is compared (`wifi_sniffer.c:326`).
* A name that is the beginning of the saved one is taken for unchanged and is not
  saved (`wifi_lib_nvs.c:62`); `Alike` and `SamePrefix` have it.
* A client that connects before `sniffer_init_config` has created the queue makes
  `xQueueReceive` assert and the device restart (`main.c:331`); so does a filter set
  before the mutex exists (`wifi_sniffer.c:81`).
* `wifi_lib`'s handler may print filters it has read earlier over newer ones
  (`main.c:166-176`): `late` in `DisplayFresh`.
* `nvs_get_string` and `nvs_get_num` go on with a handle that was not opened when there is
  no namespace (`nvs_lib.c:522`): a name that a command reads in the very first boot.
* A signal of -50 or -51 gets the color of the weakest on the LCD (`main.c:87-94`).
* Arduino: the header of the capture that runs from power-on is lost, since it is
  written before there is a callback (`main.cpp:146-151`). S1, OT and OB write a
  header into a capture that runs (`main.cpp:110`). `filterChannel` prints on the line of
  the capture (`main.cpp:170`). A command that follows a short address at once is
  taken for the rest of it (`main.cpp:292`). The microseconds of a record are
  `micros() - millis() * 1000`, which is less than 1000 (`main.cpp:73`).
* Java bridge: a short read leaves it between two records (`SerialCtrl.java:51`).
* `filter -r 200` sets -56: the argument is cut to 8 bits before its sign is
  checked (`console_sniffer_cmd.c:103`).
* With no filter, CF-End, trigger and wrapper frames are still dropped
  (`wifi_sniffer.c:351`).
* `sniffer_set_rssi_filter` has no lock: overlapping setters leave RAM and flash with
  different filters (`wifi_sniffer.c:233`).
* A loss of power between the commits of address and gateway leaves the new
  address with the old gateway (`wifi_lib_nvs.c:270`).
* A name, password or channel that the driver refuses is saved while the default
  configuration is in force (`wifi_lib.c:288`); both callers drop the error. A name of
  more characters than the MAC's bytes leave room for is refused, and a channel is
  cut to 8 bits first, so that 257 is channel 1 (`wifi_lib.c:467`).
* A password of more than 32 characters, which WPA allows, is compared with the saved
  one in a buffer of 32 (`wifi_lib_nvs.c:76`), with a length that is that of the new one.
* The static address is set with the DHCP server stopped (`wifi_lib.c:107-109`), while the
  driver's handler of the start event, which `wifi_ap` does not wait for from the second
  time on, starts it too: the second call may fail, and aborts.
* The display's handler uses the interface it has read while a switch destroys it
  (`main.c:167-177`, `wifi_lib.c:402-465`). The events may be those of the switch's own
  `esp_wifi_stop`. `TasksUseLive` says that only this handler can.
* `set-sta` typed while the boot switches to AP mode may leave the boot waiting
  (`wifi_lib.c:511`).
* A stream of more than 71 minutes goes back in time, since the driver's clock has 32
  bits (`capture_lib.c:90`).

## 5. Proofs

The theorems hold for every value of the constants that satisfies the assumptions
`ConstantsAssumption`, `ConfigAssumption`, `RecordAssumption`, `FilterAssumption`,
`WifiAssumption`, `EventsAssumption`, `NvsAssumption` and `SerialAssumption`. These are typing
facts, in `SnifferConfig` that flash holds no positive RSSI filter at first, in `WifiLib` that the
driver accepts the settings of menuconfig, and in `SerialCapture` that a command has the shape that `loop()` reads: an op
code alone, one with a channel number, or one with at most the bytes of an address. What a theorem assumes besides is named in its statement.

| theorem | says | argument |
|---|---|---|
| `TypeCorrect` | `CaptureSession!TypeOK` | inductive as it stands |
| `RadioOff` | `IdleRadioOff` | not inductive: a task may end while the radio is on. `RadioInv` adds that the task which the handle names, the only one that can be deleted, then leaves another one alive |
| `Delivery`, `QueueOrder` | `AtMostOnce`, `QueueInOrder` | `DeliveryInv` adds that what was sent or queued is older than what the callback holds, and `HeldInv` that what a task holds is older than the queue, not sent, and held by no other task; `QueueRecord` and `TakeRecord` are the moves of a record |
| `NeverAnEarlierClient` | `OwnOrLater`, for any number of clients at a time | `ReachInv`: `_sock` never names a connection from before the newest task, and `newSock` none from before the client whose task is not created yet; so what a task has read from `_sock` stays its own, a later one or closed, since a descriptor only passes to later connections |
| `OnlyShortWritesTear` | `WholeItems`, for any number of clients at a time and `~ ShortWrites` | `WholeInv` adds that a connection that does not exist yet has no stream and no descriptor; `WholeAppend` is one item more in a stream that ends whole |
| `OneSessionAtATime`, `NoDescriptorLeaks` | `OneSession`, `NoFdLeak`, for `OneClient` | `SessionInv`: where the accept task is, which task may live, whose descriptor `_sock` is at each of its steps, and that `_sock` never names the connection just accepted before that is stored |
| `FeedImplemented` | `FeedSpec`, for `OneClient` and whole writes: `CaptureSession` refines `PcapFeed` | `FeedInv`: a task that is about to send holds a record younger than all that was sent, and every record after it is queued, in the callback's hands or was dropped, so that what is missing in a stream is what `PcapFeed` allows; one lemma per step of the task |
| `StreamsWellFormed`, `NothingLostWithin` | `PcapFormat` and `NoGaps`, for `OneClient` and whole writes | what `PcapFeed` promises, carried over by the refinement: the format is an invariant of `PcapFeed`'s own steps |
| `FailureLeavesNothing` | the safety half of `FailureEndsSession`, for `OneClient`: a task that is gone leaves no descriptor of its client, and until the next client no `_sock` and no promiscuous mode | `OwnerInv`: whose connection is open at each step of the accept task, together with `SessionInv` and `IdleRadioOff` |
| `StaleRecordsBounded` | `StaleBounded`, for `OneClient` | `StaleInv`: the set of old records that are in the stream or can still reach it has at most one more than the queue holds when a client connects, and only shrinks; finite-set cardinality turns it into the number of places |
| `ConfigTypes` | `SnifferConfig!TypeOK` | `Typed` adds that a task that carries a filter carries a valid one |
| `FilterAgrees` | `Addr2Agrees` | `AddrInv` adds mutual exclusion and that only a task between `SetRam` and `SaveFilter` makes RAM and flash differ |
| `AcknowledgedKept` | `AckedKept` | `AckInv`: flash holds the acknowledged filter, or, once saved, the one that the running command sets |
| `RssiFilterAgrees` | `RssiAgrees` | `RssiInv`: while times are calm, RAM differs from flash only inside one setter |
| `RssiFilterNeverZero` | `RssiFilterOn` | `RssiOnInv`: RAM and every value between its conversion and its save are negative, and from the save of the boot on flash is, also when it held a 0 |
| `PacketsJudgedWhole` | `JudgedWhole` | `DriverInv`: a filter is `Torn` only while a task holds the mutex and stands between the two assignments, and that task has turned `alone` into `overlapped` |
| `SemHeldWhileSetting` | the safety half of `SemGivenBack`: the mutex is held exactly by the task between taking and giving it | `HolderInv`, over every path through the setters and the restart |
| `ShorterLosesNone`, `OwnStreamNotCaptured`, `DataExact` | the decision, for addresses of any length over any bytes | `Decided`: the recorded decision is that of `Captures`; lemmas on prefixes and on the addresses compared. `DataExact` assumes that 0 is no RSSI filter, which is `RssiFilterNeverZero` |
| `RecordExact`, `TimesExact` | `RecordHoldsFrame`, `TimesInOrder`, for every snapshot length of the configuration | the record is a function of the packet; linear arithmetic on quotient and remainder |
| `PointerNeverStale` | `DanglesBriefly`, also when commands, boot and events overlap | `PointerInv` adds `Known` (the pointer and what tasks hold were created) and `Private` (an interface just created is held by one task only) |
| `WifiTypes` | `WifiLib!TypeOK` | `DataInv`, in parts by variable; `Allowed` is what is known of the settings of a task at each step, so that no option that was not given reaches driver or flash |
| `OneInterface`, `TasksKeepToLive` | `OneNetif`, `TasksUseLive`, for `~ EarlyCommands`, with any events under way | `PatientInv` (theorem `Patience`): one task at work at a time, and `Shape`: which interfaces exist and which that task holds at each step |
| `SavedIsInForce` | `InForceIsSaved`, for `~ EarlyCommands`, with refused settings too | `ForceInv` on top of `DataInv` and `PatientInv`: `Progress` says at each step of a switch how much of what is in force is saved already, so that a restart there is one of a valid setting |
| `StartNeverLost` | the safety half of `SwitchReturns`, for `~ EarlyCommands`: a task that waits for the driver has its bit set or the event that sets it in the loop | `StartInv`: the driver is off when a mode is started, so a start posts its event, and bits are never cleared |
| `EventsTypes` | `SnifferEvents!TypeOK`: the queue is never longer than its size | inductive as it stands |
| `DisplayStaysFresh` | `DisplayFresh` | `FreshInv`: what a handler has read so far is in force unless a change is due; that is why reading without a lock is enough |
| `NvsTypes` | `NvsLib!TypeOK` | `Typed` adds what each step carries and how the main task's call fits the boot |
| `SettingsStay`, `NoHandleLeak` | `Committed`, `HandlesClosed` | inductive with `Typed`; `NothingOpen` for handles |
| `ReadsFailForAReason` | `FailuresExplained` | `Excused`: who holds a handle that was not opened, and that a length read under the mutex stays right; `FirstReadDone`: the first setting read makes the namespace |
| `KeyValueImplemented` | `KeyValueSpec`: `NvsLib` refines `KeyValue` | `SpacesHold`: a key that has a value has a namespace, so that a read without one may answer the default; `CallStage` maps each call of the library to a step or a stutter |
| `SerialTypes` | `SerialCapture!TypeOK`: filters are made of hex bytes | six parts, one per group of variables |
| `CommandsObeyed`, `PacketsFiltered` | `Obeyed`, `Filtered`, for any commands of the shapes above | `Served` and `RadioFollows`, see below |
| `CarefulCaptureIsWhole` | `CaptureWhole` | `Readable`: the reader of a capture started with care is as far as the writer, and header and record exclude each other because `start` is set last |

**The invariant of `SerialCapture`.** `wanted` changes when the host sends a command, the
filters when the loop task has read it, and in between there may be any number of
commands, so no relation between `wanted` and the filters alone is inductive. `Served`
says that, unless the host was `hasty`, there is a log of the commands that it sent
(`cs`), of where each begins (`at`) and of what was wanted before each (`ws`), with
`m` the command in hand:

* `Chained`, `Ordered`: each command begins where the one before ends, and turns what was
  wanted before it into what is wanted after it; the last of them is `wanted` itself.
* `AllUnread`: what the inbox holds are the pairs of those commands not read yet.
* `ShortLast`: only the last can be a short address, or else the host was hasty.
* `FiltersKept`: if no address is among the commands from one on, the filter wanted
  there is the one wanted now.
* `Applied`, `Place`, `InHand`: the loop task's variables are what was wanted before the
  command in hand, and `arg` is what it has read of it.
* `Judged`: while a packet is judged that came to settled filters, no address waits,
  and the packet has passed the comparisons it has behind it.

The log is a witness in the invariant, not a variable, so that the model needs no
history. When the inbox is empty and the loop task reads, the log is empty too, and
`Applied` is `Obeyed`; `RadioFollows` is its last conjunct. No induction over the inbox is needed,
since a step touches only an end of the log.

**Only model-checked**: the liveness properties (`HeaderSent`, `FailureEndsSession`,
`QueueDrained`, `SemGivenBack`, `BootFinishesAfterWifi`, `SwitchReturns`, `DisplayCatchesUp`,
`CommandsTaken`, `HopsForever`), which the prover cannot reach. The safety halves of
`FailureEndsSession`, `SemGivenBack` and `SwitchReturns`, without which no scheduler
could make them true, are theorems. Every safety property of a passing
run is stated by a theorem.

## 6. Not modelled

* The `LILIGO_S3` build, which starts a sniffer task at boot without a client. Its
  button is part of `SnifferConfig`, `SnifferEvents` and `NvsLib`.
* `nvs_erase_value`, `nvs_list_values`, `nvs_set_num_from_string`, `nvs_get_num`,
  `sniffer_to_string` and channel switching on the ESP32: nothing calls them. An
  erased partition and other failures of the flash driver than a full flash.
* Commands of the Arduino that are not pairs of characters, or that overrun its receive
  buffer, and its display.
* What a device does after a step that C does not define: the model stops there (`ub`).
* Line editing and argument parsing of the console; the commands are modelled
  where they act. LED, LCD and OLED output: nothing reads it back. `serial_lib` is
  no longer called.
* The Java bridge: the `main()` of this commit is an experiment that calls none of it,
  and the rest copies bytes in one thread. The Python scripts copy bytes, too.

## 7. Plan

Done: the capture path with its abstract specification and the proof of the
refinement; the filter configuration with the driver's callback; the filter and
the record; the Wi-Fi switch; the event loop and the display; the settings with
their abstract specification and the proof of the refinement; the Arduino sniffer.

Also done: a theorem for every safety property of a passing run, the exact causes of the
first two findings, and what overlapping clients still get.

Left:

1. The session that the `LILIGO_S3` build starts at boot, composed with `CaptureSession`.
2. `OwnOrLater`, `AtMostOnce`, `QueueInOrder` and `WholeItems` put together in an abstract
   feed for overlapping clients, weaker than `PcapFeed`, that `CaptureSession` refines.

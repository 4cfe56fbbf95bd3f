# A verification of apps_and_services

The repository collects the applications and services of an industrial panel: small programs of its
own (`panel_led`, `socket`, `tb573d_i2c`, `backlight_key`, `ua376i`, USB and PHY test tools) and the
sources it builds and ships with them, `libusb-1.0.21` and `vsftpd-3.0.3`. This directory models the
parts in which several threads, processes, signals or devices meet, checks them with TLC and proves
what matters most with TLAPS. Paths below are relative to the repository; `io.c`, `core.c`,
`hotplug.c`, `sync.c` and `libusbi.h` are in `libusb/libusb-1.0.21/libusb/`, `linux_usbfs.c` and
`linux_netlink.c` in its `os/`, and the files of vsftpd in `vsftpd/vsftpd-3.0.3/`.

`PROJECT.json` holds the machine-readable side: components, runs, mutants, the map from every
definition to its lines, findings, hazards and theorems.

## 1. Inventory

| component | state it keeps | operations | what is hard | what makes it correct | model |
|---|---|---|---|---|---|
| panel LED daemon (`panel_led/panel_led.c`) | `led_info`, a ring of 6 samples, the LED files in sysfs | command line; every 500 ms: read temperature, detect status, write LEDs | the filter drops samples and starts with zeros; writes fail and are not repeated; sysfs outlives the process | a lasting change of temperature is shown, and each LED shows the status unless it could not be written | `PanelLed` |
| libusb event handling (`io.c`, `core.c`, `sync.c`, `linux_usbfs.c`) | event flags, close counter, hotplug messages and the event pipe under `event_data_lock`; the polled descriptors; `events_lock` and the waiters' condition | open, close, synchronous transfer, handle events, interrupt; unplug, hotplug thread | one thread polls for all others; anything that changes what is polled must get it out of `poll()` | the pipe says exactly whether something is pending; no sleep on work; nobody closes under the handler; waiters are woken; calls return | `EventLoop` |
| transfers of every type (`linux_usbfs.c`) | URB array, number retired, reap action and status, packets copied | submit, cancel, reap, disconnect | URBs finish while others are submitted or discarded | reported once, after the last URB, with all data and the right status | `UsbfsTransfer`, `AsyncTransfer` |
| flying transfers (`io.c`) | list sorted by timeout, timerfd, flags of each transfer | submit, cancel, complete, time out, disconnect | five paths end a transfer, under two locks taken in one order | list exact and sorted, timer armed, status true, nothing left on a device that is gone | `FlyingTransfers`, `AsyncTransfer` |
| vsftpd listener (`standalone.c`, `sysutil.c`, `hash.c`, `prelogin.c`) | number of children, clients per address, address of each pid, pending signals, the alarm | accept, fork, reap, reload | signals between any two steps; children that exit before they are recorded; pids used again | counts exact, limits kept, children reaped | `Listener` |
| libusb devices: discovery, references, hotplug callbacks (`linux_netlink.c`, `linux_usbfs.c`, `core.c`, `hotplug.c`) | the uevents not yet read, `usb_devs`, reference counts, messages, callbacks | `libusb_init`, scan, uevents, device lists, open, close, register, match, deregister, `libusb_exit` | the monitor, the scan and callers of `libusb_get_device_list` all read uevents; references move from the list to a message | counts exact, nothing freed is named, list and callbacks agree with what is plugged in | `Devices` |
| vsftpd privilege separation (`twoprocess.c`, `privsock.c`, `privops.c`, `postprivparent.c`) | a socket pair for each child, the listening socket, the login | one request and one answer at a time; the end of each process | messages without boundaries; either side may die | each request is served once and in order, no legal request kills the parent, nobody waits for ever | `TwoProcess`, `PrivService` |
| vsftpd session and data connections (`postlogin.c`, `ftpdataio.c`, `ftpcmdio.c`) | control and data connection, PASV or PORT, one alarm for two timeouts, pending signals | FTP commands, transfers, ABOR, timeouts | signals handled in the middle of any call | one answer for a command, a transfer called complete only if it is, the session ends | `FtpSession` |
| `socket` client and server | one connection | send and receive an answer | streams split messages; the peer closes | one answer for each message | not modelled: two sequential loops |
| `tb573d_i2c` | PWM registers of the panel | set, read back | a bus that fails between two bytes | value read back is the value set | not modelled: sequential writes |
| descriptors, strings, configuration, logging, TLS, directory listings | none beyond the call | parsing and formatting | - | - | not modelled: sequential code on data |
| other operating systems' backends, examples, tests, build files, backups, `vsftpd-3.0.2`, `usb-tools-master` | - | - | - | - | not built here, or copies |
| `ua376i`, `phytool`, `usb-tools`, USB test programs | none beyond the call | one request per command | - | - | not modelled: calls into closed or kernel code |
| `backlight_key` | - | - | - | - | does not compile as it stands |

How they interact: an application's threads call libusb; `EventLoop` decides which thread handles
events, that thread reaps URBs (`UsbfsTransfer`) and handles timeouts (`FlyingTransfers`), and both end in
the callback. The two transfer modules implement the same small specification, `AsyncTransfer`: what
a user of `libusb_submit_transfer` and `libusb_cancel_transfer` relies on. `Devices` is the other side of
`EventLoop`: it has the messages and devices whose arrival and departure `EventLoop` only sees as events
of the pipe. vsftpd's listener (`Listener`) forks a parent for each client, which forks the children of
`TwoProcess`; the second child runs `FtpSession`, which sees its parent's answers as single steps. That
is what the refinement of `TwoProcess` to `PrivService` justifies. The panel programs are processes of
their own.

## 2. The modules

### PanelLed
`led_info` is the structure of the same name; `temp_value` and `i` are `sleek_filter`'s static
variables; `todo` is the rest of a LED call's file writes, so that each may fail on its own: with `write()`
the call goes on with its next file (`WriteLedFails`), with `open()` it is given up (`OpenLedFails`), as it is
when the delay files are not there because `timer` could not be made the trigger.
`leds` is what sysfs holds. It outlives the process, so the start is any of `Found`: a LED may have a trigger
of the kernel, or go on blinking as an earlier run left it. `failed` (history) are the LEDs that a write of the
last status change did not reach, `inherited` (history) those still under a trigger found at the start: only
brightness "0" and a trigger of its own end one.
`ParseNothing`, `ParseArguments` and `ParseError` are the branches of `main` before the loop;
`PollSample`, `PollNoSensor` and `PollFixed` one pass of the loop with, respectively, a reading, no
reading and a status given on the command line. `streak` (history) counts readings in a row on one
side of 99 degrees. Temperatures are elements of `Temps`.

### EventLoop
Each thread has a program counter; a section under `event_data_lock` is one step. `event_pipe`
counts the bytes in the pipe; `device_close` is kept as the set of threads it counts; `ipollfds` is
the list of descriptors under the lock and `pollfds` the copy the handler polls. `TryLock...`,
`SetActive`, `SetInactive`, `UnlockEvents`, `BroadcastWaiters` are the lock functions of `io.c`;
`HandleEventsStart` to `AfterEvents` are `handle_events`; `BackendLock` to `BackendUnlock` are
`op_handle_events`, with one `Reap` per URB and the callback; the `Open...` and `Close...` actions
are `libusb_open` and `libusb_close` down to the backend.
Left out: timeouts of transfers (the timerfd is never armed here; `FlyingTransfers` has them),
`completed_transfers` (always empty with the Linux backend), failures of `poll` and of allocation,
pollfd notifiers. `libusb_init` and `libusb_exit` are in `Devices`. The application opens each device at most once at
a time, closes a handle once, and not while a transfer on it is outstanding, as libusb demands.
`CallbackCloses`, `HotplugCloses` and `Interrupters` say which callbacks close devices and who calls
`libusb_interrupt_event_handler`.

### UsbfsTransfer
`tpriv` is `linux_transfer_priv` and `holder` what `itransfer->lock` is held for. The three submit
functions begin alike (`SubmitTransfer`) and differ in the fields they reset and in what they do when a
later URB is refused (`SubmitLaterUrbFails`, `SubmitIsoUrbFails`); each completion handler has its actions:
`ReapAbnormal`, `ReapOk` and `ReapFailed` for bulk and interrupt transfers, `ReapIso`, `ReapControl`. A
transfer may be submitted again as another type. Submitting and `discard_urbs` take one step per ioctl, and the kernel may finish URBs between any two; reaping an
URB and handling it is one step. The kernel is external: URBs of an endpoint finish in
order; DISCARDURB returns a pending URB with -ENOENT and answers EINVAL for another; with bulk
continuation a short or failed URB makes the kernel retire and refuse the rest with EREMOTEIO; a halted
endpoint moves no data; a device that is gone answers ENODEV. Data is counted, and `hole` (history)
records data that is not behind the data before it. All packets of an isochronous URB share one fate,
the length of the URB, so `iso_packet_offset` counts URBs; their status is not distinguished, and an
isochronous endpoint does not halt. `reap_status` also stands for the status that the isochronous and
control handlers keep in a local variable until they report it. `cancelled` and `status` (history) say what the
user was told. A last URB that is shorter than the others is treated as they are.

### FlyingTransfers
As built here: `USBI_TIMERFD_AVAILABLE`, and no timeouts handled by the operating system. Time is
counted in ticks up to `MaxTime`. `flying_lock` is who holds `flying_transfers_lock` across steps (a
scan for expired timeouts, which calls `libusb_cancel_transfer` for each and marks it afterwards);
`submit` says where each `libusb_submit_transfer` is, which holds `itransfer->lock` across the backend.
`handler` is the thread that handles events; `waiter` a second one whose wait ran out and that handles
timeouts too. The timerfd is level-triggered: it stays readable until it is armed again. When a
device is gone, `usbi_handle_disconnect` goes through the list up to the first transfer of the handle that
is in flight: `ToEnd` is such an entry, `Passed` says that there is none before it, and `Examined` that
each one looked at on the way can be locked, so that its submission has ended. `ImplementsTransfers` says of each transfer that it is an `AsyncTransfer`. The clock starts at 1, as 0
means no timeout. Left out:
failures of the clock and of `timerfd_settime`, transfers still flying when their handle is closed.
The application submits only transfers that are its own at the time: BUSY changes nothing.

### Listener
`s_children`, `ip_count` and `pid_ip` are the counter and the two hash tables, `pending` and `alarm`
the signal framework of `sysutil.c`. A signal handler may run between any two steps: it marks the
signal, starts the alarm and interrupts `accept()`. `TestHup` to `ReapedAll` are
`vsf_sysutil_check_pending_actions` with the two real handlers, split wherever a signal may come in
between. The child runs from the moment of `Fork`, so it may exit before `Record`. Clients, exits and
SIGHUP are the environment. A reload of the configuration is assumed not to change the limits; the set
up of the socket is left out. 3.0.2 has the same `standalone.c`.

### FtpSession
One session that is logged in, without SSL. `pc` is the place in the command loop or in a transfer;
`checkALRM` and `checkURG` are `vsf_sysutil_check_pending_actions`, which follows every read, write and
accept, and `stack` says where the session goes on afterwards. A call that may block has two states, about
to block and `blocked`: a signal interrupts only the second, and one that comes before it is seen when the
call next returns or the alarm comes again. `handler` is which function is installed for SIGALRM, `alarm`
whether one is running. `Urg...` are the steps of `handle_sigurg`. `retval`, `file` and `shut` are the
result of the transfer, the file of an upload, and whether the data socket has been shut down; `owed`
(history) counts commands read and not answered. LIST and STOR between them take every path of RETR.
Data is counted in chunks, lines are commands. Several ABORs in one transfer share one answer (`merged`);
`RepliesMatchCommands` allows for it. An answer is written before the session goes on: `unsent` holds the
places that wait for one (`handle_sigurg` may answer while the loop does not), `Written` is the client taking
it, which the client need not do, and `Block` a write that finds no room. Both handlers of SIGALRM make the
connection non-blocking, so that the write dies then (`WriteDies`). `log_entry` is the transfer to be logged:
one that has not failed is logged before its 226, any other at the start of the loop, and with
`xferlog_enable` the write of the log checks for signals as every write does (`LogThen`). A SIGALRM left
pending by the lingering close can be handled there, or at the write of the 226: it sets `data_timeout`, and
the client is told 226 and then 421. Left out: REST, TYPE, RNFR and the commands that answer at once and keep
no state (NOOP stands for them), the log of the other commands (`log_ftp_protocol`), the lock of
`lock_upload_files`.

### TwoProcess and PrivService
`to_parent` and `to_child` are the two directions of the socket pair of each child, as sequences of the
parts a message is made of: command byte, string, result byte, integer, descriptor. `parent_fd` and
`child_fd` say which processes hold each end, because a read only finds the end of the connection when
the last of them has closed it; between `fork()` and `priv_sock_set_..._context` both do. `reading` and
`sending` are what the parent has still to read of a request and to write of an answer. SIGCHLD and SIGTERM
may be handled at any read, write or wait. The child asks what `postlogin.c` asks, in its order: PASV,
PORT, and a transfer with or without upload. `port_sockaddr` is the copy of the state by which it decides.
`Crash`, `Sigterm` and `ClientLeaves` are faults; a SIGKILL of the parent leaves the child until its next
request, and PR_SET_PDEATHSIG is modelled and not relied upon. `PrivService` is the parent as `postlogin.c`
sees it: a request is answered at once, by what the listening socket allows, until one side has gone.
Left out: the SSL slave, per-user configuration, `oneprocess.c` (where requests are plain calls).

### Devices
`plugged` is what is in each port, with its bus address, and `uevents` the netlink socket. The list can miss
what happens, and `lost` (history) says what it has missed, at most `MaxLost` additions and removals at a time:
a uevent is lost when the socket overruns (`Send`; the reader gets ENOBUFS in its place,
linux_netlink.c:310-320); a device that is plugged in cannot be read (`EnumerateFails`); an open finds no node
for one after its second try and disconnects it (`Open`, `OpenGone`: linux_usbfs.c:201-224 cannot tell a node
that is gone from one that is not there yet). A device that is listed later is missed no more. The monitor
thread ends when a signal interrupts its `poll()` (`MonitorEnds`, linux_netlink.c:371). Whoever holds
`hotplug_lock` - the monitor thread, the scan of `libusb_init`, `libusb_get_device_list`, an open that fails
- has at most one message under way: `jobs` are the ports to enumerate, of which a hub that has no device
yet comes first, `fresh` is a device on the list and not announced, `leaving` one being disconnected.
`refcnt` is counted as the code does; `drop` is the argument of a `libusb_unref_device` under way, which goes
on to the parent of a device it frees. `held` are the references of a device list. `message` and `visit` are
`usbi_hotplug_match` under way; `told` (history) is the set of devices each callback believes in.
Assumed: one context, initialised and left once; libusb built without udev; enough memory; root hubs are
always there and are not counted as devices; callbacks match every device. Bus addresses are not given
twice (`MaxPlugs` < 127): with an address used again at once, the FIXME at linux_usbfs.c:1062 comes true and
the scan may list two devices with one session id. `usbi_io_init` is one step; in the code the list of
messages exists before the event pipe (io.c:1135-1139), so that a message of the monitor may signal a pipe that
does not. Callbacks are registered by the thread that handles
events. From another thread `NothingDangles` and `CallbacksKnow` do not hold: hotplug.c:299 uses the new
callback without a lock while the event handler may free it, and an ENUMERATE may tell of an arrival
after the departure. A device that leaves before `usbi_io_init` has made the list of messages keeps its
initial reference for ever (`unannounced`); `CountsMatchReferences` counts it, so that the rest stays
exact. A callback may be told twice of an arrival, as libusb.h:1962 says.

### AsyncTransfer
A transfer as its user sees it: submitted, perhaps cancelled, reported once for each submission; told
CANCELLED or TIMED_OUT only if a cancellation was accepted; told COMPLETED or an error only if not.

## 3. The runs

Every property of a passing run has a mutant (`PROJECT.json`): a change of one definition, as a
plausible bug would make it, that breaks the property. Mutated definitions stand before the ones they change, with
a suffix.

| run | bounds | what it shows |
|---|---|---|
| `panel_led` | 2 temperatures around the limit, all command lines, 3 values, 9 contents of sysfs at the start | `FilterSettles`: seven readings in a row decide, although every seventh is dropped; `LedsShowStatus`: a LED shows the status unless a write to it failed in the last change, or it is to be lit and still has a trigger from before |
| `event_loop` | 3 threads, 1 device | `PipeMatchesPending`, `PipeReadReturns`, `ClosesAlone`, `WaiterHasWaker`: three threads are the fewest that put a handler, a closer and a waiter together |
| `event_loop_live` | 2 threads, 1 device that may be unplugged | `SleeperMissesNothing`, `PollsOpenFds` with disconnections; `FinishedTransfersReturn`, `ClosesReturn` under fairness |
| `usbfs_transfer` | 3 URBs of 2 bytes, all four types, with and without continuation | `NoUrbLeft`, `NotStuck`, `CancelTruth`, `NoHoles`, `StatusHonest`, `CancelledReturns`, and the refinement to `AsyncTransfer` |
| `stall_leaves_urbs` | a bulk transfer with a stall of the first of three URBs | violated: the URB array is freed too early |
| `flying_transfers` | 2 transfers, 2 devices, one removable, timeouts 0 to 2, 3 ticks | `StatusTellsWho`, `NoneLeftBehind`, `ListExact`, `TimerArmed`, and the refinement for each transfer |
| `flying_live` | 2 transfers with a timeout of 1 | `ExpiredReported` without a second thread |
| `listener` | 3 pids, 2 addresses, limits 2 and 1, symmetric pids | `CountsExact`, `NeverBug`, `WithinLimits`, `ExitsNoticed` |
| `ftp_session` | see `MCFtpSession.cfg`: 4 lines of the client, 1 chunk, LIST and STOR, both timeouts and the log on | `RepliesMatchCommands`, `IdleIsNotStalled`, `NeverBug`, `CompleteMeansComplete`; `SessionEnds` under fairness: the session ends unless the client never reads the answer to a transfer |
| `two_process` | 2 failed logins, 4 commands, every fault once | `NeverRefused`; `ServesRequests`, the refinement to `PrivService`; `NobodyWaitsForEver` under fairness |
| `devices` | a hub and a port behind it, plugged in twice, 2 device structures (symmetric), 2 threads, 1 callback, no uevents of interfaces, nothing missed | `CountsMatchReferences`, `NothingDangles`, `CallbacksKnow` |
| `devices_lost` | without callbacks, but with 3 structures, an interface, and up to 4 additions and removals missed at a time | `ListSettles` |

Why these bounds: three URBs are needed for an URB that is neither first nor last; two transfers for every
order in the list and for one that finishes while another expires; two addresses and limits 2 and 1 so that
each limit binds alone; three pids so that one is used again while two are live. Threads of `EventLoop`,
pids of `Listener` and device structures of `Devices` are symmetric in the runs without liveness properties.
Four lines let a session have PASV, a transfer and an ABOR or a second command in its middle; two plugs let
a device be replaced, or a hub and its device come together, for which two structures are enough; with three
a hub that an open took for gone is listed again while the old one is held. Callbacks and what the list
misses are in separate runs of `Devices` because together they are too many states: what is missed changes
what is on the list, and callbacks only follow the list. Two plugs make four additions and removals at most,
so `MaxLost` = 4 leaves none out. The theorems hold for any `MaxLost` with any callbacks. `MCPanelLed` has
each of the two status LEDs without a trigger, blinking at another pace or under a trigger of the kernel;
three readings of 101 among six bring the average over the limit, and two bring it to 99 and a fraction,
which the division drops. Deadlock is checked in all runs but `panel_led`, where the daemon exits after a
wrong command line, and those of `Devices`, where the application may have left libusb and nothing is left
to plug in.

`LookupsExact` of `Devices` is proved and in no run: it holds of the instance of `devices_lost` too. The type
invariants of all modules are proved (section 4). Only that of `PanelLed` is among the runs'
properties; the others were model-checked on the same instances before they were proved. `Devices` has
its types in `Types` and `Places` of `DevicesProofs`.

Two bounds exclude what a violating run shows, so that the rest can be checked. `EarlyStalls = FALSE`
(`usbfs_transfer`): a stall with two or more URBs behind it is what `stall_leaves_urbs` is about.
`UnplugInCancel = FALSE`: the device does not disappear between two discards of one cancellation. With
TRUE, `NoUrbLeft` is violated too: `discard_urbs` returns NO_DEVICE after it has discarded the last URB,
`op_cancel_transfer` (linux_usbfs.c:2192) returns without recording the cancellation, and the last URB
ends the transfer while the first is still out; setting the constant in `MCUsbfsTransfer.cfg` shows it.
`StatusHonest` is claimed without bulk continuation only: with it, a failure that comes back during the
submission makes the kernel refuse the next URB with EREMOTEIO, linux_usbfs.c:1945 takes it for an early
completion, and the transfer is reported COMPLETED.

### Fairness
* `EventLoop`: a thread inside a libusb call goes on (weak), takes a lock it waits for if that is free
  again and again (strong: the kernel's mutexes do not starve a thread for ever), and a round of event
  handling does not reap for ever from one busy device. Nobody has to call anything, and no timeout is
  relied on.
* `UsbfsTransfer`: threads inside the library go on, somebody handles events, and the kernel hands back what
  it has cut off or discarded. A device owes nothing.
* `FlyingTransfers`: as `EventLoop` for the locks; each round of event handling serves every descriptor
  `poll` reports, the timerfd among them, so `Reap`, `Disconnect` and `TimerFires` are strongly fair.
  No wait has to run out.
* `FtpSession`: the session goes on when it can, time passes and an alarm that is due is delivered. The
  client owes nothing: that it sends, moves data (`Chunk`) or reads an answer (`Written`) is not fair.
  `accept()` and `close()` return because they have time limits. `SessionEnds` has one exception, `Unheard`:
  the client never reads the answer to a transfer, and no alarm runs (section 5).
* `TwoProcess`: each process goes on when it can. No client has to send or to leave.

`Devices` has no liveness property. `Listener` has none: `ExitsNoticed` says that the alarm runs whenever one is needed.

## 4. What is proved

TLAPS checks these for every value of the constants, from the assumptions stated in the modules
(`None` is no thread, handle or address; the parameters have their types).

* `PanelLedProofs`: `FilterSettles`, `LedsShowStatus` and `TypeOK` for every set of readings and values.
  `FilterSettles` is not inductive: that seven readings in a row fill the ring needs to know which slots
  the streak has reached. `FilterInv` adds that the last `streak` readings occupy the slots behind `i`.
  `LedsShowStatus` says what the files are between two passes, from any content of sysfs and after any
  failures; its invariant `LedInv` says, for each call of the LED functions and each number of writes that are
  left of it, which files of a LED that has not failed already are as they will be (`Shown`), and which status
  each call follows (`StatusFollows`), for a call relies on what the one before has left: `SysfsWrite` of "0"
  takes the trigger away. `Steady` is why a write that failed does not harm a later status: the green LED, which
  no detected status makes blink, has no trigger but one it was found with.
* `EventLoopProofs`: `PipeMatchesPending`, `PipeReadReturns`, `SleeperMissesNothing`, `ClosesAlone`,
  `WaiterHasWaker`, `PollsOpenFds` and `TypeOK` for any number of threads and devices. None is inductive
  alone. `IInv` adds `Protocol` - who holds `events_lock` at which step, that the threads marked as handling
  are between taking and releasing it, that closers are counted in `device_close` from the announcement to
  the end, and waiters are not - `PollSetCurrent`, which says that the polled copy differs from the list
  only while POLLFDS_MODIFIED is pending, and `ReaderHasByte`, which says that whoever has decided to read
  the pipe finds a byte until it does. `Wakeup` is for the waiters: whoever is counted in `device_close`
  is a closer still on its way to the broadcast, and `event_handler_active` is set only while somebody owns
  `events_lock`, so each reason to sleep has a thread that will end it. `HandleLife` follows a handle from
  `open` to `close`: a thread that opens or closes has one of its own, whatever is listed, polled or usable is
  open, and a handle leaves each list before its descriptor is closed.
* `ListenerProofs`: `CountsExact`, `NeverBug`, `WithinLimits`, `ExitsNoticed` and `TypeOK` for any
  number of process ids and addresses and any limits; the only assumptions are that process ids are
  finitely many and the limits natural numbers. `Recorded` ties the table of pids to the children: all
  are recorded but, between fork and record, the one just forked. `LaunchCountsSeen` is what the
  limits rest on: in every set of children that exist together, one was told, at its fork, of at least
  as many as they are, so if more than the limit were served that one would have refused. `Noticed`
  follows SIGCHLD through the steps of the check: a zombie has its signal pending unless the listener
  is reaping, and the alarm unless the listener is on its way there.

* `FtpSessionProofs`: `NeverBug`, `RepliesMatchCommands`, `CompleteMeansComplete` and `TypeOK` for any
  number of lines and chunks and any tunables, `IdleIsNotStalled` if there is an idle timeout (without one
  it does not hold, section 5). A check for signals, and `handle_sigurg` in the middle of one, may come
  between any two steps; so the argument is about `Place` and `UrgPlace`, the places the loop and
  `handle_sigurg` are at or will go on with, which `Shape` reads off `pc` and `stack`. `Owing` counts the
  answers due at each place - to the command, to a line read by `handle_sigurg`, to an ABOR;
  `OverMeansComplete` and `ShutHasReason` say what an ended stream can be taken for; `IdleHandler` says
  that a session waiting for a command has replaced the handler of its last transfer, `LoggedBefore` that the
  transfer has been logged by then, which is why `vsf_log_start_entry` does not call `bug()`. A lemma for each
  helper says where it moves the session, one for each action that it keeps the account, and the types
  are proved apart. The invariant was model-checked first.
* `TwoProcessProofs`: `NeverRefused`, `ServesRequests` and `TypeOK` for any numbers of failed logins and
  commands. Messages have no boundaries, so nothing in one says what it is a part of: that the parent
  reads a string where the child wrote one depends on where both are. `Conversation` says it of the
  conversation as a whole. What is written and not read, with what is still to be written, is the end of
  the one request (`Streams`) or of one of the answers it may have (`ChildPhase`), never of both; the parent
  reads what is left (`ParentPhase`); a login's child is reaped before the next is forked (`Turns`); and
  what the session believes of the passive socket is true whenever it decides by it (`Knows`, `Planned`),
  which is why the parent has no cause to `die()`. The refinement is proved step by step: the parent's
  `perform` is PrivService's step, every other is a stutter.
* `UsbfsTransferProofs`: `NoUrbLeft`, `NotStuck`, `CancelTruth`, `NoHoles`, `StatusHonest`, `TypeOK` and the
  refinement to `AsyncTransfer`, for any number and length of URBs, all types, all failures, with and without
  continuation, under `~EarlyStalls` and `~UnplugInCancel`. The theorems have these two as hypotheses because
  the code does not keep `NoUrbLeft` without them (section 3 and `stall_leaves_urbs`); both are the values of
  the run. `Counted` ties `num_retired` to the URBs that are back. That URBs come back in the order they were
  submitted holds but for those a discard loop takes, which goes from the last to the first (`Order`); the
  account of the data (`Data`) and of the verdict (`Honest`, `Cancels`) rest on it. `NotStuck` follows from
  `SomeLeft`: as long as there is an array of URBs one of them is still to come. The bounds in `TypeOK` need
  `Bounds` on top of that: no URB brings more than fits in it and each is counted once, so `transferred`
  stays within `num_retired` buffers, and `num_retired` within `num_urbs` by `Counted`.
* `FlyingTransfersProofs`: `StatusTellsWho`, `NoneLeftBehind`, `ListExact`, `TimerArmed`, `TypeOK` and the
  refinement of every transfer to `AsyncTransfer`, for any transfers, devices and timeouts, with one thread
  or two that handle them. `Life` says where a transfer can be, `Cancellation` that the backend has accepted
  one from then until the handler of events has told, `Timing` that TIMED_OUT is marked, or about to be with
  `flying_transfers_lock` held, exactly for those cancelled by their timeout. `Verdict` is the reason for
  the lock in `usbi_handle_transfer_cancellation`: read under it, the mark is there. `List` and `Armed` are
  kept by the operators on the list alone (`PlaceProperties`, `AddedToList`, `RemovedFromList`,
  `RearmedForNext`): insertion finds the first that expires later, and arming looks past those that are
  handled.
* `DevicesProofs`: `CountsMatchReferences`, `ListSettles`, `LookupsExact`, `NothingDangles` and `CallbacksKnow` for any tree
  of ports, devices, threads and callbacks. `Core` says who holds `hotplug_lock` at which step (`Lock`), what can happen while
  the context starts and ends (`Stages`), and who is about to give up a reference (`Steps`); `Once`: the
  departure of a device is in one place only - being announced, in the queue, being told, or never
  announced; `Arrived`: an arrival in the queue is of a device that is listed or whose departure comes
  behind it. `Once` makes the count exact, because the list's reference goes to the message: each action
  gains, loses or moves one reference of a device at most (`CountsChange`). `Arrived` makes a message name
  what is alive. `Registration` and `Knows` are for the callbacks: a callback that was told of a device the
  list has no longer is about to hear that it left, and one that enumerates and was not told is about to
  hear that it is there; while it enumerates, the same holds of the copy of the list. The theorems on
  `NothingDangles` and `CallbacksKnow` suppose `OneLoop`: one thread handles events and registers callbacks,
  as in the run; otherwise they do not hold (section 2). The others do not need it.
  `ListSettles` rests on `Account`, which follows each port from the kernel to the list. `Wire`: the kernel
  gives an address to one port and once; the subject of a remove that is in the socket or lost is gone for
  good, that of an add in the socket is plugged in or has its remove behind it or lost. `Todo`: at most a port
  and the hub it hangs on are being enumerated. `Listing`: listed devices have distinct addresses and are not
  among the additions missed, but for one about to be disconnected, which is not plugged in or has just been
  missed by an open. `Accounted`: once the scan has begun, what is plugged in is listed, still to be scanned,
  being enumerated, missed or the subject of an add not read yet, and every listed device is plugged in, or
  being disconnected, or the subject of a remove not read yet or lost. When no uevent is left and nothing is
  under way only "listed", "plugged in" and "missed" remain. So `ListSettles` is exact in one direction and
  the other: what is plugged in is off the list exactly if it is in `lost`. The kernel's addresses are
  numbers, so `NoneAssumption` says that `None` is not one. `LookupsExact` is what `Listing` says of the two
  lookups by session id.

The strengthened invariants were all model-checked before they were proved, on the instances of section 3
or smaller ones.

Only model-checked is liveness, which is outside what the prover handles: `FinishedTransfersReturn` and
`ClosesReturn` of `EventLoop`, `CancelledReturns`, `ExpiredReported`, `SessionEnds`, `NobodyWaitsForEver`;
and what the runs and configurations of section 5 refute.

## 5. Where code and documentation disagree

The first has a run and an entry under "findings".
1. After a stall (linux_usbfs.c:2314) the transfer is reported with URBs outstanding; section 3 names
   two relatives of it.

The others are stated as properties of their modules and have a configuration, and TLC finds each
violated (`tlc -config <cfg> <module>`):

2. `MCDevicesPoll.cfg`, `PollProcessesAll`: `linux_netlink_hotplug_poll` (linux_netlink.c:398) stops at the
   first uevent that is not about a device, so `libusb_get_device_list` may return with uevents pending that
   libusbi.h:680-682 says are "fully processed".
3. `MCEventLoopInterrupt.cfg`, `InterruptNotLost`: `libusb_interrupt_event_handler` does nothing when
   another event is pending (io.c:1894), and the handler clears that event before it polls. The comment at
   io.c:1879-1881 says it interrupts "any active thread that is handling events".
4. `MCEventLoopCallbackClose.cfg`, `CallbackMayClose`: `libusb_close` in a transfer callback, which
   core.c:1415-1421 provides for, blocks on `open_devs_lock`, held by the caller since linux_usbfs.c:2604.
5. `MCFlyingTransfersZero.cfg`, `ZeroIsNoTimeout`: a transfer submitted again with timeout 0 keeps its
   old time (io.c:1211), although libusb.h:1223-1224 says that 0 indicates no timeout.
6. `MCListenerHup.cfg`, `HupAlarmed`: SIGCHLD's `alarm(0)` stops the alarm of a pending SIGHUP
   (sysutil.c:168).
7. `MCFtpSessionStale.cfg`, `IdleIsNotStalled` with `idle_session_timeout` off: a SIGALRM that is pending
   across the lingering close is handled at the write of the 226, where it starts the alarm of a transfer
   again; nothing replaces it, and the client that is idle afterwards is told of a data timeout.
8. `MCFtpSessionUpload.cfg`, `FailedUploadsDeleted`: a session that dies of its control connection before
   postlogin.c:1168 keeps the failed upload, which vsftpd.conf.5:173 says is deleted.
9. `MCUsbfsTransferPackets.cfg`, `PacketsInPlace`: `discard_urbs` goes from the last URB to the first, so the
   URBs of a cancelled or partly refused isochronous transfer come back in that order, and
   `handle_iso_completion` stores the results of each behind those of the URB reaped before it
   (linux_usbfs.c:2404-2405): packets are told the length and status of others, although libusb.h:1185
   calls `actual_length` of a packet "Amount of data that was actually transferred".
10. `MCPanelLedFound.cfg`, `GreenSolidWhenNormal`: NORMAL_OPERATION writes only the brightness of the green LED
   (panel_led.c:207), so one that an earlier run or the kernel left with a trigger keeps it, although
   panel_led.c:11 says "GREEN Solid : Normal operation".
11. `MCFtpSessionDeaf.cfg`, `SessionAlwaysEnds`: dispose clears the alarm (ftpdataio.c:98-101) and only the
   command loop sets it again, so a session hangs for ever in the answer to a transfer that its client does
   not read, although vsftpd.conf.5:690-692 says of `idle_session_timeout` "If the timeout triggers, the
   remote client is kicked off". `SessionEnds` is what is left.
12. `MCDevicesOpen.cfg`, `DisconnectsOnlyGone`: `op_open` takes a missing node for a device whose "remove
   event" is not processed yet (linux_usbfs.c:1290-1291), but `_get_usbfs_fd` has waited 10 ms only for the
   "USB device path creation" (linux_usbfs.c:201-224). A device that is plugged in and slow to get its node is
   disconnected, and is not listed again until it is plugged in anew (a hub also when something behind it is).

## 6. Plan

Done: all modules of section 2. Next:
1. `do_close` with flying transfers in `FlyingTransfers`; `sync.c`'s cancellation after an error of event handling in `EventLoop`.
2. `Devices` with two contexts (shared `handle_id`, one `linux_hotplug_lock`), and with callbacks registered
   from other threads by an application that serialises them.
3. `FtpSession` with restarts (REST) and the SSL data path of ftpdataio.c.

Every safety property and refinement of a passing run is proved. Theorems next: those of what is added
above. Two contexts need `Account` for each context, with the uevents handled for all of them at once;
`do_close` needs `Life` of `FlyingTransfers` for a transfer whose handle is gone.

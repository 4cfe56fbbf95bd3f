------------------------------ MODULE Devices -------------------------------
(***************************************************************************)
(* The devices of a libusb context on Linux, without udev: the kernel's    *)
(* uevents, the monitor thread and the callers that read them under        *)
(* linux_hotplug_lock (linux_netlink.c, linux_usbfs.c), the list usb_devs  *)
(* with its reference counts (core.c), and the messages and callbacks of   *)
(* hotplug.c.                                                              *)
(*                                                                         *)
(* A section under usb_devs_lock, dev->lock, event_data_lock or            *)
(* hotplug_cbs_lock is one step.  There is one context, initialised and    *)
(* left once, and the number of times a device is plugged in is bounded.   *)
(* A callback may return 1 whenever it is called.                          *)
(*                                                                         *)
(* The list can miss what happens: uevents are lost when the netlink       *)
(* socket overruns, a device that is plugged in cannot be read, and an     *)
(* open finds no node for it.  How much of that is missed at a time is     *)
(* bounded by MaxLost.                                                     *)
(***************************************************************************)
EXTENDS Naturals, Sequences, FiniteSets

CONSTANTS
  Ports,         \* places in the tree of hubs, named as in sysfs
  Parent,        \* the hub of each port, None below a root hub
  Interfaces,    \* the ports whose device has an interface with uevents of its own
  MaxPlugs,      \* bound: how often something is plugged in; below 127, where
                 \* bus addresses wrap, so none is given out twice
  MaxLost,       \* bound: how much the list misses at a time
  Devs,          \* struct libusb_device: what memory holds
  Threads,       \* the threads of the application
  EventThreads,  \* those that handle events
  Users,         \* those that get lists and open devices
  Registrars,    \* those that register and deregister callbacks
  Callbacks,     \* struct libusb_hotplug_callback, each used once
  Enumerating,   \* those registered with LIBUSB_HOTPLUG_ENUMERATE
  Monitor,       \* the monitor thread
  None

ASSUME NoneAssumption ==
  /\ None \notin Ports \cup Devs \cup Threads \cup Callbacks \cup {Monitor}
  /\ None \notin [event : {"ARRIVED", "LEFT", "none"}, device : Devs \cup {None}]
  /\ None \notin Nat                                  \* no address
ASSUME MaxPlugsAssumption == MaxPlugs \in 1 .. 127
ASSUME MaxLostAssumption == MaxLost \in Nat
ASSUME MonitorAssumption == Monitor \notin Threads
ASSUME ParentAssumption ==
  /\ Parent \in [Ports -> Ports \cup {None}]
  /\ \A p \in Ports : Parent[p] # None => Parent[Parent[p]] = None
ASSUME FiniteAssumption ==
  IsFiniteSet(Devs) /\ IsFiniteSet(Threads)
ASSUME ThreadAssumption ==
  EventThreads \subseteq Threads /\ Users \subseteq Threads /\ Registrars \subseteq Threads

Actors == Threads \cup {Monitor}

VARIABLES
  \* the kernel
  plugged,       \* the address of the device at each port
  uevents,       \* the netlink socket
  plugs,         \* how often something has been plugged in
  lost,          \* history: the additions and removals that the list missed
  \* linux_hotplug_lock, and what its holder is about
  hotplug_lock,
  jobs,          \* ports to enumerate
  fresh,         \* on the list, not announced yet
  leaving,       \* being disconnected
  leave,         \* how far that is
  monitor,       \* the monitor thread: "off", "poll", "reading" or "ended"
  \* the context
  ctx,           \* its life: see Life
  scan,          \* sysfs entries libusb_init has still to read
  usb_devs,
  hotplug_msgs,
  \* struct libusb_device
  alive, refcnt, attached, session, port, parent_dev,
  \* the threads
  pc,
  held,          \* references of a device list, or of its copy in use
  handle,        \* the device a thread has open, or is opening
  drop,          \* the device an actor is about to unreference
  new_callback,  \* what a thread is registering
  \* events
  handler,       \* the thread that holds events_lock
  message,       \* the message it has taken
  visit,         \* callbacks it has still to match
  cb, needs_free,
  told,          \* history: devices a callback believes to be present
  unannounced    \* history: devices that left before hotplug_msgs existed

kernel  == <<plugged, uevents, plugs, lost>>
work    == <<jobs, fresh, leaving, leave>>
context == <<ctx, scan>>
devices == <<alive, attached, session, port, parent_dev>>
threads == <<pc, held, handle, new_callback>>
events  == <<handler, message, visit, cb, needs_free, told>>
vars == <<kernel, hotplug_lock, work, monitor, context, usb_devs, hotplug_msgs,
          devices, refcnt, threads, drop, events, unannounced>>

Nobody == [a \in Actors |-> None]

Init ==
  /\ plugged = [p \in Ports |-> None] /\ uevents = <<>> /\ plugs = 0 /\ lost = {}
  /\ hotplug_lock = None /\ jobs = <<>> /\ fresh = None
  /\ leaving = None /\ leave = "none" /\ monitor = "off"
  /\ ctx = "new" /\ scan = {} /\ usb_devs = {} /\ hotplug_msgs = <<>>
  /\ alive = {} /\ refcnt = [d \in Devs |-> 0] /\ attached = {}
  /\ session = [d \in Devs |-> None] /\ port = [d \in Devs |-> None]
  /\ parent_dev = [d \in Devs |-> None]
  /\ pc = [t \in Threads |-> "idle"] /\ held = [t \in Threads |-> {}]
  /\ handle = [t \in Threads |-> None] /\ drop = Nobody
  /\ new_callback = [t \in Threads |-> None]
  /\ handler = None /\ message = None /\ visit = {}
  /\ cb = [k \in Callbacks |-> "unused"] /\ needs_free = {}
  /\ told = [k \in Callbacks |-> {}] /\ unannounced = {}

-----------------------------------------------------------------------------
(* The kernel.  The uevents of interfaces follow that of their device when *)
(* it is added and go before it when it is removed.                        *)
Added(p, a)     == [action |-> "add", port |-> p, address |-> a]
Removed(p, a)   == [action |-> "remove", port |-> p, address |-> a]
Other           == [action |-> "other"]
OfInterfaces(p) == IF p \in Interfaces THEN <<Other>> ELSE <<>>
InUse(address)  == \E p \in Ports : plugged[p] = address
There(p)        == plugged[p] # None
MayLose         == Cardinality(lost) < MaxLost

(* The socket takes all of s, or none of it when what waits there has      *)
(* filled it: the next read is then the error ENOBUFS, before all that     *)
(* waits, and m is never heard of.                                         *)
Send(s, m) ==
  \/ /\ uevents' = IF monitor = "off" THEN uevents ELSE uevents \o s
     /\ UNCHANGED lost
  \/ /\ monitor # "off" /\ uevents # <<>> /\ MayLose
     /\ uevents' = <<Other>> \o uevents /\ lost' = lost \cup {m}

PlugIn(p) ==
  /\ ~There(p) /\ plugs < MaxPlugs
  /\ (Parent[p] # None => There(Parent[p]))
  /\ plugs' = plugs + 1 /\ plugged' = [plugged EXCEPT ![p] = plugs']
  /\ Send(<<Added(p, plugs')>> \o OfInterfaces(p), Added(p, plugs'))
  /\ UNCHANGED <<hotplug_lock, work, monitor, context, usb_devs, hotplug_msgs, devices,
                 refcnt, threads, drop, events, unannounced>>

Unplug(p) ==
  /\ There(p) /\ \A q \in Ports : Parent[q] = p => ~There(q)
  /\ plugged' = [plugged EXCEPT ![p] = None]
  /\ Send(OfInterfaces(p) \o <<Removed(p, plugged[p])>>, Removed(p, plugged[p]))
  /\ UNCHANGED <<plugs, hotplug_lock, work, monitor, context, usb_devs, hotplug_msgs,
                 devices, refcnt, threads, drop, events, unannounced>>

-----------------------------------------------------------------------------
(* References.                                                             *)
Ref(ds) == refcnt' = [d \in Devs |-> refcnt[d] + (IF d \in ds THEN 1 ELSE 0)]

(* libusb_unref_device, called with what drop holds: the last reference    *)
(* frees the device, and its reference to the parent is dropped next.      *)
Unref(a) ==
  LET d == drop[a] IN
  /\ d # None
  /\ refcnt' = [refcnt EXCEPT ![d] = @ - 1]
  /\ IF refcnt[d] = 1
     THEN /\ alive' = alive \ {d}
          /\ drop' = [drop EXCEPT ![a] = parent_dev[d]]
          /\ parent_dev' = [parent_dev EXCEPT ![d] = None]
          /\ session' = [session EXCEPT ![d] = None] /\ port' = [port EXCEPT ![d] = None]
          /\ attached' = attached \ {d}
     ELSE drop' = [drop EXCEPT ![a] = None] /\ UNCHANGED devices
  /\ UNCHANGED <<kernel, hotplug_lock, work, monitor, context, usb_devs, hotplug_msgs,
                 threads, events, unannounced>>

-----------------------------------------------------------------------------
(* What the holder h of linux_hotplug_lock does with a message.            *)
Active == ctx \in {"active", "scanning", "scanned", "ready"}  \* on active_contexts_list
Busy   == jobs # <<>> \/ fresh # None \/ leaving # None
Free(h) == hotplug_lock = h /\ ~Busy /\ drop[h] = None

Job(p, a)   == [port |-> p, address |-> a, initialised |-> FALSE]
Found(a)    == {d \in usb_devs : session[d] = a}
Hubs(p)     == {d \in usb_devs : port[d] = Parent[p]}
(* For an entry of sysfs the address is read there.                        *)
JobAddress  == IF Head(jobs).address = None THEN plugged[Head(jobs).port]
               ELSE Head(jobs).address
(* The list goes without what is at p with this address.                   *)
Misses(p, a) == lost' = IF plugged[p] = a THEN lost \cup {Added(p, a)} ELSE lost

(* usbi_get_device_by_session_id and the start of usbi_disconnect_device:  *)
(* the reference found keeps the device.                                   *)
StartDisconnect(a) ==
  IF Active /\ Found(a) # {}
  THEN \E d \in Found(a) : leaving' = d /\ leave' = "found" /\ Ref({d})
  ELSE UNCHANGED <<leaving, leave, refcnt>>

(* linux_netlink_read_message, up to what it calls.                        *)
ReadMessage ==
  LET m == Head(uevents) IN
  /\ uevents' = Tail(uevents)
  /\ jobs' = IF m.action = "add" /\ Active THEN <<Job(m.port, m.address)>> ELSE jobs
  /\ IF m.action = "remove" THEN StartDisconnect(m.address)
     ELSE UNCHANGED <<leaving, leave, refcnt>>

(* linux_enumerate_device: known already, or gone before it could be read. *)
EnumerateSkips(h) ==
  /\ hotplug_lock = h /\ fresh = None /\ jobs # <<>> /\ drop[h] = None
  /\ ~Head(jobs).initialised
  /\ ~There(Head(jobs).port) \/ Found(JobAddress) # {}
  /\ jobs' = Tail(jobs)
  /\ UNCHANGED <<kernel, hotplug_lock, fresh, leaving, leave, monitor, context, usb_devs,
                 hotplug_msgs, devices, refcnt, threads, drop, events, unannounced>>

(* Mutant of Unknown: a device that is listed is taken for a new one.      *)
Unknown_NoLookup == There(Head(jobs).port)

Unknown == There(Head(jobs).port) /\ Found(JobAddress) = {}

(* initialize_device or usbi_sanitize_device fails for what is plugged in: *)
(* the structure just allocated is freed again, and nobody comes back.     *)
EnumerateFails(h) ==
  /\ hotplug_lock = h /\ fresh = None /\ jobs # <<>> /\ drop[h] = None
  /\ ~Head(jobs).initialised /\ Unknown /\ MayLose
  /\ Misses(Head(jobs).port, JobAddress)
  /\ jobs' = Tail(jobs)
  /\ UNCHANGED <<plugged, uevents, plugs, hotplug_lock, fresh, leaving, leave, monitor,
                 context, usb_devs, hotplug_msgs, devices, refcnt, threads, drop, events,
                 unannounced>>

(* linux_get_parent_info: the hub has no device yet and is read first.     *)
EnumerateParent(h) ==
  LET p == Head(jobs).port IN
  /\ hotplug_lock = h /\ fresh = None /\ jobs # <<>> /\ drop[h] = None
  /\ ~Head(jobs).initialised /\ Unknown /\ Parent[p] # None /\ Hubs(p) = {}
  /\ jobs' = <<Job(Parent[p], None), [port |-> p, address |-> JobAddress,
                                      initialised |-> TRUE]>> \o Tail(jobs)
  /\ UNCHANGED <<kernel, hotplug_lock, fresh, leaving, leave, monitor, context, usb_devs,
                 hotplug_msgs, devices, refcnt, threads, drop, events, unannounced>>

(* usbi_alloc_device, and usbi_connect_device until the list is unlocked.  *)
Enumerate(h) ==
  LET p == Head(jobs).port IN
  /\ hotplug_lock = h /\ fresh = None /\ jobs # <<>> /\ drop[h] = None
  /\ \/ Head(jobs).initialised
     \/ Unknown /\ (Parent[p] = None \/ Hubs(p) # {})
  /\ \E d \in Devs \ alive, hub \in IF Hubs(p) = {} THEN {None} ELSE Hubs(p) :
       /\ alive' = alive \cup {d} /\ attached' = attached \cup {d}
       /\ session' = [session EXCEPT ![d] = JobAddress]
       /\ port' = [port EXCEPT ![d] = p]
       /\ parent_dev' = [parent_dev EXCEPT ![d] = hub]
       /\ Ref({d, hub} \ {None})
       /\ usb_devs' = usb_devs \cup {d} /\ fresh' = d
  /\ jobs' = Tail(jobs) /\ lost' = lost \ {Added(p, JobAddress)}
  /\ UNCHANGED <<plugged, uevents, plugs, hotplug_lock, leaving, leave, monitor, context,
                 hotplug_msgs, threads, drop, events, unannounced>>

Message(e, d) == [event |-> e, device |-> d]

(* Mutants of usbi_hotplug_notification: the message goes to the head of   *)
(* the list, or is only queued when nothing is pending.                    *)
usbi_hotplug_notification_Head(e, d) == hotplug_msgs' = <<Message(e, d)>> \o hotplug_msgs

usbi_hotplug_notification_First(e, d) ==
  hotplug_msgs' = IF hotplug_msgs = <<>> THEN <<Message(e, d)>> ELSE hotplug_msgs

usbi_hotplug_notification(e, d) == hotplug_msgs' = Append(hotplug_msgs, Message(e, d))

(* It is only called once usbi_io_init has made the list.                  *)
AnnounceArrival(h) ==
  /\ hotplug_lock = h /\ fresh # None
  /\ IF ctx = "ready" THEN usbi_hotplug_notification("ARRIVED", fresh)
     ELSE UNCHANGED hotplug_msgs
  /\ fresh' = None
  /\ UNCHANGED <<kernel, hotplug_lock, jobs, leaving, leave, monitor, context, usb_devs,
                 devices, refcnt, threads, drop, events, unannounced>>

(* usbi_disconnect_device: off the list, then the message.                 *)
Unlist(h) ==
  /\ hotplug_lock = h /\ leave = "found"
  /\ attached' = attached \ {leaving} /\ usb_devs' = usb_devs \ {leaving}
  /\ leave' = "unlisted"
  /\ UNCHANGED <<kernel, hotplug_lock, jobs, fresh, leaving, monitor, context, hotplug_msgs,
                 alive, session, port, parent_dev, refcnt, threads, drop, events,
                 unannounced>>

AnnounceDeparture(h) ==
  /\ hotplug_lock = h /\ leave = "unlisted"
  /\ IF ctx = "ready"
     THEN usbi_hotplug_notification("LEFT", leaving) /\ UNCHANGED unannounced
     ELSE unannounced' = unannounced \cup {leaving} /\ UNCHANGED hotplug_msgs
  /\ drop' = [drop EXCEPT ![h] = leaving]
  /\ leaving' = None /\ leave' = "none"
  /\ UNCHANGED <<kernel, hotplug_lock, jobs, fresh, monitor, context, usb_devs, devices,
                 refcnt, threads, events>>

(* The monitor thread: it takes one message for each poll().               *)
MonitorReads ==
  /\ monitor = "poll" /\ uevents # <<>> /\ hotplug_lock = None
  /\ monitor' = "reading" /\ hotplug_lock' = Monitor
  /\ ReadMessage
  /\ UNCHANGED <<plugged, plugs, lost, fresh, context, usb_devs, hotplug_msgs, devices, threads,
                 drop, events, unannounced>>

MonitorUnlocks ==
  /\ monitor = "reading" /\ Free(Monitor)
  /\ monitor' = "poll" /\ hotplug_lock' = None
  /\ UNCHANGED <<kernel, work, context, usb_devs, hotplug_msgs, devices, refcnt, threads,
                 drop, events, unannounced>>

(* poll() returns -1 when a signal is handled on this thread, which ends   *)
(* it: only libusb_get_device_list reads the socket from then on.          *)
MonitorEnds ==
  /\ monitor = "poll" /\ monitor' = "ended"
  /\ UNCHANGED <<kernel, hotplug_lock, work, context, usb_devs, hotplug_msgs, devices, refcnt,
                 threads, drop, events, unannounced>>

-----------------------------------------------------------------------------
(* libusb_init and libusb_exit.                                            *)
Idle(t) == pc[t] = "idle" /\ drop[t] = None

InitContext(t) ==
  /\ ctx = "new" /\ Idle(t)
  /\ ctx' = "active" /\ monitor' = "poll" /\ pc' = [pc EXCEPT ![t] = "init"]
  /\ UNCHANGED <<kernel, hotplug_lock, work, scan, usb_devs, hotplug_msgs, devices, refcnt,
                 held, handle, new_callback, drop, events, unannounced>>

StartScan(t) ==
  /\ ctx = "active" /\ pc[t] = "init" /\ hotplug_lock = None
  /\ hotplug_lock' = t /\ ctx' = "scanning" /\ scan' = Ports
  /\ UNCHANGED <<kernel, work, monitor, usb_devs, hotplug_msgs, devices, refcnt, threads,
                 drop, events, unannounced>>

ScanEntry(t, p) ==
  /\ ctx = "scanning" /\ Free(t) /\ p \in scan
  /\ scan' = scan \ {p} /\ jobs' = <<Job(p, None)>>
  /\ UNCHANGED <<kernel, hotplug_lock, fresh, leaving, leave, monitor, ctx, usb_devs,
                 hotplug_msgs, devices, refcnt, threads, drop, events, unannounced>>

EndScan(t) ==
  /\ ctx = "scanning" /\ Free(t) /\ scan = {}
  /\ hotplug_lock' = None /\ ctx' = "scanned"
  /\ UNCHANGED <<kernel, work, monitor, scan, usb_devs, hotplug_msgs, devices, refcnt,
                 threads, drop, events, unannounced>>

(* Also io.c:1135-1139 as one step: a message sent between the list and    *)
(* the event pipe would signal a pipe that is not there yet.               *)
usbi_io_init(t) ==
  /\ ctx = "scanned" /\ pc[t] = "init"
  /\ ctx' = "ready" /\ pc' = [pc EXCEPT ![t] = "idle"]
  /\ UNCHANGED <<kernel, hotplug_lock, work, monitor, scan, usb_devs, hotplug_msgs, devices,
                 refcnt, held, handle, new_callback, drop, events, unannounced>>

(* The application has closed its devices, and no call is under way.       *)
ExitContext(t) ==
  /\ ctx = "ready" /\ ~Busy
  /\ \A u \in Threads : Idle(u) /\ handle[u] = None
  /\ ctx' = "exiting" /\ pc' = [pc EXCEPT ![t] = "exit"]
  /\ cb' = [k \in Callbacks |-> IF cb[k] = "listed" THEN "freed" ELSE cb[k]]
  /\ UNCHANGED <<kernel, hotplug_lock, work, monitor, scan, usb_devs, hotplug_msgs, devices,
                 refcnt, held, handle, new_callback, drop, handler, message, visit,
                 needs_free, told, unannounced>>

(* libusb_handle_events_timeout polls until there are no more messages.    *)
ExitMessage(t) ==
  /\ pc[t] = "exit" /\ drop[t] = None /\ hotplug_msgs # <<>>
  /\ hotplug_msgs' = Tail(hotplug_msgs)
  /\ drop' = [drop EXCEPT ![t] = IF Head(hotplug_msgs).event = "LEFT"
                                 THEN Head(hotplug_msgs).device ELSE None]
  /\ UNCHANGED <<kernel, hotplug_lock, work, monitor, context, usb_devs, devices, refcnt,
                 threads, events, unannounced>>

ExitDevice(t, d) ==
  /\ pc[t] = "exit" /\ drop[t] = None /\ hotplug_msgs = <<>> /\ d \in usb_devs
  /\ usb_devs' = usb_devs \ {d} /\ drop' = [drop EXCEPT ![t] = d]
  /\ UNCHANGED <<kernel, hotplug_lock, work, monitor, context, hotplug_msgs, devices, refcnt,
                 threads, events, unannounced>>

(* linux_netlink_stop_event_monitor waits for the thread.                  *)
ExitMonitor(t) ==
  /\ pc[t] = "exit" /\ drop[t] = None /\ hotplug_msgs = <<>> /\ usb_devs = {}
  /\ monitor \in {"poll", "ended"}
  /\ monitor' = "off" /\ uevents' = <<>> /\ ctx' = "gone" /\ pc' = [pc EXCEPT ![t] = "idle"]
  /\ UNCHANGED <<plugged, plugs, lost, hotplug_lock, work, scan, usb_devs, hotplug_msgs, devices,
                 refcnt, held, handle, new_callback, drop, events, unannounced>>

-----------------------------------------------------------------------------
(* libusb_get_device_list: hotplug_poll, then the copy.                    *)
GetDeviceList(t) ==
  /\ ctx = "ready" /\ Idle(t) /\ t \in Users /\ held[t] = {}
  /\ pc' = [pc EXCEPT ![t] = "poll"]
  /\ UNCHANGED <<kernel, hotplug_lock, work, monitor, context, usb_devs, hotplug_msgs,
                 devices, refcnt, held, handle, new_callback, drop, events, unannounced>>

PollLock(t) ==
  /\ pc[t] = "poll" /\ hotplug_lock = None
  /\ hotplug_lock' = t /\ pc' = [pc EXCEPT ![t] = "polling"]
  /\ UNCHANGED <<kernel, work, monitor, context, usb_devs, hotplug_msgs, devices, refcnt,
                 held, handle, new_callback, drop, events, unannounced>>

Ignored == Head(uevents).action = "other"

PollReads(t) ==
  /\ pc[t] = "polling" /\ Free(t) /\ uevents # <<>> /\ ~Ignored
  /\ ReadMessage
  /\ UNCHANGED <<plugged, plugs, lost, hotplug_lock, fresh, monitor, context, usb_devs,
                 hotplug_msgs, devices, threads, drop, events, unannounced>>

(* The loop ends with the first message that is not read, be it because    *)
(* there is none or because it is not about a device.                      *)
PollEnds(t) ==
  /\ pc[t] = "polling" /\ Free(t)
  /\ \/ uevents = <<>> /\ UNCHANGED uevents
     \/ uevents # <<>> /\ Ignored /\ uevents' = Tail(uevents)
  /\ hotplug_lock' = None /\ pc' = [pc EXCEPT ![t] = "copy"]
  /\ UNCHANGED <<plugged, plugs, lost, work, monitor, context, usb_devs, hotplug_msgs, devices,
                 refcnt, held, handle, new_callback, drop, events, unannounced>>

CopyList(t) ==
  /\ pc[t] = "copy"
  /\ held' = [held EXCEPT ![t] = usb_devs] /\ Ref(usb_devs)
  /\ pc' = [pc EXCEPT ![t] = IF new_callback[t] = None THEN "idle" ELSE "enumerate"]
  /\ UNCHANGED <<kernel, hotplug_lock, work, monitor, context, usb_devs, hotplug_msgs,
                 devices, handle, new_callback, drop, events, unannounced>>

(* libusb_free_device_list and libusb_unref_device.                        *)
Release(t, d) ==
  /\ Idle(t) /\ d \in held[t]
  /\ held' = [held EXCEPT ![t] = @ \ {d}] /\ drop' = [drop EXCEPT ![t] = d]
  /\ UNCHANGED <<kernel, hotplug_lock, work, monitor, context, usb_devs, hotplug_msgs,
                 devices, refcnt, pc, handle, new_callback, events, unannounced>>

(* libusb_open.  The node of a device that is plugged in is there, or is   *)
(* still missing when it has been tried twice (linux_usbfs.c:201-224);     *)
(* that of one that has left is gone.  With any error but ENOENT the       *)
(* reference is given back at once, which is no step here.                 *)
Open(t, d) ==
  /\ ctx = "ready" /\ Idle(t) /\ handle[t] = None /\ d \in held[t] /\ d \in attached
  /\ handle' = [handle EXCEPT ![t] = d] /\ Ref({d})
  /\ \/ InUse(session[d]) /\ UNCHANGED pc
     \/ /\ InUse(session[d]) => MayLose
        /\ pc' = [pc EXCEPT ![t] = "openGone"]
  /\ UNCHANGED <<kernel, hotplug_lock, work, monitor, context, usb_devs, hotplug_msgs,
                 devices, held, new_callback, drop, events, unannounced>>

(* Mutant of OpenFails: the reference that libusb_open took is kept.       *)
OpenFails_KeepsRef(t) ==
  /\ pc[t] = "openFails" /\ Free(t)
  /\ hotplug_lock' = None /\ pc' = [pc EXCEPT ![t] = "idle"]
  /\ handle' = [handle EXCEPT ![t] = None]
  /\ UNCHANGED <<kernel, work, monitor, context, usb_devs, hotplug_msgs, devices, refcnt,
                 held, drop, new_callback, events, unannounced>>

(* op_open finds no node and takes the device for gone: it may be the      *)
(* first to know, or wrong.                                                *)
OpenGone(t) ==
  /\ pc[t] = "openGone" /\ hotplug_lock = None
  /\ hotplug_lock' = t /\ pc' = [pc EXCEPT ![t] = "openFails"]
  /\ IF handle[t] \in attached
     THEN /\ StartDisconnect(session[handle[t]])
          /\ Misses(port[handle[t]], session[handle[t]])
     ELSE UNCHANGED <<leaving, leave, refcnt, lost>>
  /\ UNCHANGED <<plugged, uevents, plugs, jobs, fresh, monitor, context, usb_devs,
                 hotplug_msgs, devices, held, handle, new_callback, drop, events,
                 unannounced>>

OpenFails(t) ==
  /\ pc[t] = "openFails" /\ Free(t)
  /\ hotplug_lock' = None /\ pc' = [pc EXCEPT ![t] = "idle"]
  /\ handle' = [handle EXCEPT ![t] = None] /\ drop' = [drop EXCEPT ![t] = handle[t]]
  /\ UNCHANGED <<kernel, work, monitor, context, usb_devs, hotplug_msgs, devices, refcnt,
                 held, new_callback, events, unannounced>>

Close(t) ==
  /\ ctx = "ready" /\ Idle(t) /\ handle[t] # None
  /\ handle' = [handle EXCEPT ![t] = None] /\ drop' = [drop EXCEPT ![t] = handle[t]]
  /\ UNCHANGED <<kernel, hotplug_lock, work, monitor, context, usb_devs, hotplug_msgs,
                 devices, refcnt, pc, held, new_callback, events, unannounced>>

-----------------------------------------------------------------------------
(* Callbacks.  With ENUMERATE the new one is called, without any lock, for *)
(* every device of a list.  Deregistration only marks a callback.          *)
libusb_hotplug_register_callback(t, k) ==
  /\ ctx = "ready" /\ Idle(t) /\ t \in Registrars /\ cb[k] = "unused"
  /\ cb' = [cb EXCEPT ![k] = "listed"]
  /\ IF k \in Enumerating
     THEN /\ held[t] = {}
          /\ pc' = [pc EXCEPT ![t] = "poll"]
          /\ new_callback' = [new_callback EXCEPT ![t] = k]
     ELSE UNCHANGED <<pc, new_callback>>
  /\ UNCHANGED <<kernel, hotplug_lock, work, monitor, context, usb_devs, hotplug_msgs,
                 devices, refcnt, held, handle, drop, handler, message, visit, needs_free,
                 told, unannounced>>

ReportPresent(t) ==
  LET k == new_callback[t] IN
  /\ pc[t] = "enumerate"
  /\ told' = [told EXCEPT ![k] = IF k \in needs_free THEN @ ELSE @ \cup held[t]]
  /\ pc' = [pc EXCEPT ![t] = "idle"] /\ new_callback' = [new_callback EXCEPT ![t] = None]
  /\ UNCHANGED <<kernel, hotplug_lock, work, monitor, context, usb_devs, hotplug_msgs,
                 devices, refcnt, held, handle, drop, handler, message, visit, cb,
                 needs_free, unannounced>>

Registering(k) == \E t \in Threads : new_callback[t] = k

libusb_hotplug_deregister_callback(t, k) ==
  /\ ctx = "ready" /\ Idle(t) /\ t \in Registrars
  /\ cb[k] = "listed" /\ k \notin needs_free /\ ~Registering(k)
  /\ needs_free' = needs_free \cup {k}
  /\ usbi_hotplug_notification("none", None)
  /\ UNCHANGED <<kernel, hotplug_lock, work, monitor, context, usb_devs, devices, refcnt,
                 threads, drop, handler, message, visit, cb, told, unannounced>>

(* handle_events takes the first message.  A callback registered from now  *)
(* on goes to the head of the list, where this message has been.           *)
TakeMessage(t) ==
  /\ ctx = "ready" /\ Idle(t) /\ t \in EventThreads /\ handler = None /\ hotplug_msgs # <<>>
  /\ handler' = t /\ pc' = [pc EXCEPT ![t] = "events"]
  /\ message' = Head(hotplug_msgs) /\ hotplug_msgs' = Tail(hotplug_msgs)
  /\ visit' = {k \in Callbacks : cb[k] = "listed"}
  /\ UNCHANGED <<kernel, hotplug_lock, work, monitor, context, usb_devs, devices, refcnt,
                 held, handle, new_callback, drop, cb, needs_free, told, unannounced>>

(* usbi_hotplug_match_cb, and the removal of what returned 1.              *)
Returns(k) ==
  IF k \in needs_free THEN {1}
  ELSE IF message.event = "none" THEN {0} ELSE {0, 1}

Hears(k) ==
  IF k \in needs_free THEN told[k]
  ELSE CASE message.event = "ARRIVED" -> told[k] \cup {message.device}
         [] message.event = "LEFT" -> told[k] \ {message.device}
         [] OTHER -> told[k]

usbi_hotplug_match(t, k) ==
  /\ handler = t /\ k \in visit
  /\ visit' = visit \ {k}
  /\ told' = [told EXCEPT ![k] = Hears(k)]
  /\ \E r \in Returns(k) : cb' = [cb EXCEPT ![k] = IF r = 1 THEN "freed" ELSE @]
  /\ UNCHANGED <<kernel, hotplug_lock, work, monitor, context, usb_devs, hotplug_msgs,
                 devices, refcnt, threads, drop, handler, message, needs_free, unannounced>>

(* The message of a departure brings the list's reference.                 *)
FinishMessage(t) ==
  /\ handler = t /\ visit = {}
  /\ drop' = [drop EXCEPT ![t] = IF message.event = "LEFT" THEN message.device ELSE None]
  /\ handler' = None /\ message' = None /\ pc' = [pc EXCEPT ![t] = "idle"]
  /\ UNCHANGED <<kernel, hotplug_lock, work, monitor, context, usb_devs, hotplug_msgs,
                 devices, refcnt, held, handle, new_callback, visit, cb, needs_free, told,
                 unannounced>>

-----------------------------------------------------------------------------
Kernel == \E p \in Ports : PlugIn(p) \/ Unplug(p)

Hotplug(h) ==
  \/ EnumerateSkips(h) \/ EnumerateFails(h) \/ EnumerateParent(h) \/ Enumerate(h)
  \/ AnnounceArrival(h) \/ Unlist(h) \/ AnnounceDeparture(h)

Context(t) ==
  \/ InitContext(t) \/ StartScan(t) \/ EndScan(t) \/ usbi_io_init(t)
  \/ \E p \in Ports : ScanEntry(t, p)
  \/ ExitContext(t) \/ ExitMessage(t) \/ ExitMonitor(t) \/ \E d \in Devs : ExitDevice(t, d)

Use(t) ==
  \/ GetDeviceList(t) \/ PollLock(t) \/ PollReads(t) \/ PollEnds(t) \/ CopyList(t)
  \/ OpenGone(t) \/ OpenFails(t) \/ Close(t)
  \/ \E d \in Devs : Release(t, d) \/ Open(t, d)

Events(t) ==
  \/ TakeMessage(t) \/ FinishMessage(t) \/ ReportPresent(t)
  \/ \E k \in Callbacks : \/ libusb_hotplug_register_callback(t, k)
                          \/ libusb_hotplug_deregister_callback(t, k)
                          \/ usbi_hotplug_match(t, k)

Next ==
  \/ Kernel \/ MonitorReads \/ MonitorUnlocks \/ MonitorEnds
  \/ \E a \in Actors : Unref(a) \/ Hotplug(a)
  \/ \E t \in Threads : Context(t) \/ Use(t) \/ Events(t)

Spec == Init /\ [][Next]_vars

-----------------------------------------------------------------------------
(* Who refers to d.  The initial reference belongs to the list and then to *)
(* the DEVICE_LEFT message, so it is counted once for both.                *)
Departed(d) ==
  \/ d = leaving /\ leave = "unlisted"
  \/ \E i \in DOMAIN hotplug_msgs : hotplug_msgs[i] = Message("LEFT", d)
  \/ message = Message("LEFT", d)
  \/ d \in unannounced

References(d) ==
  {<<"initial", None>> : x \in {y \in {d} : d \in usb_devs \/ Departed(d)}}
  \cup {<<"leaving", None>> : x \in {y \in {d} : d = leaving}}
  \cup {<<"held", t>> : t \in {u \in Threads : d \in held[u]}}
  \cup {<<"handle", t>> : t \in {u \in Threads : d = handle[u]}}
  \cup {<<"drop", a>> : a \in {b \in Actors : d = drop[b]}}
  \cup {<<"child", c>> : c \in {e \in alive : d = parent_dev[e]}}

(* core.c:679-1185: the reference count of every device is the number of   *)
(* references there are - by the list or the message that it left, by the  *)
(* disconnection under way, by lists and handles of the application, by    *)
(* calls about to drop one, and by the devices behind a hub - so it is     *)
(* freed with the last of them and not before.  One that leaves before     *)
(* libusb_init has made the list of messages gets none, so that nobody     *)
(* drops the initial reference (core.c:738-743): it counts for ever, as    *)
(* unannounced.                                                            *)
CountsMatchReferences ==
  \A d \in Devs : refcnt[d] = Cardinality(References(d)) /\ (d \in alive <=> refcnt[d] > 0)

(* core.c:721, 743, hotplug.c:189-211, 299: an ARRIVED message holds no    *)
(* reference, and a registration uses its callback without a lock; neither *)
(* ever refers to what has been freed.                                     *)
NothingDangles ==
  /\ \A i \in DOMAIN hotplug_msgs :
       hotplug_msgs[i].device # None => hotplug_msgs[i].device \in alive
  /\ message # None => message.device \in alive \cup {None}
  /\ \A t \in Threads : new_callback[t] # None => cb[new_callback[t]] # "freed"

(* linux_usbfs.c:1055-1130: whatever the scan, the messages that were      *)
(* queued before it, the hubs enumerated early and the opens that found no *)
(* node have done: once every uevent has been handled, the list has each   *)
(* device that is plugged in, once, and no other - but for what it missed. *)
(* Of what is plugged in that is what the socket lost                      *)
(* (linux_netlink.c:310-320), what could not be read (1083-1095) and what  *)
(* an open took for gone (1288-1299), until it is listed after all; of     *)
(* what has left, what the socket lost.                                    *)
Settled ==
  /\ ctx \in {"scanned", "ready"} /\ hotplug_lock = None /\ uevents = <<>>

Lists(d, p) == port[d] = p /\ session[d] = plugged[p]

ListSettles ==
  Settled =>
    /\ \A p \in Ports : There(p) =>
         Added(p, plugged[p]) \in lost <=> ~\E d \in usb_devs : Lists(d, p)
    /\ \A d \in usb_devs : Lists(d, port[d]) \/ Removed(port[d], session[d]) \in lost
    /\ \A d, e \in usb_devs : session[d] = session[e] => d = e
    /\ usb_devs \subseteq attached

(* linux_usbfs.c:1113-1130, 1288-1302: usbi_get_device_by_session_id has   *)
(* one device to find at most, so the FIXME at linux_usbfs.c:1062 cannot   *)
(* come true while no address is given out twice; and of what is plugged   *)
(* in, only a device whose node an open has missed is disconnected,        *)
(* however late a uevent or an open comes.                                 *)
LookupsExact ==
  /\ \A d, e \in usb_devs : session[d] = session[e] => d = e
  /\ leave = "found" => \/ ~InUse(session[leaving])
                         \/ Added(port[leaving], session[leaving]) \in lost

(* hotplug.c:157-312: once every message has been handled, no callback     *)
(* believes a device to be present that has left, and one registered with  *)
(* ENUMERATE knows of all that are present.                                *)
Quiet == hotplug_msgs = <<>> /\ message = None /\ ~Busy

CallbacksKnow ==
  ctx = "ready" /\ Quiet =>
    \A k \in Callbacks : cb[k] = "listed" /\ k \notin needs_free /\ ~Registering(k) =>
      /\ told[k] \subseteq usb_devs
      /\ k \in Enumerating => told[k] = usb_devs

(* linux_usbfs.c:1290-1291: "device will still be marked as attached if    *)
(* hotplug monitor thread hasn't processed remove event yet" - what an     *)
(* open disconnects has left.                                              *)
DisconnectsOnlyGone == leave = "found" => ~InUse(session[leaving])

(* libusbi.h:680-682: "In this function the backend should ensure any      *)
(* pending hotplug events are fully processed before returning."           *)
PollProcessesAll ==
  [][\A t \in Threads : pc[t] = "polling" /\ pc'[t] = "copy" =>
       \A i \in DOMAIN uevents' : uevents'[i].action = "other"]_vars

=============================================================================

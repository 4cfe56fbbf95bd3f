----------------------------- MODULE EventLoop ------------------------------
(***************************************************************************)
(* Event handling of one libusb context by several threads                 *)
(* (libusb-1.0.21: io.c, core.c, sync.c and the event part of              *)
(* os/linux_usbfs.c): one thread at a time holds events_lock and polls,    *)
(* the others wait on a condition variable, and libusb_open,               *)
(* libusb_close, libusb_interrupt_event_handler, an unplugged device and   *)
(* the hotplug thread interrupt the poll through the event pipe.           *)
(*                                                                         *)
(* Threads call libusb_open, libusb_close, the synchronous transfer        *)
(* functions, libusb_handle_events and libusb_interrupt_event_handler in   *)
(* any order.  A section under event_data_lock, or under another lock that  *)
(* is taken and released around it, is one step; a lock held across steps  *)
(* is a variable.                                                          *)
(* Transfers have no timeout here, so the timerfd is never armed and       *)
(* handle_timeouts does nothing; the time a blocked call allows may run    *)
(* out at any moment, but no property relies on it.                        *)
(***************************************************************************)
EXTENDS Integers, Sequences, FiniteSets

CONSTANTS
  Threads,         \* the threads of the application
  Handles,         \* the devices it may open, each at most once at a time
  None,            \* no thread, no handle
  Removable,       \* the devices that may be unplugged
  Interrupters,    \* the threads that may call libusb_interrupt_event_handler
  CallbackCloses,  \* the transfer callback calls libusb_close
  HotplugCloses    \* the DEVICE_LEFT callback calls libusb_close

ASSUME NoneAssumption == None \notin Threads \cup Handles
ASSUME ClosesAssumption == CallbackCloses \in BOOLEAN /\ HotplugCloses \in BOOLEAN

VARIABLES
  \* guarded by event_data_lock
  event_flags,     \* subset of {"POLLFDS_MODIFIED", "USER_INTERRUPT"}
  device_close,    \* the threads counted by ctx->device_close
  hotplug_msgs,    \* DEVICE_LEFT messages, by the device that left
  event_pipe,      \* bytes in the event pipe
  ipollfds,        \* fds to be polled, by handle
  \* locks held across steps
  events_lock, event_handler_active, event_waiters_lock, open_devs_lock,
  \* the event handler's own: ctx->pollfds and the locals of handle_events
  pollfds, revents, special_event, redo, cur, cbHandle,
  \* threads and what they have asked for
  pc,              \* next step of every thread
  call,            \* the API call it is in
  dev,             \* the handle that call is about
  handling,        \* threads whose event_handling_key is set
  completed,       \* the flag sync_transfer_cb sets
  inflight,        \* threads whose transfer is submitted and not reported
  usable,          \* handles the application may use
  \* devices, files and the kernel
  open_devs, fds, fd_removed, attached, gone, ready,
  \* history
  interrupted      \* handlers an interrupt call found handling events

eventData == <<event_flags, device_close, hotplug_msgs, event_pipe, ipollfds>>
locks     == <<events_lock, event_handler_active, event_waiters_lock, open_devs_lock>>
handler   == <<pollfds, revents, special_event, redo, cur, cbHandle>>
threads   == <<call, dev, handling, completed, inflight, usable>>
devices   == <<open_devs, fds, fd_removed, attached, gone, ready>>
vars      == <<eventData, locks, handler, pc, threads, devices, interrupted>>

NoEvents == [pipe |-> FALSE, fds |-> {}, err |-> {}]

Goto(t, s) == pc' = [pc EXCEPT ![t] = s]

(* The initial pollfds are those libusb_init added: the event pipe itself. *)
Init ==
  /\ event_flags = {"POLLFDS_MODIFIED"} /\ event_pipe = 1
  /\ device_close = {} /\ hotplug_msgs = << >> /\ ipollfds = {}
  /\ events_lock = None /\ event_handler_active = FALSE
  /\ event_waiters_lock = None /\ open_devs_lock = None
  /\ pollfds = {} /\ revents = NoEvents /\ special_event = FALSE /\ redo = FALSE
  /\ cur = None /\ cbHandle = None
  /\ pc = [t \in Threads |-> "idle"]
  /\ call = [t \in Threads |-> "none"]
  /\ dev = [t \in Threads |-> None]
  /\ handling = {}
  /\ completed = [t \in Threads |-> FALSE]
  /\ inflight = {} /\ usable = {}
  /\ open_devs = {} /\ fds = {} /\ fd_removed = {}
  /\ attached = Handles /\ gone = {} /\ ready = {}
  /\ interrupted = {}

-----------------------------------------------------------------------------
(* The event pipe.  It is written and read only under event_data_lock; the *)
(* read end blocks, so clearing an empty pipe would never return.          *)
usbi_pending_events(flags, closing, msgs) ==
  flags # {} \/ closing # {} \/ msgs # << >>

PendingNow == usbi_pending_events(event_flags, device_close, hotplug_msgs)

usbi_signal_event == event_pipe' = event_pipe + 1
usbi_clear_event  == event_pipe > 0 /\ event_pipe' = event_pipe - 1

SignalIfFirst == IF PendingNow THEN UNCHANGED event_pipe ELSE usbi_signal_event
ClearIfLast   == IF usbi_pending_events(event_flags', device_close', hotplug_msgs')
                 THEN UNCHANGED event_pipe ELSE usbi_clear_event

(* As usbi_fd_notification, but signals whatever is pending already.       *)
usbi_fd_notification_AlwaysSignals ==
  /\ event_flags' = event_flags \cup {"POLLFDS_MODIFIED"}
  /\ usbi_signal_event
  /\ UNCHANGED <<device_close, hotplug_msgs>>

usbi_fd_notification ==
  /\ event_flags' = event_flags \cup {"POLLFDS_MODIFIED"}
  /\ SignalIfFirst
  /\ UNCHANGED <<device_close, hotplug_msgs>>

usbi_add_pollfd(h) == ipollfds' = ipollfds \cup {h} /\ usbi_fd_notification

(* As usbi_remove_pollfd, but does not tell the event handler.             *)
usbi_remove_pollfd_Silent(h) ==
  /\ ipollfds' = ipollfds \ {h}
  /\ UNCHANGED <<event_flags, device_close, hotplug_msgs, event_pipe>>

usbi_remove_pollfd(h) ==
  IF h \in ipollfds
  THEN ipollfds' = ipollfds \ {h} /\ usbi_fd_notification
  ELSE UNCHANGED eventData

usbi_hotplug_notification(h) ==
  /\ hotplug_msgs' = Append(hotplug_msgs, h)
  /\ SignalIfFirst
  /\ UNCHANGED <<event_flags, device_close, ipollfds>>

usbi_disconnect_device(h) ==
  /\ attached' = attached \ {h}
  /\ usbi_hotplug_notification(h)

-----------------------------------------------------------------------------
(* libusb_open: the fd joins the poll set before the handle joins          *)
(* open_devs.                                                              *)
OpenFd(t, h) ==
  /\ pc[t] = "idle" /\ h \notin fds \cup gone /\ h \in attached
  /\ fds' = fds \cup {h}
  /\ fd_removed' = fd_removed \ {h}
  /\ call' = [call EXCEPT ![t] = "open"] /\ dev' = [dev EXCEPT ![t] = h]
  /\ Goto(t, "addPollfd")
  /\ UNCHANGED <<eventData, locks, handler, handling, completed, inflight,
                 usable, open_devs, attached, gone, ready, interrupted>>

(* op_open meets a device that is gone and not yet reported as such.       *)
OpenGone(t, h) ==
  /\ pc[t] = "idle" /\ h \in gone \cap attached
  /\ usbi_disconnect_device(h)
  /\ UNCHANGED <<locks, handler, pc, threads, open_devs, fds, fd_removed, gone,
                 ready, interrupted>>

OpenAddPollfd(t) ==
  /\ pc[t] = "addPollfd"
  /\ usbi_add_pollfd(dev[t])
  /\ Goto(t, "listHandle")
  /\ UNCHANGED <<locks, handler, threads, devices, interrupted>>

OpenListHandle(t) ==
  /\ pc[t] = "listHandle" /\ open_devs_lock = None
  /\ open_devs' = open_devs \cup {dev[t]}
  /\ usable' = usable \cup {dev[t]}
  /\ call' = [call EXCEPT ![t] = "none"] /\ dev' = [dev EXCEPT ![t] = None]
  /\ Goto(t, "idle")
  /\ UNCHANGED <<eventData, locks, handler, handling, completed, inflight,
                 fds, fd_removed, attached, gone, ready, interrupted>>

(* libusb_close by a thread that is not handling events.  The application  *)
(* closes a handle once, and not while a transfer on it is outstanding, so *)
(* do_close finds no flying transfer to drop.                              *)
Unused(h) == \A u \in inflight : dev[u] # h

(* As CloseAnnounce, but leaves the handler asleep.                        *)
CloseAnnounce_NoSignal(t, h) ==
  /\ pc[t] = "idle" /\ h \in usable /\ Unused(h)
  /\ usable' = usable \ {h}
  /\ device_close' = device_close \cup {t}
  /\ call' = [call EXCEPT ![t] = "close"] /\ dev' = [dev EXCEPT ![t] = h]
  /\ Goto(t, "lockEvents")
  /\ UNCHANGED <<event_flags, hotplug_msgs, event_pipe, ipollfds, locks, handler,
                 handling, completed, inflight, devices, interrupted>>

CloseAnnounce(t, h) ==
  /\ pc[t] = "idle" /\ h \in usable /\ Unused(h)
  /\ usable' = usable \ {h}
  /\ device_close' = device_close \cup {t}
  /\ SignalIfFirst
  /\ call' = [call EXCEPT ![t] = "close"] /\ dev' = [dev EXCEPT ![t] = h]
  /\ Goto(t, "lockEvents")
  /\ UNCHANGED <<event_flags, hotplug_msgs, ipollfds, locks, handler, handling,
                 completed, inflight, devices, interrupted>>

(* As libusb_lock_events, but does not wait for the handler to leave.      *)
libusb_lock_events_NoWait(t) ==
  /\ pc[t] = "lockEvents"
  /\ events_lock' = t
  /\ Goto(t, "setActive")
  /\ UNCHANGED <<eventData, event_handler_active, event_waiters_lock,
                 open_devs_lock, handler, threads, devices, interrupted>>

libusb_lock_events(t) ==
  /\ pc[t] = "lockEvents" /\ events_lock = None
  /\ events_lock' = t
  /\ Goto(t, "setActive")
  /\ UNCHANGED <<eventData, event_handler_active, event_waiters_lock,
                 open_devs_lock, handler, threads, devices, interrupted>>

(* do_close, also reached from a callback of the event handler.            *)
Closing(t) == IF t \in handling THEN cbHandle ELSE dev[t]

CloseUnlist(t) ==
  /\ pc[t] = "unlist" /\ open_devs_lock = None
  /\ open_devs' = open_devs \ {Closing(t)}
  /\ Goto(t, "removePollfd")
  /\ UNCHANGED <<eventData, locks, handler, threads, fds, fd_removed, attached,
                 gone, ready, interrupted>>

CloseRemovePollfd(t) ==
  /\ pc[t] = "removePollfd"
  /\ IF Closing(t) \in fd_removed THEN UNCHANGED eventData
                                  ELSE usbi_remove_pollfd(Closing(t))
  /\ Goto(t, "closeFd")
  /\ UNCHANGED <<locks, handler, threads, devices, interrupted>>

CloseFd(t) ==
  /\ pc[t] = "closeFd"
  /\ fds' = fds \ {Closing(t)}
  /\ Goto(t, IF t \in handling THEN "dispatch" ELSE "closeDone")
  /\ UNCHANGED <<eventData, locks, handler, threads, open_devs, fd_removed,
                 attached, gone, ready, interrupted>>

CloseDone(t) ==
  /\ pc[t] = "closeDone"
  /\ device_close' = device_close \ {t}
  /\ UNCHANGED <<event_flags, hotplug_msgs, ipollfds>>
  /\ ClearIfLast
  /\ Goto(t, "setInactive")
  /\ UNCHANGED <<locks, handler, threads, devices, interrupted>>

(* Handlers that are past taking events_lock and have not set the active   *)
(* flag back: the ones an interrupt is meant for.                          *)
HandlingNow == {t \in Threads : events_lock = t /\ call[t] # "close"
                                /\ pc[t] \notin {"setActive", "setInactive", "unlockEvents"}}

libusb_interrupt_event_handler(t) ==
  /\ pc[t] = "idle" /\ t \in Interrupters
  /\ IF PendingNow THEN UNCHANGED <<event_flags, event_pipe>>
     ELSE event_flags' = event_flags \cup {"USER_INTERRUPT"} /\ usbi_signal_event
  /\ interrupted' = interrupted \cup HandlingNow
  /\ UNCHANGED <<device_close, hotplug_msgs, ipollfds, locks, handler, pc,
                 threads, devices>>

-----------------------------------------------------------------------------
(* A synchronous transfer: submit, then handle events until completed.     *)
SubmitTransfer(t, h) ==
  /\ pc[t] = "idle" /\ h \in usable \ gone
  /\ completed' = [completed EXCEPT ![t] = FALSE]
  /\ inflight' = inflight \cup {t}
  /\ call' = [call EXCEPT ![t] = "transfer"] /\ dev' = [dev EXCEPT ![t] = h]
  /\ Goto(t, "check")
  /\ UNCHANGED <<eventData, locks, handler, handling, usable, devices, interrupted>>

(* libusb_handle_events: one round, with no transfer of its own to wait for.*)
HandleEvents(t) ==
  /\ pc[t] = "idle"
  /\ call' = [call EXCEPT ![t] = "events"]
  /\ Goto(t, "readClose")
  /\ UNCHANGED <<eventData, locks, handler, dev, handling, completed, inflight,
                 usable, devices, interrupted>>

(* Back in the caller: while (!*completed) of                              *)
(* sync_transfer_wait_for_completion; the other calls return.              *)
WaitLoop(t) ==
  /\ pc[t] = "check"
  /\ IF call[t] = "transfer" => completed[t]
     THEN /\ call' = [call EXCEPT ![t] = "none"] /\ dev' = [dev EXCEPT ![t] = None]
          /\ Goto(t, "idle")
     ELSE Goto(t, "readClose") /\ UNCHANGED <<call, dev>>
  /\ UNCHANGED <<eventData, locks, handler, handling, completed, inflight,
                 usable, devices, interrupted>>

(* libusb_try_lock_events: device_close is read under event_data_lock, the *)
(* lock is tried after that section has ended.                             *)
TryLockReadClose(t) ==
  /\ pc[t] = "readClose"
  /\ Goto(t, IF device_close = {} THEN "tryLock" ELSE "lockWaiters")
  /\ UNCHANGED <<eventData, locks, handler, threads, devices, interrupted>>

TryLock(t) ==
  /\ pc[t] = "tryLock"
  /\ IF events_lock = None
     THEN events_lock' = t /\ Goto(t, "setActive")
     ELSE Goto(t, "lockWaiters") /\ UNCHANGED events_lock
  /\ UNCHANGED <<eventData, event_handler_active, event_waiters_lock,
                 open_devs_lock, handler, threads, devices, interrupted>>

(* The end of taking events_lock; a waiter's `completed' is then looked at *)
(* again, and only the owner of the lock could be setting it.              *)
SetActive(t) ==
  /\ pc[t] = "setActive"
  /\ event_handler_active' = TRUE
  /\ Goto(t, CASE call[t] = "close" -> "unlist"
               [] call[t] = "transfer" /\ completed[t] -> "setInactive"
               [] OTHER -> "handleEvents")
  /\ UNCHANGED <<eventData, events_lock, event_waiters_lock, open_devs_lock,
                 handler, threads, devices, interrupted>>

(* libusb_unlock_events, in its three parts.                               *)
SetInactive(t) ==
  /\ pc[t] = "setInactive"
  /\ event_handler_active' = FALSE
  /\ interrupted' = interrupted \ {t}
  /\ Goto(t, "unlockEvents")
  /\ UNCHANGED <<eventData, events_lock, event_waiters_lock, open_devs_lock,
                 handler, threads, devices>>

UnlockEvents(t) ==
  /\ pc[t] = "unlockEvents"
  /\ events_lock' = None
  /\ Goto(t, "broadcast")
  /\ UNCHANGED <<eventData, event_handler_active, event_waiters_lock,
                 open_devs_lock, handler, threads, devices, interrupted>>

(* As BroadcastWaiters, but wakes nobody up.                               *)
BroadcastWaiters_NoBroadcast(t) ==
  /\ pc[t] = "broadcast" /\ event_waiters_lock = None
  /\ Goto(t, "check")
  /\ UNCHANGED <<eventData, locks, handler, threads, devices, interrupted>>

BroadcastWaiters(t) ==
  /\ pc[t] = "broadcast" /\ event_waiters_lock = None
  /\ pc' = [u \in Threads |->
               CASE u = t -> "check"
                 [] u # t /\ pc[u] = "waiting" -> "woken"
                 [] OTHER -> pc[u]]
  /\ UNCHANGED <<eventData, locks, handler, threads, devices, interrupted>>

-----------------------------------------------------------------------------
(* The event waiter's side of libusb_handle_events_timeout_completed.      *)
LockWaiters(t) ==
  /\ pc[t] = "lockWaiters" /\ event_waiters_lock = None
  /\ IF call[t] = "transfer" /\ completed[t] THEN Goto(t, "check") /\ UNCHANGED event_waiters_lock
     ELSE Goto(t, "activeClose") /\ event_waiters_lock' = t
  /\ UNCHANGED <<eventData, events_lock, event_handler_active, open_devs_lock,
                 handler, threads, devices, interrupted>>

(* libusb_event_handler_active reads device_close, then the flag; a thread *)
(* that goes to sleep gives up the waiters lock in the same step.          *)
Sleep(t) == Goto(t, "waiting") /\ event_waiters_lock' = None

HandlerActiveReadClose(t) ==
  /\ pc[t] = "activeClose"
  /\ IF device_close # {} THEN Sleep(t)
     ELSE Goto(t, "activeFlag") /\ UNCHANGED event_waiters_lock
  /\ UNCHANGED <<eventData, events_lock, event_handler_active, open_devs_lock,
                 handler, threads, devices, interrupted>>

(* As HandlerActiveReadFlag, but trusts the earlier failure to lock.       *)
HandlerActiveReadFlag_NoRecheck(t) ==
  /\ pc[t] = "activeFlag"
  /\ Sleep(t)
  /\ UNCHANGED <<eventData, events_lock, event_handler_active, open_devs_lock,
                 handler, threads, devices, interrupted>>

HandlerActiveReadFlag(t) ==
  /\ pc[t] = "activeFlag"
  /\ IF event_handler_active THEN Sleep(t)
     ELSE Goto(t, "readClose") /\ event_waiters_lock' = None
  /\ UNCHANGED <<eventData, events_lock, event_handler_active, open_devs_lock,
                 handler, threads, devices, interrupted>>

WaitTimeout(t) ==
  /\ pc[t] = "waiting"
  /\ Goto(t, "woken")
  /\ UNCHANGED <<eventData, locks, handler, threads, devices, interrupted>>

(* The condition variable takes the waiters lock back, the caller drops it.*)
WaitDone(t) ==
  /\ pc[t] = "woken" /\ event_waiters_lock = None
  /\ Goto(t, "check")
  /\ UNCHANGED <<eventData, locks, handler, threads, devices, interrupted>>

-----------------------------------------------------------------------------
(* handle_events, by the owner of events_lock.  The poll set is rebuilt    *)
(* only when it has changed.                                               *)
HandleEventsStart(t) ==
  /\ pc[t] = "handleEvents"
  /\ handling' = handling \cup {t}
  /\ redo' = FALSE
  /\ IF "POLLFDS_MODIFIED" \in event_flags
     THEN /\ pollfds' = ipollfds
          /\ event_flags' = event_flags \ {"POLLFDS_MODIFIED"}
          /\ UNCHANGED <<device_close, hotplug_msgs, ipollfds>>
          /\ ClearIfLast
     ELSE UNCHANGED <<pollfds, eventData>>
  /\ Goto(t, "poll")
  /\ UNCHANGED <<locks, revents, special_event, cur, cbHandle, call, dev,
                 completed, inflight, usable, devices, interrupted>>

(* What poll() reports: an URB to reap, POLLERR once the device is gone,   *)
(* POLLNVAL for a descriptor that has been closed.                         *)
Readable == {h \in pollfds : h \in gone \/ h \notin fds
                            \/ \E u \in ready : dev[u] = h}
Quiet    == event_pipe = 0 /\ Readable = {}

Poll(t) ==
  /\ pc[t] = "poll" /\ ~Quiet
  /\ revents' = [pipe |-> event_pipe > 0, fds |-> Readable,
                 err |-> Readable \cap gone \cap fds]
  /\ special_event' = FALSE
  /\ Goto(t, IF event_pipe > 0 THEN "pipeEvents" ELSE "backend")
  /\ UNCHANGED <<eventData, locks, pollfds, redo, cur, cbHandle, threads,
                 devices, interrupted>>

(* The time has run out (at once when the poll is a repeated one), or a    *)
(* signal has interrupted the call.                                        *)
PollTimeout(t) ==
  /\ pc[t] = "poll" /\ Quiet
  /\ handling' = handling \ {t}
  /\ Goto(t, "setInactive")
  /\ UNCHANGED <<eventData, locks, handler, call, dev, completed, inflight,
                 usable, devices, interrupted>>

(* The section that serves the event pipe: it takes at most one hotplug    *)
(* message.  completed_transfers stays empty with the Linux backend.       *)
PipeEvents(t) ==
  /\ pc[t] = "pipeEvents"
  /\ event_flags' = event_flags \ {"USER_INTERRUPT"}
  /\ IF hotplug_msgs # << >>
     THEN /\ hotplug_msgs' = Tail(hotplug_msgs) /\ cbHandle' = Head(hotplug_msgs)
          /\ special_event' = TRUE
          /\ Goto(t, "hotplugCallback")
     ELSE /\ UNCHANGED <<hotplug_msgs, cbHandle, special_event>>
          /\ Goto(t, "dispatch")
  /\ UNCHANGED <<device_close, ipollfds>>
  /\ ClearIfLast
  /\ UNCHANGED <<locks, pollfds, revents, redo, cur, threads, devices, interrupted>>

HotplugCallback(t) ==
  /\ pc[t] = "hotplugCallback"
  /\ IF HotplugCloses /\ cbHandle \in usable /\ Unused(cbHandle)
     THEN usable' = usable \ {cbHandle} /\ Goto(t, "unlist")
     ELSE UNCHANGED usable /\ Goto(t, "dispatch")
  /\ UNCHANGED <<eventData, locks, handler, call, dev, handling, completed,
                 inflight, devices, interrupted>>

Dispatch(t) ==
  /\ pc[t] = "dispatch"
  /\ Goto(t, IF revents.fds = {} THEN "handled" ELSE "backend")
  /\ UNCHANGED <<eventData, locks, handler, threads, devices, interrupted>>

(* op_handle_events holds open_devs_lock over everything it reports.       *)
BackendLock(t) ==
  /\ pc[t] = "backend" /\ open_devs_lock = None
  /\ open_devs_lock' = t
  /\ Goto(t, "reap")
  /\ UNCHANGED <<eventData, events_lock, event_handler_active,
                 event_waiters_lock, handler, threads, devices, interrupted>>

Polled == revents.fds \cap open_devs

(* POLLERR: the fd leaves the poll set, the device is reported as gone.    *)
DisconnectFd(t, h) ==
  /\ pc[t] = "reap" /\ h \in revents.err \cap Polled
  /\ usbi_remove_pollfd(h)
  /\ fd_removed' = fd_removed \cup {h}
  /\ revents' = [revents EXCEPT !.err = @ \ {h}]
  /\ cbHandle' = h
  /\ Goto(t, "disconnect")
  /\ UNCHANGED <<locks, pollfds, special_event, redo, cur, threads, open_devs,
                 fds, attached, gone, ready, interrupted>>

DisconnectDevice(t) ==
  /\ pc[t] = "disconnect"
  /\ IF cbHandle \in attached THEN usbi_disconnect_device(cbHandle)
                             ELSE UNCHANGED <<attached, eventData>>
  /\ Goto(t, "reap")
  /\ UNCHANGED <<locks, handler, threads, open_devs, fds, fd_removed, gone,
                 ready, interrupted>>

(* Transfers there is a result for: an URB came back, or                   *)
(* usbi_handle_disconnect ends every transfer of the handle.               *)
Reapable == {u \in inflight : /\ dev[u] \in Polled \ revents.err
                              /\ u \in ready \/ dev[u] \in fd_removed}

Reap(t, u) ==
  /\ pc[t] = "reap" /\ u \in Reapable
  /\ ready' = ready \ {u}
  /\ cur' = u /\ cbHandle' = dev[u]
  /\ Goto(t, "callback")
  /\ UNCHANGED <<eventData, locks, pollfds, revents, special_event, redo,
                 threads, open_devs, fds, fd_removed, attached, gone, interrupted>>

(* The callback of the transfer; it may close the handle it was made on.   *)
TransferCallback(t) ==
  /\ pc[t] = "callback"
  /\ completed' = [completed EXCEPT ![cur] = TRUE]
  /\ inflight' = inflight \ {cur}
  /\ IF CallbackCloses /\ cbHandle \in usable
        /\ \A u \in inflight \ {cur} : dev[u] # cbHandle
     THEN usable' = usable \ {cbHandle} /\ Goto(t, "unlist")
     ELSE UNCHANGED usable /\ Goto(t, "unref")
  /\ UNCHANGED <<eventData, locks, handler, call, dev, handling, devices, interrupted>>

(* usbi_handle_transfer_completion still uses the handle: unref of its     *)
(* device after the callback.                                              *)
UnrefDevice(t) ==
  /\ pc[t] = "unref"
  /\ Goto(t, "reap")
  /\ UNCHANGED <<eventData, locks, handler, threads, devices, interrupted>>

BackendUnlock(t) ==
  /\ pc[t] = "reap" /\ revents.err \cap Polled = {} /\ Reapable = {}
  /\ open_devs_lock' = None
  /\ Goto(t, "handled")
  /\ UNCHANGED <<eventData, events_lock, event_handler_active,
                 event_waiters_lock, handler, threads, devices, interrupted>>

(* A special event is followed by one more poll, without waiting.          *)
AfterEvents(t) ==
  /\ pc[t] = "handled"
  /\ IF special_event
     THEN redo' = TRUE /\ Goto(t, "poll") /\ UNCHANGED handling
     ELSE UNCHANGED redo /\ Goto(t, "setInactive") /\ handling' = handling \ {t}
  /\ UNCHANGED <<eventData, locks, pollfds, revents, special_event, cur, cbHandle,
                 call, dev, completed, inflight, usable, devices, interrupted>>

-----------------------------------------------------------------------------
(* The kernel and the hotplug monitor thread.                              *)
UrbCompletes(u) ==
  /\ u \in inflight \ ready /\ ~\E t \in Threads : pc[t] = "callback" /\ cur = u
  /\ ready' = ready \cup {u}
  /\ UNCHANGED <<eventData, locks, handler, pc, threads, open_devs, fds,
                 fd_removed, attached, gone, interrupted>>

Unplug(h) ==
  /\ h \in Removable \ gone
  /\ gone' = gone \cup {h}
  /\ UNCHANGED <<eventData, locks, handler, pc, threads, open_devs, fds,
                 fd_removed, attached, ready, interrupted>>

linux_device_disconnected(h) ==
  /\ h \in gone \cap attached
  /\ usbi_disconnect_device(h)
  /\ UNCHANGED <<locks, handler, pc, threads, open_devs, fds, fd_removed, gone,
                 ready, interrupted>>

Api(t) ==
  \/ \E h \in Handles : \/ OpenFd(t, h) \/ OpenGone(t, h) \/ CloseAnnounce(t, h)
                       \/ SubmitTransfer(t, h)
  \/ HandleEvents(t) \/ libusb_interrupt_event_handler(t)

Locking(t) ==
  \/ libusb_lock_events(t) \/ OpenListHandle(t) \/ CloseUnlist(t)
  \/ LockWaiters(t) \/ BroadcastWaiters(t) \/ WaitDone(t) \/ BackendLock(t)

Step(t) ==
  \/ OpenAddPollfd(t) \/ CloseRemovePollfd(t) \/ CloseFd(t) \/ CloseDone(t)
  \/ WaitLoop(t) \/ TryLockReadClose(t) \/ TryLock(t) \/ SetActive(t)
  \/ SetInactive(t) \/ UnlockEvents(t)
  \/ HandlerActiveReadClose(t) \/ HandlerActiveReadFlag(t)
  \/ HandleEventsStart(t) \/ Poll(t) \/ PipeEvents(t)
  \/ HotplugCallback(t) \/ Dispatch(t)
  \/ \E h \in Handles : DisconnectFd(t, h)
  \/ DisconnectDevice(t)
  \/ \E u \in Threads : Reap(t, u)
  \/ TransferCallback(t) \/ UnrefDevice(t) \/ BackendUnlock(t) \/ AfterEvents(t)

Environment ==
  \/ \E t \in Threads : PollTimeout(t) \/ WaitTimeout(t) \/ UrbCompletes(t)
  \/ \E h \in Handles : Unplug(h) \/ linux_device_disconnected(h)

Next == (\E t \in Threads : Api(t) \/ Locking(t) \/ Step(t)) \/ Environment

(* The device takes time: other threads cannot resubmit their transfers so *)
(* fast that one pass of the reap loop, which ends when the kernel has     *)
(* nothing more to give, goes on for ever.                                 *)
ReapLoopEnds(t) == []<>(open_devs_lock # t)

(* Threads run, and a mutex is not handed to others for ever while a       *)
(* thread waits for it.  Nothing is asked of devices, and no timeout ever  *)
(* has to fire, except that of a poll that may not wait.                   *)
Fairness ==
  /\ \A t \in Threads : WF_vars(Step(t)) /\ SF_vars(Locking(t))
                        /\ WF_vars(redo /\ PollTimeout(t))
                        /\ ReapLoopEnds(t)

Safety == Init /\ [][Next]_vars
Spec   == Safety /\ Fairness

-----------------------------------------------------------------------------
States == {"idle", "addPollfd", "listHandle", "lockEvents", "setActive", "unlist",
           "removePollfd", "closeFd", "closeDone", "setInactive", "unlockEvents",
           "broadcast", "check", "readClose", "tryLock", "lockWaiters",
           "activeClose", "activeFlag", "waiting", "woken", "handleEvents", "poll",
           "pipeEvents", "hotplugCallback", "dispatch", "backend", "reap",
           "disconnect", "callback", "unref", "handled"}

TypeOK ==
  /\ event_flags \subseteq {"POLLFDS_MODIFIED", "USER_INTERRUPT"}
  /\ device_close \subseteq Threads
  /\ hotplug_msgs \in Seq(Handles)
  /\ event_pipe \in Nat
  /\ ipollfds \subseteq Handles /\ pollfds \subseteq Handles
  /\ events_lock \in Threads \cup {None}
  /\ event_handler_active \in BOOLEAN
  /\ event_waiters_lock \in Threads \cup {None}
  /\ open_devs_lock \in Threads \cup {None}
  /\ revents \in [pipe : BOOLEAN, fds : SUBSET Handles, err : SUBSET Handles]
  /\ special_event \in BOOLEAN /\ redo \in BOOLEAN
  /\ cur \in Threads \cup {None} /\ cbHandle \in Handles \cup {None}
  /\ pc \in [Threads -> States]
  /\ call \in [Threads -> {"none", "open", "close", "transfer", "events"}]
  /\ dev \in [Threads -> Handles \cup {None}]
  /\ handling \subseteq Threads
  /\ completed \in [Threads -> BOOLEAN]
  /\ inflight \subseteq Threads /\ ready \subseteq Threads
  /\ usable \subseteq Handles
  /\ open_devs \subseteq Handles /\ fds \subseteq Handles
  /\ fd_removed \subseteq Handles
  /\ attached \subseteq Handles /\ gone \subseteq Handles
  /\ interrupted \subseteq Threads

(* The event pipe holds one byte exactly while some event is pending, so   *)
(* that poll() returns at once then and sleeps otherwise.  Every writer of *)
(* a flag, of device_close and of the message list has to decide this from *)
(* what it sees under event_data_lock.                                     *)
PipeMatchesPending == event_pipe = IF PendingNow THEN 1 ELSE 0

(* Who has seen the pipe readable, or counted itself in device_close, still*)
(* finds the byte when it gets to usbi_clear_event: the blocking read never*)
(* hangs with event_data_lock held, whatever others did in between.        *)
PipeReadReturns ==
  \A t \in Threads : pc[t] \in {"pipeEvents", "closeDone"} => event_pipe > 0

(* A handler asleep in poll() polls exactly the current fds, and neither a *)
(* closer nor a hotplug message is waiting for it to get up.               *)
SleeperMissesNothing ==
  \A t \in Threads : (pc[t] = "poll" /\ Quiet) =>
    pollfds = ipollfds /\ device_close = {} /\ hotplug_msgs = << >>

(* Nobody closes a file descriptor another thread is about to poll: only   *)
(* the repeated poll after a hotplug callback may meet a closed one.       *)
PollsOpenFds ==
  \A t \in Threads : (pc[t] = "poll" /\ ~redo) => pollfds \subseteq fds

(* A device is closed by nobody while another thread is anywhere in        *)
(* handle_events, where it uses the fds it polled and the handles behind   *)
(* them: a completion still dereferences its handle after the callback     *)
(* that lets the application close it.                                     *)
ClosesAlone ==
  \A t, u \in Threads :
    (pc[t] \in {"unlist", "removePollfd", "closeFd"} /\ u \in handling) => u = t

(* Threads that will broadcast to the event waiters, if they go on.        *)
WillBroadcast(u) ==
  pc[u] \in {"lockEvents", "setActive", "unlist", "removePollfd", "closeFd",
             "closeDone", "setInactive", "unlockEvents", "broadcast",
             "handleEvents", "poll", "pipeEvents", "hotplugCallback", "dispatch",
             "backend", "reap", "disconnect", "callback", "unref", "handled"}

(* No lost wake-up: whenever a thread sleeps as an event waiter, another   *)
(* one is handling events or closing, and will wake it up when it stops.   *)
WaiterHasWaker ==
  \A t \in Threads : pc[t] = "waiting" => \E u \in Threads : WillBroadcast(u)

(* A transfer that has come back, or whose device is gone, is reported and *)
(* its synchronous call returns, whichever thread handles events, whatever *)
(* devices are opened and closed meanwhile, and without any timeout.       *)
FinishedTransfersReturn ==
  \A t \in Threads :
    (call[t] = "transfer" /\ (t \in ready \/ dev[t] \in gone)) ~> call[t] # "transfer"

(* libusb_close gets the event handling lock and returns: handlers that    *)
(* keep calling into libusb cannot keep it out.                            *)
ClosesReturn == \A t \in Threads : call[t] = "close" ~> call[t] # "close"

(* "Interrupt any active thread that is handling events" (io.c:1879): a    *)
(* handler that was interrupted does not go to sleep in poll().            *)
InterruptNotLost ==
  \A t \in interrupted : ~(pc[t] = "poll" /\ ~redo /\ Quiet)

(* libusb_close called "by the current event handler" needs no             *)
(* interruption (core.c:1420): it does not wait for a lock of its own.     *)
CallbackMayClose ==
  \A t \in Threads : ~(pc[t] = "unlist" /\ open_devs_lock = t)
=============================================================================

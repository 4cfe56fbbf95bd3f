-------------------------- MODULE EventLoopProofs ---------------------------
(***************************************************************************)
(* Theorems about EventLoop, for any number of threads and devices.  One   *)
(* inductive invariant carries them all: the states of a thread that owns  *)
(* events_lock, that handles events, and that is counted in device_close.  *)
(***************************************************************************)
EXTENDS EventLoop, TLAPS

(* From taking events_lock until it is given back.                         *)
OwnerStates == {"setActive", "unlist", "removePollfd", "closeFd", "closeDone",
                "setInactive", "unlockEvents", "handleEvents", "poll",
                "pipeEvents", "hotplugCallback", "dispatch", "backend", "reap",
                "disconnect", "callback", "unref", "handled"}

HandlerStates == {"poll", "pipeEvents", "hotplugCallback", "dispatch", "backend",
                  "reap", "disconnect", "callback", "unref", "handled"}

CloserStates == {"unlist", "removePollfd", "closeFd"}

(* A thread in libusb_open knows the device.                               *)
HandlesKnown == \A t \in Threads :
  pc[t] \in {"addPollfd", "listHandle"} => dev[t] \in Handles

(* Mutual exclusion.                                                       *)
LockHeld == \A t \in Threads : pc[t] \in OwnerStates => events_lock = t

(* event_handling_key is set exactly inside handle_events, callbacks       *)
(* included.                                                               *)
HandlersHandle == \A t \in Threads :
  /\ pc[t] \in HandlerStates => t \in handling
  /\ t \in handling => pc[t] \in HandlerStates \cup CloserStates

(* libusb_close never goes through the waiting of libusb_handle_events.    *)
WaitersDoNotClose == \A t \in Threads :
  pc[t] \in {"readClose", "tryLock", "lockWaiters", "activeClose", "activeFlag"} =>
    call[t] # "close"

(* A closer is counted from its announcement until it is done.             *)
ClosersCounted == \A t \in Threads :
  \/ pc[t] \in {"lockEvents", "closeDone"}
  \/ pc[t] = "setActive" /\ call[t] = "close"
  \/ pc[t] \in CloserStates /\ t \notin handling
  => t \in device_close

(* What poll() saw in the pipe is still pending when it is served.         *)
ReaderHasByte == \A t \in Threads : pc[t] = "pipeEvents" => PendingNow

(* The handler's poll set is out of date only while that is pending.       *)
PollSetCurrent == "POLLFDS_MODIFIED" \notin event_flags => pollfds = ipollfds

Protocol == LockHeld /\ HandlersHandle /\ WaitersDoNotClose /\ ClosersCounted

(* A thread counted in device_close is on its way through libusb_close,    *)
(* and it is not the event handler.                                        *)
CountedClosers == \A t \in device_close :
  /\ pc[t] \in {"lockEvents", "setActive", "closeDone"} \cup CloserStates
  /\ call[t] = "close" /\ t \notin handling

(* From setting event_handler_active until it is reset.                    *)
ActiveStates == OwnerStates \ {"setActive", "unlockEvents"}

(* event_handler_active is set only while some thread owns events_lock.    *)
ActiveIsOwned == event_handler_active =>
  \E u \in Threads : pc[u] \in ActiveStates

Wakeup == CountedClosers /\ ActiveIsOwned /\ WaiterHasWaker

(* A thread in libusb_open, or in libusb_close before its fd is closed,    *)
(* has a handle of its own.                                                *)
Holds(t) == \/ pc[t] \in {"addPollfd", "listHandle", "lockEvents"} \cup CloserStates
            \/ pc[t] = "setActive" /\ call[t] = "close"

HoldersAlone ==
  /\ \A t \in Threads : Holds(t) => Closing(t) \in fds \ usable
  /\ \A t, u \in Threads : Holds(t) /\ Holds(u) /\ t # u => Closing(t) # Closing(u)

(* Whatever the application may use, the event handler looks through, or   *)
(* poll() is to be given, is open.                                         *)
ListedAreOpen == usable \cup open_devs \cup ipollfds \subseteq fds

(* Handles leave these lists before they are closed, and join them after   *)
(* they are opened.                                                        *)
ListedInOrder ==
  /\ fd_removed \cap ipollfds = {}
  /\ \A t \in Threads :
       /\ pc[t] = "addPollfd" => Closing(t) \notin open_devs \cup fd_removed
       /\ pc[t] \in {"removePollfd", "closeFd"} => Closing(t) \notin open_devs
       /\ pc[t] = "closeFd" => Closing(t) \notin ipollfds

HandleLife == HoldersAlone /\ ListedAreOpen /\ ListedInOrder

(* The types the control steps, and the steps of the handles, depend on.   *)
ControlTypes ==
  /\ pc \in [Threads -> States]
  /\ call \in [Threads -> {"none", "open", "close", "transfer", "events"}]

HandleTypes == ControlTypes /\ dev \in [Threads -> Handles \cup {None}]

IInv == /\ TypeOK /\ HandlesKnown /\ Protocol
        /\ PipeMatchesPending /\ PollSetCurrent /\ ReaderHasByte
        /\ Wakeup /\ HandleLife /\ PollsOpenFds

-----------------------------------------------------------------------------
(* What event_data_lock guards.                                            *)
EventTypes ==
  /\ event_flags \subseteq {"POLLFDS_MODIFIED", "USER_INTERRUPT"}
  /\ device_close \subseteq Threads
  /\ hotplug_msgs \in Seq(Handles)
  /\ event_pipe \in Nat
  /\ ipollfds \subseteq Handles

(* The writers of the poll set and of the message list keep its types.     *)
LEMMA AddTyped ==
  ASSUME EventTypes, NEW h \in Handles, usbi_add_pollfd(h)
  PROVE  EventTypes'
BY DEF EventTypes, usbi_add_pollfd, usbi_fd_notification, SignalIfFirst,
   usbi_signal_event

(* So does leaving the poll set, which may change nothing.                 *)
LEMMA RemoveTyped ==
  ASSUME EventTypes, NEW h, usbi_remove_pollfd(h)
  PROVE  EventTypes'
<1>1. CASE h \in ipollfds
  <2>1. ipollfds' = ipollfds \ {h} /\ usbi_fd_notification
    BY <1>1 DEF usbi_remove_pollfd
  <2> QED
    BY <2>1 DEF EventTypes, usbi_fd_notification, SignalIfFirst, usbi_signal_event
<1>2. CASE h \notin ipollfds
  BY <1>2 DEF EventTypes, usbi_remove_pollfd, eventData
<1> QED BY <1>1, <1>2

(* A hotplug message is queued with its types kept.                        *)
LEMMA HotplugTyped ==
  ASSUME EventTypes, NEW h \in Handles, usbi_hotplug_notification(h)
  PROVE  EventTypes'
BY DEF EventTypes, usbi_hotplug_notification, SignalIfFirst, usbi_signal_event

(* libusb_interrupt_event_handler keeps the types of the event data.       *)
LEMMA InterruptTyped ==
  ASSUME EventTypes, NEW t \in Threads, libusb_interrupt_event_handler(t)
  PROVE  EventTypes'
<1>1. CASE PendingNow
  BY <1>1 DEF EventTypes, libusb_interrupt_event_handler
<1>2. CASE ~PendingNow
  <2>1. event_flags' = event_flags \cup {"USER_INTERRUPT"} /\ usbi_signal_event
    BY <1>2 DEF libusb_interrupt_event_handler
  <2>2. UNCHANGED <<device_close, hotplug_msgs, ipollfds>>
    BY DEF libusb_interrupt_event_handler
  <2> QED BY <2>1, <2>2 DEF EventTypes, usbi_signal_event
<1> QED BY <1>1, <1>2

(* The start of handle_events takes the poll set over with its types.      *)
LEMMA StartTyped ==
  ASSUME EventTypes, pollfds \subseteq Handles, NEW t \in Threads, HandleEventsStart(t)
  PROVE  EventTypes' /\ pollfds' \subseteq Handles
<1>1. CASE "POLLFDS_MODIFIED" \in event_flags
  <2>1. /\ pollfds' = ipollfds /\ event_flags' = event_flags \ {"POLLFDS_MODIFIED"}
        /\ UNCHANGED <<device_close, hotplug_msgs, ipollfds>> /\ ClearIfLast
    BY <1>1 DEF HandleEventsStart
  <2> QED BY <2>1 DEF EventTypes, ClearIfLast, usbi_clear_event
<1>2. CASE "POLLFDS_MODIFIED" \notin event_flags
  BY <1>2 DEF EventTypes, HandleEventsStart, eventData
<1> QED BY <1>1, <1>2

(* Serving the event pipe keeps the types: the message taken is a handle's.*)
LEMMA PipeEventsTyped ==
  ASSUME EventTypes, cbHandle \in Handles \cup {None}, NEW t \in Threads, PipeEvents(t)
  PROVE  EventTypes' /\ cbHandle' \in Handles \cup {None}
<1>1. event_pipe' \in Nat
  BY DEF EventTypes, PipeEvents, ClearIfLast, usbi_clear_event
<1>2. CASE hotplug_msgs = << >>
  BY <1>1, <1>2 DEF EventTypes, PipeEvents
<1>3. CASE hotplug_msgs # << >>
  BY <1>1, <1>3 DEF EventTypes, PipeEvents
<1> QED BY <1>2, <1>3

(* The types are kept, and a thread in libusb_open has a device.  Actions  *)
(* in the order of the module.                                             *)
LEMMA TypeStep ==
  ASSUME TypeOK, HandlesKnown, [Next]_vars
  PROVE  TypeOK' /\ HandlesKnown'
<1> USE DEF TypeOK, HandlesKnown, States, Goto, NoEvents
<1>1. ASSUME NEW t \in Threads, OpenAddPollfd(t) PROVE TypeOK' /\ HandlesKnown'
  BY <1>1 DEF OpenAddPollfd, SignalIfFirst, usbi_signal_event, usbi_add_pollfd,
     usbi_fd_notification, locks, handler, threads, devices
<1>2. ASSUME NEW t \in Threads, OpenListHandle(t) PROVE TypeOK' /\ HandlesKnown'
  BY <1>2 DEF OpenListHandle, eventData, locks, handler
<1>3. ASSUME NEW t \in Threads, HandleEvents(t) PROVE TypeOK' /\ HandlesKnown'
  BY <1>3 DEF HandleEvents, eventData, locks, handler, devices
<1>4. ASSUME NEW t \in Threads, libusb_interrupt_event_handler(t)
      PROVE TypeOK' /\ HandlesKnown'
  <2>1. EventTypes'
    BY <1>4, InterruptTyped DEF EventTypes
  <2>2. interrupted' \subseteq Threads
    BY <1>4 DEF libusb_interrupt_event_handler, HandlingNow
  <2> QED BY <1>4, <2>1, <2>2 DEF EventTypes, libusb_interrupt_event_handler,
     locks, handler, threads, devices
<1>5. ASSUME NEW t \in Threads, libusb_lock_events(t) PROVE TypeOK' /\ HandlesKnown'
  BY <1>5 DEF libusb_lock_events, eventData, handler, threads, devices
<1>6. ASSUME NEW t \in Threads, CloseUnlist(t) PROVE TypeOK' /\ HandlesKnown'
  BY <1>6 DEF CloseUnlist, Closing, eventData, locks, handler, threads
<1>7. ASSUME NEW t \in Threads, CloseRemovePollfd(t) PROVE TypeOK' /\ HandlesKnown'
  <2>1. EventTypes'
    BY <1>7, RemoveTyped DEF EventTypes, CloseRemovePollfd, eventData
  <2> QED BY <1>7, <2>1 DEF EventTypes, CloseRemovePollfd, locks, handler,
     threads, devices
<1>8. ASSUME NEW t \in Threads, CloseFd(t) PROVE TypeOK' /\ HandlesKnown'
  BY <1>8 DEF CloseFd, Closing, eventData, locks, handler, threads
<1>9. ASSUME NEW t \in Threads, CloseDone(t) PROVE TypeOK' /\ HandlesKnown'
  BY <1>9 DEF CloseDone, ClearIfLast, usbi_clear_event, locks, handler,
     threads, devices
<1>10. ASSUME NEW t \in Threads, WaitLoop(t) PROVE TypeOK' /\ HandlesKnown'
  BY <1>10 DEF WaitLoop, eventData, locks, handler, devices
<1>11. ASSUME NEW t \in Threads, TryLockReadClose(t) PROVE TypeOK' /\ HandlesKnown'
  BY <1>11 DEF TryLockReadClose, eventData, locks, handler, threads, devices
<1>12. ASSUME NEW t \in Threads, TryLock(t) PROVE TypeOK' /\ HandlesKnown'
  <2>1. CASE events_lock = None
    BY <1>12, <2>1 DEF TryLock, eventData, handler, threads, devices
  <2>2. CASE events_lock # None
    BY <1>12, <2>2 DEF TryLock, eventData, handler, threads, devices
  <2> QED BY <2>1, <2>2
<1>13. ASSUME NEW t \in Threads, SetActive(t) PROVE TypeOK' /\ HandlesKnown'
  BY <1>13 DEF SetActive, eventData, handler, threads, devices
<1>14. ASSUME NEW t \in Threads, SetInactive(t) PROVE TypeOK' /\ HandlesKnown'
  <2>1. pc' \in [Threads -> States] /\ HandlesKnown'
    BY <1>14 DEF SetInactive, threads
  <2>2. interrupted' \subseteq Threads /\ event_handler_active' \in BOOLEAN
    BY <1>14 DEF SetInactive
  <2>3. TypeOK'
    BY <1>14, <2>1, <2>2 DEF SetInactive, eventData, handler, threads, devices
  <2> QED BY <2>1, <2>3
<1>15. ASSUME NEW t \in Threads, UnlockEvents(t) PROVE TypeOK' /\ HandlesKnown'
  BY <1>15 DEF UnlockEvents, eventData, handler, threads, devices
<1>16. ASSUME NEW t \in Threads, BroadcastWaiters(t) PROVE TypeOK' /\ HandlesKnown'
  BY <1>16 DEF BroadcastWaiters, eventData, locks, handler, threads, devices
<1>17. ASSUME NEW t \in Threads, LockWaiters(t) PROVE TypeOK' /\ HandlesKnown'
  BY <1>17 DEF LockWaiters, eventData, handler, threads, devices
<1>18. ASSUME NEW t \in Threads, HandlerActiveReadClose(t) PROVE TypeOK' /\ HandlesKnown'
  BY <1>18 DEF HandlerActiveReadClose, Sleep, eventData, handler, threads,
     devices
<1>19. ASSUME NEW t \in Threads, HandlerActiveReadFlag(t) PROVE TypeOK' /\ HandlesKnown'
  BY <1>19 DEF HandlerActiveReadFlag, Sleep, eventData, handler, threads,
     devices
<1>20. ASSUME NEW t \in Threads, WaitTimeout(t) PROVE TypeOK' /\ HandlesKnown'
  BY <1>20 DEF WaitTimeout, eventData, locks, handler, threads, devices
<1>21. ASSUME NEW t \in Threads, WaitDone(t) PROVE TypeOK' /\ HandlesKnown'
  BY <1>21 DEF WaitDone, eventData, locks, handler, threads, devices
<1>22. ASSUME NEW t \in Threads, HandleEventsStart(t) PROVE TypeOK' /\ HandlesKnown'
  <2>1. EventTypes' /\ pollfds' \subseteq Handles
    BY <1>22, StartTyped DEF EventTypes
  <2>2. pc' \in [Threads -> States] /\ HandlesKnown'
    BY <1>22 DEF HandleEventsStart
  <2>3. redo' \in BOOLEAN /\ handling' \subseteq Threads
    BY <1>22 DEF HandleEventsStart
  <2> QED BY <1>22, <2>1, <2>2, <2>3 DEF EventTypes, HandleEventsStart, locks, devices
<1>23. ASSUME NEW t \in Threads, Poll(t) PROVE TypeOK' /\ HandlesKnown'
  <2>1. revents' \in [pipe : BOOLEAN, fds : SUBSET Handles, err : SUBSET Handles]
    BY <1>23 DEF Poll, Readable
  <2>2. pc' \in [Threads -> States] /\ HandlesKnown'
    BY <1>23 DEF Poll, threads
  <2> QED BY <1>23, <2>1, <2>2 DEF Poll, eventData, locks, threads, devices
<1>24. ASSUME NEW t \in Threads, PollTimeout(t) PROVE TypeOK' /\ HandlesKnown'
  BY <1>24 DEF PollTimeout, eventData, locks, handler, devices
<1>25. ASSUME NEW t \in Threads, PipeEvents(t) PROVE TypeOK' /\ HandlesKnown'
  <2>1. EventTypes' /\ cbHandle' \in Handles \cup {None}
    BY <1>25, PipeEventsTyped DEF EventTypes
  <2>2. pc' \in [Threads -> States] /\ HandlesKnown' /\ special_event' \in BOOLEAN
    <3>1. CASE hotplug_msgs = << >>
      BY <1>25, <3>1 DEF PipeEvents, threads
    <3>2. CASE hotplug_msgs # << >>
      BY <1>25, <3>2 DEF PipeEvents, threads
    <3> QED BY <3>1, <3>2
  <2> QED BY <1>25, <2>1, <2>2 DEF EventTypes, PipeEvents, locks, threads, devices
<1>26. ASSUME NEW t \in Threads, HotplugCallback(t) PROVE TypeOK' /\ HandlesKnown'
  BY <1>26 DEF HotplugCallback, eventData, locks, handler, devices
<1>27. ASSUME NEW t \in Threads, Dispatch(t) PROVE TypeOK' /\ HandlesKnown'
  BY <1>27 DEF Dispatch, eventData, locks, handler, threads, devices
<1>28. ASSUME NEW t \in Threads, BackendLock(t) PROVE TypeOK' /\ HandlesKnown'
  BY <1>28 DEF BackendLock, eventData, handler, threads, devices
<1>29. ASSUME NEW t \in Threads, DisconnectDevice(t) PROVE TypeOK' /\ HandlesKnown'
  <2>1. EventTypes' /\ attached' \subseteq Handles
    BY <1>29, HotplugTyped DEF EventTypes, DisconnectDevice,
       usbi_disconnect_device, eventData
  <2> QED BY <1>29, <2>1 DEF EventTypes, DisconnectDevice, locks, handler, threads
<1>30. ASSUME NEW t \in Threads, TransferCallback(t) PROVE TypeOK' /\ HandlesKnown'
  <2>1. completed' \in [Threads -> BOOLEAN] /\ inflight' \subseteq Threads /\ usable' \subseteq Handles
    BY <1>30 DEF TransferCallback
  <2>2. pc' \in [Threads -> States] /\ HandlesKnown'
    BY <1>30 DEF TransferCallback
  <2> QED BY <1>30, <2>1, <2>2 DEF TransferCallback, eventData, locks, handler,
     devices
<1>31. ASSUME NEW t \in Threads, UnrefDevice(t) PROVE TypeOK' /\ HandlesKnown'
  BY <1>31 DEF UnrefDevice, eventData, locks, handler, threads, devices
<1>32. ASSUME NEW t \in Threads, BackendUnlock(t) PROVE TypeOK' /\ HandlesKnown'
  BY <1>32 DEF BackendUnlock, eventData, handler, threads, devices
<1>33. ASSUME NEW t \in Threads, AfterEvents(t) PROVE TypeOK' /\ HandlesKnown'
  <2>1. CASE special_event
    BY <1>33, <2>1 DEF AfterEvents, eventData, locks, devices
  <2>2. CASE ~special_event
    BY <1>33, <2>2 DEF AfterEvents, eventData, locks, devices
  <2> QED BY <2>1, <2>2
<1>34. ASSUME NEW t \in Threads, UrbCompletes(t) PROVE TypeOK' /\ HandlesKnown'
  BY <1>34 DEF UrbCompletes, eventData, locks, handler, threads
<1>35. ASSUME NEW t \in Threads, NEW h \in Handles, OpenFd(t, h)
      PROVE TypeOK' /\ HandlesKnown'
  BY <1>35 DEF OpenFd, eventData, locks, handler
<1>36. ASSUME NEW t \in Threads, NEW h \in Handles, OpenGone(t, h)
      PROVE TypeOK' /\ HandlesKnown'
  BY <1>36 DEF OpenGone, SignalIfFirst, usbi_signal_event,
     usbi_disconnect_device, usbi_hotplug_notification, locks, handler, threads
<1>37. ASSUME NEW t \in Threads, NEW h \in Handles, CloseAnnounce(t, h)
      PROVE TypeOK' /\ HandlesKnown'
  BY <1>37 DEF CloseAnnounce, SignalIfFirst, usbi_signal_event, locks, handler,
     devices
<1>38. ASSUME NEW t \in Threads, NEW h \in Handles, SubmitTransfer(t, h)
      PROVE TypeOK' /\ HandlesKnown'
  BY <1>38 DEF SubmitTransfer, eventData, locks, handler, devices
<1>39. ASSUME NEW t \in Threads, NEW h \in Handles, DisconnectFd(t, h)
      PROVE TypeOK' /\ HandlesKnown'
  <2>1. EventTypes'
    BY <1>39, RemoveTyped DEF EventTypes, DisconnectFd
  <2>2. revents' \in [pipe : BOOLEAN, fds : SUBSET Handles, err : SUBSET Handles]
    BY <1>39 DEF DisconnectFd
  <2> QED BY <1>39, <2>1, <2>2 DEF EventTypes, DisconnectFd, locks, threads
<1>40. ASSUME NEW t \in Threads, NEW u \in Threads, Reap(t, u)
      PROVE TypeOK' /\ HandlesKnown'
  BY <1>40 DEF Reap, Reapable, Polled, eventData, locks, threads
<1>41. ASSUME NEW h \in Handles, Unplug(h) PROVE TypeOK' /\ HandlesKnown'
  BY <1>41 DEF Unplug, eventData, locks, handler, threads
<1>42. ASSUME NEW h \in Handles, linux_device_disconnected(h) PROVE TypeOK' /\ HandlesKnown'
  BY <1>42 DEF linux_device_disconnected, SignalIfFirst, usbi_signal_event,
     usbi_disconnect_device, usbi_hotplug_notification, locks, handler, threads
<1>43. CASE UNCHANGED vars
  BY <1>43 DEF vars, eventData, locks, handler, threads, devices
<1>44. QED
  BY <1>1, <1>2, <1>3, <1>4, <1>5, <1>6, <1>7, <1>8, <1>9, <1>10, <1>11, <1>12,
     <1>13, <1>14, <1>15, <1>16, <1>17, <1>18, <1>19, <1>20, <1>21, <1>22,
     <1>23, <1>24, <1>25, <1>26, <1>27, <1>28, <1>29, <1>30, <1>31, <1>32,
     <1>33, <1>34, <1>35, <1>36, <1>37, <1>38, <1>39, <1>40, <1>41, <1>42, <1>43
  DEF Next, Api, Locking, Step, Environment

-----------------------------------------------------------------------------
(* A change of the poll set leaves the closers alone.                      *)
LEMMA RemoveKeepsClosers ==
  ASSUME NEW h, usbi_remove_pollfd(h)
  PROVE  device_close' = device_close
<1>1. CASE h \in ipollfds
  BY <1>1 DEF usbi_remove_pollfd, usbi_fd_notification
<1>2. CASE h \notin ipollfds
  BY <1>2 DEF usbi_remove_pollfd, eventData
<1> QED BY <1>1, <1>2

(* The protocol of events_lock, of the handling threads and of device_close*)
(* is kept by every action.                                                *)
LEMMA ProtocolStep ==
  ASSUME ControlTypes, Protocol, [Next]_vars
  PROVE  Protocol'
<1> USE NoneAssumption DEF ControlTypes, Protocol, LockHeld, HandlersHandle,
   WaitersDoNotClose,
            ClosersCounted, OwnerStates, HandlerStates, CloserStates, States, Goto
<1>1. ASSUME NEW t \in Threads, OpenAddPollfd(t) PROVE Protocol'
  BY <1>1 DEF OpenAddPollfd, usbi_add_pollfd, usbi_fd_notification, locks, threads
<1>2. ASSUME NEW t \in Threads, OpenListHandle(t) PROVE Protocol'
  BY <1>2 DEF OpenListHandle, eventData, locks
<1>3. ASSUME NEW t \in Threads, HandleEvents(t) PROVE Protocol'
  BY <1>3 DEF HandleEvents, eventData, locks
<1>4. ASSUME NEW t \in Threads, libusb_interrupt_event_handler(t) PROVE Protocol'
  BY <1>4 DEF libusb_interrupt_event_handler, locks, threads
<1>5. ASSUME NEW t \in Threads, libusb_lock_events(t) PROVE Protocol'
  BY <1>5 DEF libusb_lock_events, eventData, threads
<1>6. ASSUME NEW t \in Threads, CloseUnlist(t) PROVE Protocol'
  BY <1>6 DEF CloseUnlist, eventData, locks, threads
<1>7. ASSUME NEW t \in Threads, CloseRemovePollfd(t) PROVE Protocol'
  BY <1>7, RemoveKeepsClosers DEF CloseRemovePollfd, eventData, locks, threads
<1>8. ASSUME NEW t \in Threads, CloseFd(t) PROVE Protocol'
  BY <1>8 DEF CloseFd, eventData, locks, threads
<1>9. ASSUME NEW t \in Threads, CloseDone(t) PROVE Protocol'
  BY <1>9 DEF CloseDone, locks, threads
<1>10. ASSUME NEW t \in Threads, WaitLoop(t) PROVE Protocol'
  BY <1>10 DEF WaitLoop, eventData, locks
<1>11. ASSUME NEW t \in Threads, TryLockReadClose(t) PROVE Protocol'
  BY <1>11 DEF TryLockReadClose, eventData, locks, threads
<1>12. ASSUME NEW t \in Threads, TryLock(t) PROVE Protocol'
  BY <1>12 DEF TryLock, eventData, threads
<1>13. ASSUME NEW t \in Threads, SetActive(t) PROVE Protocol'
  BY <1>13 DEF SetActive, eventData, threads
<1>14. ASSUME NEW t \in Threads, SetInactive(t) PROVE Protocol'
  BY <1>14 DEF SetInactive, eventData, threads
<1>15. ASSUME NEW t \in Threads, UnlockEvents(t) PROVE Protocol'
  BY <1>15 DEF UnlockEvents, eventData, threads
<1>16. ASSUME NEW t \in Threads, BroadcastWaiters(t) PROVE Protocol'
  BY <1>16 DEF BroadcastWaiters, eventData, locks, threads
<1>17. ASSUME NEW t \in Threads, LockWaiters(t) PROVE Protocol'
  BY <1>17 DEF LockWaiters, eventData, threads
<1>18. ASSUME NEW t \in Threads, HandlerActiveReadClose(t) PROVE Protocol'
  BY <1>18 DEF HandlerActiveReadClose, Sleep, eventData, threads
<1>19. ASSUME NEW t \in Threads, HandlerActiveReadFlag(t) PROVE Protocol'
  BY <1>19 DEF HandlerActiveReadFlag, Sleep, eventData, threads
<1>20. ASSUME NEW t \in Threads, WaitTimeout(t) PROVE Protocol'
  BY <1>20 DEF WaitTimeout, eventData, locks, threads
<1>21. ASSUME NEW t \in Threads, WaitDone(t) PROVE Protocol'
  BY <1>21 DEF WaitDone, eventData, locks, threads
<1>22. ASSUME NEW t \in Threads, HandleEventsStart(t) PROVE Protocol'
  BY <1>22 DEF HandleEventsStart, eventData, locks
<1>23. ASSUME NEW t \in Threads, Poll(t) PROVE Protocol'
  BY <1>23 DEF Poll, eventData, locks, threads
<1>24. ASSUME NEW t \in Threads, PollTimeout(t) PROVE Protocol'
  BY <1>24 DEF PollTimeout, eventData, locks
<1>25. ASSUME NEW t \in Threads, PipeEvents(t) PROVE Protocol'
  BY <1>25 DEF PipeEvents, locks, threads
<1>26. ASSUME NEW t \in Threads, HotplugCallback(t) PROVE Protocol'
  BY <1>26 DEF HotplugCallback, eventData, locks
<1>27. ASSUME NEW t \in Threads, Dispatch(t) PROVE Protocol'
  BY <1>27 DEF Dispatch, eventData, locks, threads
<1>28. ASSUME NEW t \in Threads, BackendLock(t) PROVE Protocol'
  BY <1>28 DEF BackendLock, eventData, threads
<1>29. ASSUME NEW t \in Threads, DisconnectDevice(t) PROVE Protocol'
  BY <1>29 DEF DisconnectDevice, usbi_disconnect_device,
     usbi_hotplug_notification, eventData, locks, threads
<1>30. ASSUME NEW t \in Threads, TransferCallback(t) PROVE Protocol'
  BY <1>30 DEF TransferCallback, eventData, locks
<1>31. ASSUME NEW t \in Threads, UnrefDevice(t) PROVE Protocol'
  BY <1>31 DEF UnrefDevice, eventData, locks, threads
<1>32. ASSUME NEW t \in Threads, BackendUnlock(t) PROVE Protocol'
  BY <1>32 DEF BackendUnlock, eventData, threads
<1>33. ASSUME NEW t \in Threads, AfterEvents(t) PROVE Protocol'
  BY <1>33 DEF AfterEvents, eventData, locks
<1>34. ASSUME NEW t \in Threads, UrbCompletes(t) PROVE Protocol'
  BY <1>34 DEF UrbCompletes, eventData, locks, threads
<1>35. ASSUME NEW t \in Threads, NEW h \in Handles, OpenFd(t, h) PROVE Protocol'
  BY <1>35 DEF OpenFd, eventData, locks
<1>36. ASSUME NEW t \in Threads, NEW h \in Handles, OpenGone(t, h) PROVE Protocol'
  BY <1>36 DEF OpenGone, usbi_disconnect_device, usbi_hotplug_notification,
     locks, threads
<1>37. ASSUME NEW t \in Threads, NEW h \in Handles, CloseAnnounce(t, h) PROVE Protocol'
  BY <1>37 DEF CloseAnnounce, locks
<1>38. ASSUME NEW t \in Threads, NEW h \in Handles, SubmitTransfer(t, h) PROVE Protocol'
  BY <1>38 DEF SubmitTransfer, eventData, locks
<1>39. ASSUME NEW t \in Threads, NEW h \in Handles, DisconnectFd(t, h) PROVE Protocol'
  BY <1>39, RemoveKeepsClosers DEF DisconnectFd, locks, threads
<1>40. ASSUME NEW t \in Threads, NEW u \in Threads, Reap(t, u) PROVE Protocol'
  BY <1>40 DEF Reap, eventData, locks, threads
<1>41. ASSUME NEW h \in Handles, Unplug(h) PROVE Protocol'
  BY <1>41 DEF Unplug, eventData, locks, threads
<1>42. ASSUME NEW h \in Handles, linux_device_disconnected(h) PROVE Protocol'
  BY <1>42 DEF linux_device_disconnected, usbi_disconnect_device,
     usbi_hotplug_notification, locks, threads
<1>43. CASE UNCHANGED vars
  BY <1>43 DEF vars, eventData, locks, threads, PendingNow
<1>44. QED
  BY <1>1, <1>2, <1>3, <1>4, <1>5, <1>6, <1>7, <1>8, <1>9, <1>10, <1>11, <1>12,
     <1>13, <1>14, <1>15, <1>16, <1>17, <1>18, <1>19, <1>20, <1>21, <1>22,
     <1>23, <1>24, <1>25, <1>26, <1>27, <1>28, <1>29, <1>30, <1>31, <1>32,
     <1>33, <1>34, <1>35, <1>36, <1>37, <1>38, <1>39, <1>40, <1>41, <1>42, <1>43
  DEF Next, Api, Locking, Step, Environment

-----------------------------------------------------------------------------
(* The steps under event_data_lock that change what it guards.             *)
Writer ==
  \/ \E t \in Threads :
       \/ \E h \in Handles : OpenGone(t, h) \/ CloseAnnounce(t, h) \/ DisconnectFd(t, h)
       \/ OpenAddPollfd(t) \/ CloseRemovePollfd(t) \/ CloseDone(t)
       \/ libusb_interrupt_event_handler(t) \/ HandleEventsStart(t) \/ PipeEvents(t)
       \/ DisconnectDevice(t)
  \/ \E h \in Handles : linux_device_disconnected(h)

(* All other steps leave the pipe and what is pending alone.               *)
LEMMA OthersLeaveEventData ==
  ASSUME [Next]_vars
  PROVE  UNCHANGED <<eventData, pollfds>> \/ Writer
<1>1. ASSUME NEW t \in Threads, Api(t) PROVE UNCHANGED <<eventData, pollfds>> \/ Writer
  BY <1>1 DEF Api, Writer, handler, OpenFd, SubmitTransfer, HandleEvents
<1>2. ASSUME NEW t \in Threads, Locking(t) PROVE UNCHANGED <<eventData, pollfds>>
  BY <1>2 DEF Locking, handler, libusb_lock_events, OpenListHandle, CloseUnlist,
     LockWaiters,
     BroadcastWaiters, WaitDone, BackendLock
<1>3. ASSUME NEW t \in Threads, Step(t) PROVE UNCHANGED <<eventData, pollfds>> \/ Writer
  BY <1>3 DEF Step, Writer, handler, CloseFd, WaitLoop, TryLockReadClose,
     TryLock, SetActive,
     SetInactive, UnlockEvents, HandlerActiveReadClose, HandlerActiveReadFlag, Poll,
     HotplugCallback, Dispatch, Reap, TransferCallback, UnrefDevice, BackendUnlock,
     AfterEvents
<1>4. ASSUME Environment PROVE UNCHANGED <<eventData, pollfds>> \/ Writer
  BY <1>4 DEF Environment, Writer, handler, PollTimeout, WaitTimeout,
     UrbCompletes, Unplug
<1> QED BY <1>1, <1>2, <1>3, <1>4 DEF Next, vars, handler

(* A writer that signals if it is the first, or reads if it is the last,   *)
(* keeps the byte in step with what is pending.                            *)
LEMMA SignalKeepsPipe ==
  ASSUME PipeMatchesPending, SignalIfFirst, PendingNow'
  PROVE  PipeMatchesPending'
BY DEF PipeMatchesPending, SignalIfFirst, usbi_signal_event

(* Reading the byte when nothing is pending any more keeps it in step, too.*)
LEMMA ClearKeepsPipe ==
  ASSUME PipeMatchesPending, ClearIfLast, PendingNow' => PendingNow
  PROVE  PipeMatchesPending'
<1>1. PendingNow' <=> usbi_pending_events(event_flags', device_close', hotplug_msgs')
  BY DEF PendingNow
<1>2. CASE PendingNow'
  BY <1>1, <1>2 DEF PipeMatchesPending, ClearIfLast
<1>3. CASE ~PendingNow'
  BY <1>1, <1>3 DEF PipeMatchesPending, ClearIfLast, usbi_clear_event
<1> QED BY <1>2, <1>3

(* The poll set and the hotplug messages are changed with a signal.        *)
LEMMA RemoveSignals ==
  ASSUME NEW h, usbi_remove_pollfd(h)
  PROVE  UNCHANGED eventData \/ (SignalIfFirst /\ "POLLFDS_MODIFIED" \in event_flags')
<1>1. CASE h \in ipollfds
  BY <1>1 DEF usbi_remove_pollfd, usbi_fd_notification
<1>2. CASE h \notin ipollfds
  BY <1>2 DEF usbi_remove_pollfd
<1> QED BY <1>1, <1>2

(* The pipe holds one byte while something is pending, for every writer.   *)
LEMMA PipeStep ==
  ASSUME TypeOK, Protocol, PipeMatchesPending, [Next]_vars
  PROVE  PipeMatchesPending'
<1> USE DEF PendingNow, usbi_pending_events
<1>1. CASE UNCHANGED eventData
  BY <1>1 DEF PipeMatchesPending, eventData
<1>2. ASSUME NEW h \in Handles, usbi_hotplug_notification(h)
      PROVE  PipeMatchesPending'
  <2>1. hotplug_msgs' # << >>
    BY <1>2 DEF usbi_hotplug_notification, TypeOK
  <2> QED BY <1>2, <2>1, SignalKeepsPipe DEF usbi_hotplug_notification
<1>3. ASSUME NEW h, usbi_remove_pollfd(h)
      PROVE  PipeMatchesPending'
  BY <1>1, <1>3, RemoveSignals, SignalKeepsPipe
<1>4. ASSUME NEW h \in Handles,
             linux_device_disconnected(h) \/ \E t \in Threads : OpenGone(t, h)
      PROVE  PipeMatchesPending'
  BY <1>2, <1>4 DEF OpenGone, linux_device_disconnected, usbi_disconnect_device
<1>5. ASSUME NEW t \in Threads, DisconnectDevice(t)
      PROVE  PipeMatchesPending'
  <2>1. CASE cbHandle \in attached
    BY <1>2, <1>5, <2>1 DEF DisconnectDevice, usbi_disconnect_device, TypeOK
  <2>2. CASE cbHandle \notin attached
    BY <1>1, <1>5, <2>2 DEF DisconnectDevice
  <2> QED BY <2>1, <2>2
<1>6. ASSUME NEW t \in Threads, NEW h \in Handles, CloseAnnounce(t, h)
      PROVE  PipeMatchesPending'
  BY <1>6, SignalKeepsPipe DEF CloseAnnounce
<1>7. ASSUME NEW t \in Threads, OpenAddPollfd(t)
      PROVE  PipeMatchesPending'
  BY <1>7, SignalKeepsPipe DEF OpenAddPollfd, usbi_add_pollfd, usbi_fd_notification
<1>8. ASSUME NEW t \in Threads,
             CloseRemovePollfd(t) \/ \E h \in Handles : DisconnectFd(t, h)
      PROVE  PipeMatchesPending'
  BY <1>1, <1>3, <1>8 DEF CloseRemovePollfd, DisconnectFd
<1>9. ASSUME NEW t \in Threads, CloseDone(t)
      PROVE  PipeMatchesPending'
  <2>1. t \in device_close
    BY <1>9 DEF CloseDone, Protocol, ClosersCounted
  <2> QED BY <1>9, <2>1, ClearKeepsPipe DEF CloseDone
<1>10. ASSUME NEW t \in Threads, HandleEventsStart(t)
       PROVE  PipeMatchesPending'
  <2>1. CASE "POLLFDS_MODIFIED" \in event_flags
    BY <1>10, <2>1, ClearKeepsPipe DEF HandleEventsStart
  <2>2. CASE "POLLFDS_MODIFIED" \notin event_flags
    BY <1>1, <1>10, <2>2 DEF HandleEventsStart
  <2> QED BY <2>1, <2>2
<1>11. ASSUME NEW t \in Threads, PipeEvents(t)
       PROVE  PipeMatchesPending'
  <2>1. PendingNow' => PendingNow
    BY <1>11 DEF PipeEvents, TypeOK
  <2> QED BY <1>11, <2>1, ClearKeepsPipe DEF PipeEvents
<1>12. ASSUME NEW t \in Threads, libusb_interrupt_event_handler(t)
       PROVE  PipeMatchesPending'
  <2>1. CASE PendingNow
    BY <1>1, <1>12, <2>1 DEF libusb_interrupt_event_handler, eventData
  <2>2. CASE ~PendingNow
    BY <1>12, <2>2, SignalKeepsPipe DEF libusb_interrupt_event_handler,
       SignalIfFirst
  <2> QED BY <2>1, <2>2
<1>13. CASE Writer
  BY <1>4, <1>5, <1>6, <1>7, <1>8, <1>9, <1>10, <1>11, <1>12, <1>13 DEF Writer
<1> QED
  BY <1>1, <1>13, OthersLeaveEventData

(* Whatever changes the fds to be polled says so, until the handler has    *)
(* taken them over.                                                        *)
LEMMA PollSetStep ==
  ASSUME PollSetCurrent, [Next]_vars
  PROVE  PollSetCurrent'
<1> USE DEF PollSetCurrent
<1>1. CASE UNCHANGED <<eventData, pollfds>>
  BY <1>1 DEF eventData
<1>2. CASE UNCHANGED <<event_flags, ipollfds, pollfds>>
  BY <1>2
<1>3. CASE "POLLFDS_MODIFIED" \in event_flags'
  BY <1>3
<1>4. ASSUME NEW h, usbi_remove_pollfd(h), UNCHANGED pollfds
      PROVE  PollSetCurrent'
  BY <1>1, <1>3, <1>4, RemoveSignals
<1>5. ASSUME NEW h \in Handles,
             \/ linux_device_disconnected(h)
             \/ \E t \in Threads : OpenGone(t, h) \/ CloseAnnounce(t, h)
      PROVE  PollSetCurrent'
  BY <1>2, <1>5 DEF OpenGone, linux_device_disconnected, usbi_disconnect_device,
     usbi_hotplug_notification, CloseAnnounce, handler
<1>6. ASSUME NEW t \in Threads, DisconnectDevice(t)
      PROVE  PollSetCurrent'
  <2>1. CASE cbHandle \in attached
    BY <1>2, <1>6, <2>1 DEF DisconnectDevice, usbi_disconnect_device,
       usbi_hotplug_notification, handler
  <2>2. CASE cbHandle \notin attached
    BY <1>1, <1>6, <2>2 DEF DisconnectDevice, handler
  <2> QED BY <2>1, <2>2
<1>7. ASSUME NEW t \in Threads, OpenAddPollfd(t)
      PROVE  PollSetCurrent'
  BY <1>3, <1>7 DEF OpenAddPollfd, usbi_add_pollfd, usbi_fd_notification
<1>8. ASSUME NEW t \in Threads,
             CloseRemovePollfd(t) \/ \E h \in Handles : DisconnectFd(t, h)
      PROVE  PollSetCurrent'
  BY <1>1, <1>4, <1>8 DEF CloseRemovePollfd, DisconnectFd, handler
<1>9. ASSUME NEW t \in Threads, HandleEventsStart(t)
      PROVE  PollSetCurrent'
  <2>1. CASE "POLLFDS_MODIFIED" \in event_flags
    BY <1>9, <2>1 DEF HandleEventsStart
  <2>2. CASE "POLLFDS_MODIFIED" \notin event_flags
    BY <1>1, <1>9, <2>2 DEF HandleEventsStart
  <2> QED BY <2>1, <2>2
<1>10. ASSUME NEW t \in Threads, PipeEvents(t)
       PROVE  PollSetCurrent'
  BY <1>10 DEF PipeEvents
<1>11. ASSUME NEW t \in Threads, libusb_interrupt_event_handler(t)
       PROVE  PollSetCurrent'
  BY <1>11 DEF libusb_interrupt_event_handler, handler
<1>12. ASSUME NEW t \in Threads, CloseDone(t)
       PROVE  PollSetCurrent'
  BY <1>2, <1>12 DEF CloseDone, handler
<1>13. CASE Writer
  BY <1>5, <1>6, <1>7, <1>8, <1>9, <1>10, <1>11, <1>12, <1>13 DEF Writer
<1> QED
  BY <1>1, <1>13, OthersLeaveEventData

(* Only poll() leads to serving the pipe.                                  *)
LEMMA OnlyPollReads ==
  ASSUME pc \in [Threads -> States], NEW r \in Threads, pc'[r] = "pipeEvents", [Next]_vars
  PROVE  pc[r] = "pipeEvents" \/ Poll(r)
<1> USE DEF States, Goto
<1>1. ASSUME NEW t \in Threads, Api(t) PROVE pc[r] = "pipeEvents"
  BY <1>1 DEF Api, OpenFd, OpenGone, CloseAnnounce, SubmitTransfer, HandleEvents,
     libusb_interrupt_event_handler
<1>2. ASSUME NEW t \in Threads, Locking(t) PROVE pc[r] = "pipeEvents"
  BY <1>2 DEF Locking, libusb_lock_events, OpenListHandle, CloseUnlist, LockWaiters,
     BroadcastWaiters, WaitDone, BackendLock
<1>3. ASSUME NEW t \in Threads, SetActive(t) PROVE pc[r] = "pipeEvents"
  BY <1>3 DEF SetActive
<1>4. ASSUME NEW t \in Threads, Step(t), ~SetActive(t) PROVE pc[r] = "pipeEvents" \/ Poll(r)
  BY <1>4 DEF Step, OpenAddPollfd, CloseRemovePollfd, CloseFd, CloseDone, WaitLoop,
     TryLockReadClose, TryLock, SetInactive, UnlockEvents, HandlerActiveReadClose,
     HandlerActiveReadFlag, Sleep, HandleEventsStart, Poll, PipeEvents, HotplugCallback,
     Dispatch, DisconnectFd, DisconnectDevice, Reap, TransferCallback, UnrefDevice,
     BackendUnlock, AfterEvents
<1>5. ASSUME Environment PROVE pc[r] = "pipeEvents"
  BY <1>5 DEF Environment, PollTimeout, WaitTimeout, UrbCompletes, Unplug,
     linux_device_disconnected
<1> QED BY <1>1, <1>2, <1>3, <1>4, <1>5 DEF Next, vars

(* Only the owner of events_lock takes the last byte, so that who is about *)
(* to serve the pipe still finds something pending.                        *)
LEMMA ReaderStep ==
  ASSUME TypeOK, Protocol, PipeMatchesPending, ReaderHasByte, [Next]_vars
  PROVE  ReaderHasByte'
<1> SUFFICES ASSUME NEW r \in Threads, pc'[r] = "pipeEvents"
             PROVE  PendingNow'
  BY DEF ReaderHasByte
<1> USE DEF PendingNow, usbi_pending_events
<1>1. CASE Poll(r)
  <2>1. event_pipe > 0 /\ UNCHANGED eventData
    BY <1>1 DEF Poll, Goto, TypeOK
  <2> QED BY <2>1 DEF PipeMatchesPending, eventData
<1>2. CASE pc[r] = "pipeEvents"
  <2>1. PendingNow /\ events_lock = r
    BY <1>2 DEF ReaderHasByte, Protocol, LockHeld, OwnerStates
  <2>2. CASE UNCHANGED eventData
    BY <2>1, <2>2 DEF eventData
  <2>3. ASSUME NEW h, usbi_remove_pollfd(h)
        PROVE  PendingNow'
    BY <2>2, <2>3, RemoveSignals
  <2>4. ASSUME NEW h \in Handles, usbi_hotplug_notification(h)
        PROVE  PendingNow'
    BY <2>4 DEF usbi_hotplug_notification, TypeOK
  <2>5. ASSUME NEW h \in Handles,
               \/ linux_device_disconnected(h)
               \/ \E t \in Threads : OpenGone(t, h) \/ CloseAnnounce(t, h)
        PROVE  PendingNow'
    BY <2>1, <2>4, <2>5 DEF OpenGone, linux_device_disconnected,
       usbi_disconnect_device, CloseAnnounce
  <2>6. ASSUME NEW t \in Threads, DisconnectDevice(t)
        PROVE  PendingNow'
    <3>1. CASE cbHandle \in attached
      BY <2>4, <2>6, <3>1 DEF DisconnectDevice, usbi_disconnect_device, TypeOK
    <3>2. CASE cbHandle \notin attached
      BY <2>2, <2>6, <3>2 DEF DisconnectDevice
    <3> QED BY <3>1, <3>2
  <2>7. ASSUME NEW t \in Threads,
               CloseRemovePollfd(t) \/ \E h \in Handles : DisconnectFd(t, h)
        PROVE  PendingNow'
    BY <2>2, <2>3, <2>7 DEF CloseRemovePollfd, DisconnectFd
  <2>8. ASSUME NEW t \in Threads, OpenAddPollfd(t) \/ libusb_interrupt_event_handler(t)
        PROVE  PendingNow'
    BY <2>1, <2>8 DEF OpenAddPollfd, usbi_add_pollfd, usbi_fd_notification,
       libusb_interrupt_event_handler
  <2>9. ASSUME NEW t \in Threads, CloseDone(t) \/ HandleEventsStart(t) \/ PipeEvents(t)
        PROVE  FALSE
    <3>1. events_lock = t /\ pc[t] \in {"closeDone", "handleEvents", "pipeEvents"}
      BY <2>9 DEF CloseDone, HandleEventsStart, PipeEvents, Protocol, LockHeld,
         OwnerStates
    <3>2. PipeEvents(r)
      BY <1>2, <2>1, <2>9, <3>1 DEF CloseDone, HandleEventsStart
    <3> QED BY <3>2 DEF PipeEvents, Goto, TypeOK
  <2>10. CASE Writer
    BY <2>5, <2>6, <2>7, <2>8, <2>9, <2>10 DEF Writer
  <2> QED BY <2>2, <2>10, OthersLeaveEventData
<1> QED BY <1>1, <1>2, OnlyPollReads DEF TypeOK

-----------------------------------------------------------------------------
(* Closers stay counted, and only they are, until they are done.           *)
LEMMA CountedStep ==
  ASSUME ControlTypes, device_close \subseteq Threads, Protocol, CountedClosers, [Next]_vars
  PROVE  CountedClosers'
<1> USE DEF ControlTypes, CountedClosers, CloserStates, States, Goto
<1>1. ASSUME NEW t \in Threads, Api(t) PROVE CountedClosers'
  <2>1. ASSUME NEW h \in Handles, CloseAnnounce(t, h) PROVE CountedClosers'
    BY <2>1 DEF CloseAnnounce, Protocol, HandlersHandle, HandlerStates
  <2> QED
  BY <1>1, <2>1 DEF Api, OpenFd, OpenGone, SubmitTransfer, HandleEvents,
     usbi_disconnect_device, usbi_hotplug_notification,
     libusb_interrupt_event_handler, eventData, threads
<1>2. ASSUME NEW t \in Threads, Locking(t) PROVE CountedClosers'
  BY <1>2 DEF Locking, libusb_lock_events, OpenListHandle, CloseUnlist, LockWaiters,
     BroadcastWaiters, WaitDone, BackendLock, eventData, threads
<1>3. ASSUME NEW t \in Threads, Step(t) PROVE CountedClosers'
  <2>1. ASSUME CloseRemovePollfd(t) \/ \E h \in Handles : DisconnectFd(t, h) PROVE CountedClosers'
    BY <2>1, RemoveKeepsClosers DEF CloseRemovePollfd, DisconnectFd, eventData, threads
  <2>2. ASSUME HandleEventsStart(t) PROVE CountedClosers'
    BY <2>2 DEF HandleEventsStart, eventData
  <2>3. ASSUME CloseFd(t) \/ CloseDone(t) \/ SetActive(t) PROVE CountedClosers'
    BY <2>3 DEF CloseFd, CloseDone, SetActive, eventData, threads
  <2>4. ASSUME WaitLoop(t) \/ DisconnectDevice(t) \/ PipeEvents(t) PROVE CountedClosers'
    BY <2>4 DEF WaitLoop, DisconnectDevice, PipeEvents, usbi_disconnect_device,
       usbi_hotplug_notification, eventData, threads
  <2> QED
  BY <1>3, <2>1, <2>2, <2>3, <2>4 DEF Step, OpenAddPollfd, usbi_add_pollfd,
     usbi_fd_notification,
     TryLockReadClose, TryLock, SetInactive, UnlockEvents, HandlerActiveReadClose,
     HandlerActiveReadFlag, Sleep, Poll, HotplugCallback,
     Dispatch, Reap, TransferCallback, UnrefDevice,
     BackendUnlock, AfterEvents, eventData, threads
<1>4. ASSUME Environment PROVE CountedClosers'
  BY <1>4 DEF Environment, PollTimeout, WaitTimeout, UrbCompletes, Unplug,
     linux_device_disconnected, usbi_disconnect_device, usbi_hotplug_notification,
     eventData, threads
<1> QED BY <1>1, <1>2, <1>3, <1>4 DEF Next, vars, eventData, threads

(* A thread that will broadcast still will, until it has.                  *)
LEMMA BroadcasterStays ==
  ASSUME ControlTypes, NEW u \in Threads, WillBroadcast(u), [Next]_vars
  PROVE  WillBroadcast(u)' \/ BroadcastWaiters(u)
<1> USE DEF ControlTypes, WillBroadcast, States, Goto
<1>1. ASSUME NEW t \in Threads, Api(t) PROVE WillBroadcast(u)'
  BY <1>1 DEF Api, OpenFd, OpenGone, CloseAnnounce, SubmitTransfer, HandleEvents,
     libusb_interrupt_event_handler
<1>2. ASSUME NEW t \in Threads, BroadcastWaiters(t), t # u PROVE WillBroadcast(u)'
  BY <1>2 DEF BroadcastWaiters
<1>3. ASSUME NEW t \in Threads, Locking(t), ~BroadcastWaiters(t) PROVE WillBroadcast(u)'
  BY <1>3 DEF Locking, libusb_lock_events, OpenListHandle, CloseUnlist, LockWaiters,
     WaitDone, BackendLock
<1>4. ASSUME NEW t \in Threads, SetActive(t) PROVE WillBroadcast(u)'
  BY <1>4 DEF SetActive
<1>5. ASSUME NEW t \in Threads, Step(t), ~SetActive(t) PROVE WillBroadcast(u)'
  BY <1>5 DEF Step, OpenAddPollfd, CloseRemovePollfd, CloseFd, CloseDone, WaitLoop,
     TryLockReadClose, TryLock, SetInactive, UnlockEvents, HandlerActiveReadClose,
     HandlerActiveReadFlag, Sleep, HandleEventsStart, Poll, PipeEvents, HotplugCallback,
     Dispatch, DisconnectFd, DisconnectDevice, Reap, TransferCallback, UnrefDevice,
     BackendUnlock, AfterEvents
<1>6. ASSUME Environment PROVE WillBroadcast(u)'
  BY <1>6 DEF Environment, PollTimeout, WaitTimeout, UrbCompletes, Unplug,
     linux_device_disconnected
<1>7. CASE UNCHANGED vars
  BY <1>7 DEF vars
<1> QED BY <1>1, <1>2, <1>3, <1>4, <1>5, <1>6, <1>7 DEF Next

(* The owner of events_lock that has set the flag keeps it set, and stays  *)
(* one, until it resets the flag.                                          *)
LEMMA ActiveStays ==
  ASSUME ControlTypes, NEW u \in Threads, pc[u] \in ActiveStates, [Next]_vars
  PROVE  pc'[u] \in ActiveStates \/ event_handler_active' = FALSE
<1> USE DEF ControlTypes, ActiveStates, OwnerStates, States, Goto
<1>1. ASSUME NEW t \in Threads, Api(t) PROVE pc'[u] \in ActiveStates
  BY <1>1 DEF Api, OpenFd, OpenGone, CloseAnnounce, SubmitTransfer, HandleEvents,
     libusb_interrupt_event_handler
<1>2. ASSUME NEW t \in Threads, Locking(t) PROVE pc'[u] \in ActiveStates
  BY <1>2 DEF Locking, libusb_lock_events, OpenListHandle, CloseUnlist, LockWaiters,
     WaitDone, BackendLock, BroadcastWaiters
<1>3. ASSUME NEW t \in Threads, SetActive(t) PROVE pc'[u] \in ActiveStates
  BY <1>3 DEF SetActive
<1>4. ASSUME NEW t \in Threads, Step(t), ~SetActive(t)
      PROVE  pc'[u] \in ActiveStates \/ event_handler_active' = FALSE
  BY <1>4 DEF Step, OpenAddPollfd, CloseRemovePollfd, CloseFd, CloseDone, WaitLoop,
     TryLockReadClose, TryLock, SetInactive, UnlockEvents, HandlerActiveReadClose,
     HandlerActiveReadFlag, Sleep, HandleEventsStart, Poll, PipeEvents, HotplugCallback,
     Dispatch, DisconnectFd, DisconnectDevice, Reap, TransferCallback, UnrefDevice,
     BackendUnlock, AfterEvents
<1>5. ASSUME Environment PROVE pc'[u] \in ActiveStates
  BY <1>5 DEF Environment, PollTimeout, WaitTimeout, UrbCompletes, Unplug,
     linux_device_disconnected
<1>6. CASE UNCHANGED vars
  BY <1>6 DEF vars
<1> QED BY <1>1, <1>2, <1>3, <1>4, <1>5, <1>6 DEF Next

(* Only an owner of events_lock sets event_handler_active.                 *)
LEMMA OnlyOwnersActivate ==
  ASSUME event_handler_active', [Next]_vars
  PROVE  event_handler_active \/ \E t \in Threads : SetActive(t)
<1>1. ASSUME NEW t \in Threads, Api(t) \/ Locking(t) PROVE event_handler_active
  BY <1>1 DEF Api, OpenFd, OpenGone, CloseAnnounce, SubmitTransfer, HandleEvents,
     libusb_interrupt_event_handler, Locking, libusb_lock_events, OpenListHandle,
     CloseUnlist, LockWaiters, WaitDone, BackendLock, BroadcastWaiters, locks
<1>2. ASSUME NEW t \in Threads, Step(t), ~SetActive(t) PROVE event_handler_active
  BY <1>2 DEF Step, OpenAddPollfd, CloseRemovePollfd, CloseFd, CloseDone, WaitLoop,
     TryLockReadClose, TryLock, SetInactive, UnlockEvents, HandlerActiveReadClose,
     HandlerActiveReadFlag, HandleEventsStart, Poll, PipeEvents, HotplugCallback,
     Dispatch, DisconnectFd, DisconnectDevice, Reap, TransferCallback, UnrefDevice,
     BackendUnlock, AfterEvents, locks
<1>3. ASSUME Environment PROVE event_handler_active
  BY <1>3 DEF Environment, PollTimeout, WaitTimeout, UrbCompletes, Unplug,
     linux_device_disconnected, locks
<1> QED BY <1>1, <1>2, <1>3 DEF Next, vars, locks

(* A thread goes to sleep as an event waiter only where it has seen a      *)
(* closer or an active handler.                                            *)
LEMMA OnlySleepersWait ==
  ASSUME ControlTypes, NEW t \in Threads, pc[t] # "waiting", pc'[t] = "waiting", [Next]_vars
  PROVE  /\ HandlerActiveReadClose(t) \/ HandlerActiveReadFlag(t)
         /\ device_close # {} \/ event_handler_active
<1> USE DEF ControlTypes, States, Goto
<1>1. ASSUME NEW u \in Threads, Api(u) PROVE FALSE
  BY <1>1 DEF Api, OpenFd, OpenGone, CloseAnnounce, SubmitTransfer, HandleEvents,
     libusb_interrupt_event_handler
<1>2. ASSUME NEW u \in Threads, Locking(u) PROVE FALSE
  BY <1>2 DEF Locking, libusb_lock_events, OpenListHandle, CloseUnlist, LockWaiters,
     WaitDone, BackendLock, BroadcastWaiters
<1>3. ASSUME NEW u \in Threads, SetActive(u) PROVE FALSE
  BY <1>3 DEF SetActive
<1>4. ASSUME NEW u \in Threads, Step(u)
      PROVE  HandlerActiveReadClose(t) \/ HandlerActiveReadFlag(t)
  <2>1. CASE HandlerActiveReadClose(u) \/ HandlerActiveReadFlag(u)
    <3>1. u = t
      BY <2>1 DEF HandlerActiveReadClose, HandlerActiveReadFlag, Sleep
    <3> QED BY <2>1, <3>1
  <2>2. CASE ~(HandlerActiveReadClose(u) \/ HandlerActiveReadFlag(u))
    BY <1>3, <1>4, <2>2 DEF Step, OpenAddPollfd, CloseRemovePollfd, CloseFd, CloseDone,
       WaitLoop, TryLockReadClose, TryLock, SetInactive, UnlockEvents,
       HandleEventsStart, Poll, PipeEvents, HotplugCallback,
       Dispatch, DisconnectFd, DisconnectDevice, Reap, TransferCallback, UnrefDevice,
       BackendUnlock, AfterEvents
  <2> QED BY <2>1, <2>2
<1>5. ASSUME Environment PROVE FALSE
  BY <1>5 DEF Environment, PollTimeout, WaitTimeout, UrbCompletes, Unplug,
     linux_device_disconnected
<1>6. HandlerActiveReadClose(t) \/ HandlerActiveReadFlag(t)
  BY <1>1, <1>2, <1>3, <1>4, <1>5 DEF Next, vars
<1> QED BY <1>6 DEF HandlerActiveReadClose, HandlerActiveReadFlag

(* No lost wake-up: the three parts are kept together.                     *)
LEMMA WakeupStep ==
  ASSUME TypeOK, Protocol, Wakeup, [Next]_vars
  PROVE  Wakeup'
<1>0. ControlTypes
  BY DEF TypeOK, ControlTypes
<1>1. CountedClosers'
  BY <1>0, CountedStep DEF Wakeup, TypeOK
<1>2. ActiveIsOwned'
  <2>1. ASSUME NEW t \in Threads, SetActive(t) PROVE pc'[t] \in ActiveStates
    BY <1>0, <2>1 DEF SetActive, Goto, ControlTypes, ActiveStates, OwnerStates
  <2>2. ASSUME event_handler_active, event_handler_active'
        PROVE  \E u \in Threads : pc'[u] \in ActiveStates
    BY <1>0, <2>2, ActiveStays DEF Wakeup, ActiveIsOwned
  <2> QED BY <2>1, <2>2, OnlyOwnersActivate DEF ActiveIsOwned
<1>3. WaiterHasWaker'
  <2> SUFFICES ASSUME NEW t \in Threads, pc'[t] = "waiting"
               PROVE  \E u \in Threads : WillBroadcast(u)'
    BY DEF WaiterHasWaker
  <2>1. ASSUME NEW u \in Threads, BroadcastWaiters(u) PROVE FALSE
    BY <1>0, <2>1 DEF BroadcastWaiters, ControlTypes
  <2>2. \E u \in Threads : WillBroadcast(u)
    <3>1. CASE pc[t] = "waiting"
      BY <3>1 DEF Wakeup, WaiterHasWaker
    <3>2. CASE pc[t] # "waiting" /\ device_close # {}
      BY <3>2 DEF Wakeup, CountedClosers, CloserStates, TypeOK, WillBroadcast
    <3>3. CASE pc[t] # "waiting" /\ event_handler_active
      BY <3>3 DEF Wakeup, ActiveIsOwned, ActiveStates, OwnerStates, WillBroadcast
    <3> QED BY <1>0, <3>1, <3>2, <3>3, OnlySleepersWait
  <2> QED BY <1>0, <2>1, <2>2, BroadcasterStays
<1> QED BY <1>1, <1>2, <1>3 DEF Wakeup

-----------------------------------------------------------------------------
(* The steps that take a handle through its life.                          *)
LifeStep ==
  \E t \in Threads :
    \/ \E h \in Handles : OpenFd(t, h) \/ CloseAnnounce(t, h) \/ DisconnectFd(t, h)
    \/ OpenAddPollfd(t) \/ OpenListHandle(t) \/ CloseUnlist(t) \/ CloseRemovePollfd(t)
    \/ CloseFd(t) \/ HotplugCallback(t) \/ TransferCallback(t)

KeepsHandles ==
  /\ UNCHANGED <<usable, fds, open_devs, ipollfds, fd_removed>>
  /\ \A t \in Threads :
       /\ Holds(t)' => Holds(t) /\ Closing(t)' = Closing(t)
       /\ pc'[t] \in {"addPollfd", "removePollfd", "closeFd"} => pc'[t] = pc[t]

(* All other steps leave every handle where it is.                         *)
LEMMA OthersKeepHandles ==
  ASSUME HandleTypes, Protocol, [Next]_vars
  PROVE  KeepsHandles \/ LifeStep
<1> USE NoneAssumption DEF HandleTypes, ControlTypes, KeepsHandles, Holds, Closing,
   CloserStates, States, Goto
<1>1. ASSUME NEW t \in Threads, Api(t) PROVE KeepsHandles \/ LifeStep
  BY <1>1 DEF Api, LifeStep, OpenGone, SubmitTransfer, HandleEvents,
     usbi_disconnect_device, usbi_hotplug_notification,
     libusb_interrupt_event_handler, eventData, handler, threads, devices
<1>2. ASSUME NEW t \in Threads, libusb_lock_events(t) \/ LockWaiters(t)
                                \/ WaitDone(t) \/ BackendLock(t)
      PROVE  KeepsHandles
  BY <1>2 DEF libusb_lock_events, LockWaiters,
     WaitDone, BackendLock, eventData, handler, threads, devices
<1>3. ASSUME NEW t \in Threads, BroadcastWaiters(t) PROVE KeepsHandles
  BY <1>3 DEF BroadcastWaiters, eventData, handler, threads, devices
<1>4. ASSUME NEW t \in Threads, SetActive(t) PROVE KeepsHandles
  BY <1>4 DEF SetActive, eventData, handler, threads, devices, Protocol,
     HandlersHandle, HandlerStates
<1>5. ASSUME NEW t \in Threads, PipeEvents(t) \/ DisconnectDevice(t) \/ HandleEventsStart(t)
      PROVE  KeepsHandles
  BY <1>5 DEF PipeEvents, DisconnectDevice, HandleEventsStart, eventData, handler,
     threads, devices,
     usbi_disconnect_device, usbi_hotplug_notification, Protocol, LockHeld,
     OwnerStates, HandlersHandle, HandlerStates
<1>6. ASSUME NEW t \in Threads, NEW u \in Threads, Reap(t, u)
      PROVE  KeepsHandles
  BY <1>6 DEF Reap, eventData, handler, threads, devices, Protocol, LockHeld,
     OwnerStates, HandlersHandle, HandlerStates
<1>7. ASSUME NEW t \in Threads, WaitLoop(t) \/ AfterEvents(t)
      PROVE  KeepsHandles
  BY <1>7 DEF WaitLoop, AfterEvents, eventData, handler, threads, devices, Protocol,
     HandlersHandle, HandlerStates
<1>8. ASSUME NEW t \in Threads, CloseDone(t) \/ TryLockReadClose(t) \/ TryLock(t)
                 \/ SetInactive(t) \/ UnlockEvents(t) \/ HandlerActiveReadClose(t)
                 \/ HandlerActiveReadFlag(t) \/ Poll(t) \/ Dispatch(t)
                 \/ UnrefDevice(t) \/ BackendUnlock(t)
      PROVE  KeepsHandles
  BY <1>8 DEF CloseDone, TryLockReadClose, TryLock, SetInactive, UnlockEvents,
     HandlerActiveReadClose, HandlerActiveReadFlag, Sleep, Poll, Dispatch,
     UnrefDevice, BackendUnlock, eventData, handler, threads, devices, Protocol,
     WaitersDoNotClose
<1>9. ASSUME Environment PROVE KeepsHandles
  BY <1>9 DEF Environment, PollTimeout, WaitTimeout, UrbCompletes, Unplug,
     linux_device_disconnected, usbi_disconnect_device, usbi_hotplug_notification,
     eventData, handler, threads, devices
<1>10. CASE UNCHANGED vars
  BY <1>10 DEF vars, eventData, handler, threads, devices
<1> QED
  BY <1>1, <1>2, <1>3, <1>4, <1>5, <1>6, <1>7, <1>8, <1>9, <1>10 DEF Next, Locking,
     Step, LifeStep

(* Leaving the poll set takes the handle out of it, and no other.          *)
LEMMA RemoveLeavesPollSet ==
  ASSUME NEW h, usbi_remove_pollfd(h)
  PROVE  ipollfds' = ipollfds \ {h}
<1>1. CASE h \in ipollfds
  BY <1>1 DEF usbi_remove_pollfd
<1>2. CASE h \notin ipollfds
  BY <1>2 DEF usbi_remove_pollfd, eventData
<1> QED BY <1>1, <1>2

(* A step that moves no handle keeps what is said of them.                 *)
LEMMA KeepersKeepLife ==
  ASSUME HandleLife, KeepsHandles
  PROVE  HandleLife'
<1> USE DEF HandleLife, KeepsHandles
<1>1. HoldersAlone'
  BY DEF HoldersAlone
<1>2. ListedAreOpen'
  BY DEF ListedAreOpen
<1>3. ListedInOrder'
  BY DEF ListedInOrder, Holds, CloserStates
<1> QED BY <1>1, <1>2, <1>3

(* A handle is opened, used and closed in this order, by one thread at a   *)
(* time, and leaves the poll set before its fd is closed.                  *)
LEMMA HandleLifeStep ==
  ASSUME HandleTypes, NoneAssumption, Protocol, HandleLife, [Next]_vars
  PROVE  HandleLife'
<1> USE DEF HandleTypes, ControlTypes, HandleLife, HoldersAlone, ListedAreOpen,
   ListedInOrder,
            Holds, Closing, CloserStates, States, Goto
<1>1. ASSUME NEW t \in Threads, NEW h \in Handles, OpenFd(t, h) PROVE HandleLife'
  BY <1>1 DEF OpenFd, eventData, handler, Protocol, HandlersHandle, HandlerStates
<1>2. ASSUME NEW t \in Threads, NEW h \in Handles, CloseAnnounce(t, h) PROVE HandleLife'
  BY <1>2 DEF CloseAnnounce, handler, devices, Protocol, HandlersHandle, HandlerStates
<1>3. ASSUME NEW t \in Threads, NEW h \in Handles, DisconnectFd(t, h) PROVE HandleLife'
  BY <1>3, RemoveLeavesPollSet DEF DisconnectFd, Polled, threads, Protocol,
     LockHeld, OwnerStates, HandlersHandle, HandlerStates
<1>4. ASSUME NEW t \in Threads, OpenAddPollfd(t) PROVE HandleLife'
  BY <1>4 DEF OpenAddPollfd, usbi_add_pollfd, handler, threads, devices, Protocol,
     HandlersHandle, HandlerStates
<1>5. ASSUME NEW t \in Threads, OpenListHandle(t) PROVE HandleLife'
  BY <1>5 DEF OpenListHandle, eventData, handler, Protocol, HandlersHandle,
     HandlerStates
<1>6. ASSUME NEW t \in Threads, CloseUnlist(t) PROVE HandleLife'
  BY <1>6 DEF CloseUnlist, eventData, handler, threads
<1>7. ASSUME NEW t \in Threads, CloseRemovePollfd(t) PROVE HandleLife'
  <2>1. ipollfds' = ipollfds \ {Closing(t)}
    BY <1>7, RemoveLeavesPollSet DEF CloseRemovePollfd, eventData
  <2> QED BY <1>7, <2>1 DEF CloseRemovePollfd, handler, threads, devices
<1>8. ASSUME NEW t \in Threads, CloseFd(t) PROVE HandleLife'
  BY <1>8 DEF CloseFd, eventData, handler, threads
<1>9. ASSUME NEW t \in Threads, HotplugCallback(t) PROVE HandleLife'
  BY <1>9 DEF HotplugCallback, eventData, handler, devices, Protocol, LockHeld,
     OwnerStates, HandlersHandle, HandlerStates
<1>10. ASSUME NEW t \in Threads, TransferCallback(t) PROVE HandleLife'
  BY <1>10 DEF TransferCallback, eventData, handler, devices, Protocol, LockHeld,
     OwnerStates, HandlersHandle, HandlerStates
<1>11. CASE KeepsHandles
  BY <1>11, KeepersKeepLife
<1> QED
  BY <1>1, <1>2, <1>3, <1>4, <1>5, <1>6, <1>7, <1>8, <1>9, <1>10, <1>11,
     OthersKeepHandles DEF LifeStep

(* A thread polls for the first time only at the start of handle_events.   *)
LEMMA OnlyStartPolls ==
  ASSUME ControlTypes, Protocol, NEW t \in Threads, pc'[t] = "poll", ~redo', [Next]_vars
  PROVE  HandleEventsStart(t) \/ (pc[t] = "poll" /\ ~redo)
<1> USE DEF ControlTypes, States, Goto
<1>1. ASSUME NEW u \in Threads, Api(u) PROVE pc[t] = "poll" /\ ~redo
  BY <1>1 DEF Api, OpenFd, OpenGone, CloseAnnounce, SubmitTransfer, HandleEvents,
     libusb_interrupt_event_handler, handler
<1>2. ASSUME NEW u \in Threads, Locking(u) PROVE pc[t] = "poll" /\ ~redo
  BY <1>2 DEF Locking, libusb_lock_events, OpenListHandle, CloseUnlist, LockWaiters,
     BroadcastWaiters, WaitDone, BackendLock, handler
<1>3. ASSUME NEW u \in Threads, SetActive(u) PROVE pc[t] = "poll" /\ ~redo
  BY <1>3 DEF SetActive, handler
<1>4. ASSUME NEW u \in Threads, HandleEventsStart(u)
      PROVE  HandleEventsStart(t) \/ (pc[t] = "poll" /\ ~redo)
  <2>1. CASE u = t
    BY <1>4, <2>1
  <2>2. CASE u # t
    <3>1. pc[t] = "poll" /\ pc[u] = "handleEvents"
      BY <1>4, <2>2 DEF HandleEventsStart
    <3> QED BY <2>2, <3>1 DEF Protocol, LockHeld, OwnerStates
  <2> QED BY <2>1, <2>2
<1>5. ASSUME NEW u \in Threads, Step(u), ~SetActive(u), ~HandleEventsStart(u)
      PROVE  pc[t] = "poll" /\ ~redo
  BY <1>5 DEF Step, OpenAddPollfd, CloseRemovePollfd, CloseFd, CloseDone, WaitLoop,
     TryLockReadClose, TryLock, SetInactive, UnlockEvents, HandlerActiveReadClose,
     HandlerActiveReadFlag, Sleep, Poll, PipeEvents, HotplugCallback,
     Dispatch, DisconnectFd, DisconnectDevice, Reap, TransferCallback, UnrefDevice,
     BackendUnlock, AfterEvents, handler
<1>6. ASSUME Environment PROVE pc[t] = "poll" /\ ~redo
  BY <1>6 DEF Environment, PollTimeout, WaitTimeout, UrbCompletes, Unplug,
     linux_device_disconnected, handler
<1> QED BY <1>1, <1>2, <1>3, <1>4, <1>5, <1>6 DEF Next, vars, handler

(* The poll set of the handler is rebuilt there too, and fds are closed by *)
(* closers only.                                                           *)
LEMMA OnlyCloserShrinks ==
  ASSUME [Next]_vars
  PROVE  \/ pollfds' = pollfds /\ fds \subseteq fds'
         \/ \E u \in Threads : HandleEventsStart(u) \/ CloseFd(u)
<1> DEFINE Grows == pollfds' = pollfds /\ fds \subseteq fds'
<1>1. ASSUME NEW t \in Threads, Api(t) \/ Locking(t) PROVE Grows
  BY <1>1 DEF Api, OpenFd, OpenGone, CloseAnnounce, SubmitTransfer, HandleEvents,
     libusb_interrupt_event_handler, Locking, libusb_lock_events, OpenListHandle,
     CloseUnlist, LockWaiters, WaitDone, BackendLock, BroadcastWaiters, handler, devices
<1>2. ASSUME NEW t \in Threads, Step(t), ~HandleEventsStart(t), ~CloseFd(t) PROVE Grows
  BY <1>2 DEF Step, OpenAddPollfd, CloseRemovePollfd, CloseDone, WaitLoop,
     TryLockReadClose, TryLock, SetActive, SetInactive, UnlockEvents,
     HandlerActiveReadClose, HandlerActiveReadFlag, Poll, PipeEvents, HotplugCallback,
     Dispatch, DisconnectFd, DisconnectDevice, Reap, TransferCallback, UnrefDevice,
     BackendUnlock, AfterEvents, handler, devices
<1>3. ASSUME Environment PROVE Grows
  BY <1>3 DEF Environment, PollTimeout, WaitTimeout, UrbCompletes, Unplug,
     linux_device_disconnected, handler, devices
<1> QED BY <1>1, <1>2, <1>3 DEF Next, vars, handler, devices

(* The first poll of a round is given open fds, and nobody closes one      *)
(* before poll() returns: closers take events_lock.                        *)
LEMMA PollsOpenStep ==
  ASSUME TypeOK, Protocol, PollSetCurrent, HandleLife, PollsOpenFds, [Next]_vars
  PROVE  PollsOpenFds'
<1> SUFFICES ASSUME NEW t \in Threads, pc'[t] = "poll", ~redo'
             PROVE  pollfds' \subseteq fds'
  BY DEF PollsOpenFds
<1>1. CASE HandleEventsStart(t)
  <2>1. pollfds' = ipollfds /\ fds' = fds
    BY <1>1 DEF HandleEventsStart, PollSetCurrent, devices
  <2> QED BY <2>1 DEF HandleLife, ListedAreOpen
<1>2. CASE pc[t] = "poll" /\ ~redo
  <2>1. ASSUME NEW u \in Threads, HandleEventsStart(u) \/ CloseFd(u) PROVE FALSE
    <3>1. events_lock = t /\ events_lock = u
      BY <1>2, <2>1 DEF HandleEventsStart, CloseFd, Protocol, LockHeld, OwnerStates
    <3> QED BY <1>2, <2>1, <3>1 DEF HandleEventsStart, CloseFd
  <2> QED BY <1>2, <2>1, OnlyCloserShrinks DEF PollsOpenFds
<1> QED BY <1>1, <1>2, OnlyStartPolls DEF TypeOK, ControlTypes

-----------------------------------------------------------------------------
(* The invariant that carries the theorems.                                *)
LEMMA InitIInv == Init => IInv
<1> SUFFICES ASSUME Init PROVE IInv
  OBVIOUS
<1> USE NoneAssumption DEF Init
<1>1. TypeOK
  <2>1. pc \in [Threads -> States]
    BY DEF States
  <2>2. /\ call \in [Threads -> {"none", "open", "close", "transfer", "events"}]
        /\ dev \in [Threads -> Handles \cup {None}]
        /\ completed \in [Threads -> BOOLEAN]
    OBVIOUS
  <2>3. revents \in [pipe : BOOLEAN, fds : SUBSET Handles, err : SUBSET Handles]
    BY DEF NoEvents
  <2>4. EventTypes
    BY DEF EventTypes
  <2> QED BY <2>1, <2>2, <2>3, <2>4 DEF EventTypes, TypeOK
<1>2. HandlesKnown /\ Protocol
  BY DEF HandlesKnown, Protocol, LockHeld, HandlersHandle, WaitersDoNotClose,
     ClosersCounted,
     OwnerStates, HandlerStates, CloserStates
<1>3. PipeMatchesPending /\ PollSetCurrent /\ ReaderHasByte
  BY DEF PipeMatchesPending, PollSetCurrent, ReaderHasByte, PendingNow,
     usbi_pending_events
<1>4. Wakeup /\ HandleLife /\ PollsOpenFds
  BY DEF Wakeup, CountedClosers, ActiveIsOwned, WaiterHasWaker, HandleLife,
     HoldersAlone, Holds, ListedAreOpen, ListedInOrder, PollsOpenFds, CloserStates
<1> QED BY <1>1, <1>2, <1>3, <1>4 DEF IInv

(* Every step keeps it: the parts are proved apart above.             *)
LEMMA StepIInv == IInv /\ [Next]_vars => IInv'
<1> SUFFICES ASSUME IInv, [Next]_vars PROVE IInv'
  OBVIOUS
<1> USE DEF IInv
<1>1. TypeOK' /\ HandlesKnown'
  BY TypeStep
<1>2. Protocol'
  BY ProtocolStep DEF ControlTypes, TypeOK
<1>3. HandleLife'
  BY HandleLifeStep, NoneAssumption DEF HandleTypes, ControlTypes, TypeOK
<1> QED
  BY <1>1, <1>2, <1>3, PipeStep, PollSetStep, ReaderStep, WakeupStep, PollsOpenStep

(* So it holds in every reachable state.                                   *)
LEMMA AlwaysIInv == Safety => []IInv
BY InitIInv, StepIInv, PTL DEF Safety

(* The byte in the event pipe tells exactly whether something is pending.  *)
THEOREM PipeAlwaysMatches == Safety => []PipeMatchesPending
<1>1. IInv => PipeMatchesPending
  BY DEF IInv
<1> QED BY <1>1, AlwaysIInv, PTL

(* No thread hangs in the blocking read of the event pipe.                 *)
THEOREM PipeReadsReturn == Safety => []PipeReadReturns
<1>1. IInv => PipeReadReturns
  BY DEF IInv, PipeReadReturns, ReaderHasByte, PipeMatchesPending, PendingNow,
     usbi_pending_events, Protocol, ClosersCounted
<1> QED BY <1>1, AlwaysIInv, PTL

(* A sleeping handler polls the current fds and keeps nobody waiting.      *)
THEOREM SleepersMissNothing == Safety => []SleeperMissesNothing
<1>1. IInv => SleeperMissesNothing
  BY DEF IInv, SleeperMissesNothing, PipeMatchesPending, PollSetCurrent, Quiet,
     PendingNow, usbi_pending_events
<1> QED BY <1>1, AlwaysIInv, PTL

(* While one thread closes a device, no other is in handle_events.         *)
THEOREM AlwaysClosesAlone == Safety => []ClosesAlone
<1>1. IInv => ClosesAlone
  BY DEF IInv, ClosesAlone, Protocol, LockHeld, HandlersHandle, OwnerStates,
     HandlerStates, CloserStates, TypeOK
<1> QED BY <1>1, AlwaysIInv, PTL

(* No lost wake-up: a thread asleep on event_waiters_cond always has       *)
(* another one that will broadcast, however the reads of device_close and  *)
(* of event_handler_active fall between the steps of the others.           *)
THEOREM WaitersHaveWakers == Safety => []WaiterHasWaker
<1>1. IInv => WaiterHasWaker
  BY DEF IInv, Wakeup
<1> QED BY <1>1, AlwaysIInv, PTL

(* The first poll of a round never meets a closed descriptor.              *)
THEOREM PollsMeetOpenFds == Safety => []PollsOpenFds
<1>1. IInv => PollsOpenFds
  BY DEF IInv
<1> QED BY <1>1, AlwaysIInv, PTL

(* Every value is of its type.                                             *)
THEOREM AlwaysTypeOK == Safety => []TypeOK
<1>1. IInv => TypeOK
  BY DEF IInv
<1> QED BY <1>1, AlwaysIInv, PTL
=============================================================================

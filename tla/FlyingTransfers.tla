-------------------------- MODULE FlyingTransfers ---------------------------
(***************************************************************************)
(* The life of asynchronous transfers in one libusb context (io.c of       *)
(* libusb-1.0.21, built with USBI_TIMERFD_AVAILABLE): the list of flying   *)
(* transfers sorted by timeout, the timerfd armed for it, timeouts that    *)
(* cancel, cancellations by the user, completions, and the end of all      *)
(* transfers of a device that was unplugged.                               *)
(*                                                                         *)
(* flying_transfers_lock is a variable where it is held across steps: by a *)
(* timeout handler that goes through the list.  itransfer->lock is held    *)
(* across steps only by libusb_submit_transfer.  The event handler is one  *)
(* thread at a time (see EventLoop); a second thread handles timeouts when *)
(* its wait for the event handler has run out (the waiter).                *)
(* The backend is reduced to what EventLoop's and UsbfsTransfer's modules say  *)
(* of it: an URB is pending, and comes back done, discarded or lost with   *)
(* its device.                                                             *)
(***************************************************************************)
EXTENDS Naturals, Sequences, FiniteSets, SequencesExt

CONSTANTS
  Transfers,
  Handles,        \* open device handles
  None,           \* no handle, and nobody
  dev_handle,     \* the handle of each transfer
  Timeouts,       \* the timeouts the application gives each transfer, 0: none
  Removable,      \* the handles whose device may be unplugged
  Waiting,        \* a second thread waits while the first handles events
  MaxTime         \* the clock stops there (bound)

ASSUME HandleAssumption   == dev_handle \in [Transfers -> Handles]
ASSUME TimeoutsAssumption == Timeouts \in [Transfers -> SUBSET Nat]
ASSUME WaitingAssumption  == Waiting \in BOOLEAN
ASSUME MaxTimeAssumption  == MaxTime \in Nat \ {0}
ASSUME NobodyAssumption   == None \notin Handles \cup Transfers \cup {"handler", "waiter"}

VARIABLES
  now,              \* CLOCK_MONOTONIC; starts at 1, 0 is "not set"
  \* guarded by flying_transfers_lock
  flying_transfers,
  handled,          \* USBI_TRANSFER_TIMEOUT_HANDLED
  timed_out,        \* USBI_TRANSFER_TIMED_OUT
  timeout,          \* when each transfer times out, 0: never
  timerfd,          \* what it is armed for, 0: disarmed
  flying_lock,      \* who holds it across steps
  \* guarded by itransfer->lock
  in_flight,        \* USBI_TRANSFER_IN_FLIGHT
  cancelling,       \* USBI_TRANSFER_CANCELLING
  \* threads
  submit,           \* where libusb_submit_transfer is, for each transfer
  duration,         \* transfer->timeout, which the application fills in
  pc, cur, systime, \* of the event handler and the waiter
  rearm,            \* the timerfd has fired: to be armed again after the scan
  result,           \* the status the event handler is to report
  leaving,          \* the handle usbi_handle_disconnect works on
  \* devices
  urb, gone, fd_removed,
  \* history
  status,           \* what the last callback of each transfer was given
  accepted          \* whose cancellation the backend has accepted

list    == <<flying_transfers, timeout, timerfd>>
flags   == <<handled, timed_out>>
state   == <<in_flight, cancelling>>
app     == <<submit, duration>>
poller  == <<pc, cur, systime, rearm, result, leaving>>
devices == <<urb, gone, fd_removed>>
history == <<status, accepted>>
vars    == <<now, list, flags, flying_lock, state, app, poller, devices, history>>

Pollers == {"handler", "waiter"}

Init ==
  /\ now = 1
  /\ flying_transfers = << >> /\ timerfd = 0 /\ flying_lock = None
  /\ timeout = [t \in Transfers |-> 0]
  /\ handled = {} /\ timed_out = {} /\ in_flight = {} /\ cancelling = {}
  /\ submit = [t \in Transfers |-> "idle"] /\ duration = [t \in Transfers |-> 0]
  /\ pc = [p \in Pollers |-> "idle"]
  /\ cur = [p \in Pollers |-> None] /\ systime = [p \in Pollers |-> 0]
  /\ rearm = FALSE /\ result = "COMPLETED" /\ leaving = None
  /\ urb = [t \in Transfers |-> "none"] /\ gone = {} /\ fd_removed = {}
  /\ status = [t \in Transfers |-> "none"] /\ accepted = [t \in Transfers |-> "none"]

LockFree == flying_lock = None

(* itransfer->lock is held from the start of a submission to its end.      *)
Locked(t) == submit[t] \in {"backend", "submitted"}

(* The application has submitted it and not been called back yet.          *)
Outstanding(t) == t \in in_flight \/ (pc["handler"] = "callback" /\ cur["handler"] = t)

-----------------------------------------------------------------------------
(* The first transfer that has not been handled, unless one without a      *)
(* timeout comes before it.                                                *)
arm_timerfd_for_next_timeout(l) ==
  LET next == SelectInSeq(l, LAMBDA t : t \notin handled \/ timeout[t] = 0)
  IN  timerfd' = IF next = 0 THEN 0 ELSE timeout[l[next]]

(* With no timeout, an older one is left in place.                         *)
calculate_timeout(t, d) == IF d = 0 THEN timeout[t] ELSE now + d

(* Before the first transfer that times out later, or never.               *)
Place(tv) ==
  LET later == SelectInSeq(flying_transfers, LAMBDA c : timeout[c] = 0 \/ timeout[c] > tv)
  IN  IF tv = 0 \/ later = 0 THEN Len(flying_transfers) + 1 ELSE later

(* Mutants of add_to_flying_list: always at the end; never arms the timer. *)
add_to_flying_list_Tail(t, tv) ==
  /\ timeout' = [timeout EXCEPT ![t] = tv]
  /\ flying_transfers' = Append(flying_transfers, t)
  /\ timerfd' = IF flying_transfers = << >> /\ tv # 0 THEN tv ELSE timerfd
add_to_flying_list_EmptyOnly(t, tv) ==
  /\ timeout' = [timeout EXCEPT ![t] = tv]
  /\ flying_transfers' = InsertAt(flying_transfers, Place(tv), t)
  /\ timerfd' = IF flying_transfers = << >> /\ tv # 0 THEN tv ELSE timerfd

add_to_flying_list(t, tv) ==
  /\ timeout' = [timeout EXCEPT ![t] = tv]
  /\ flying_transfers' = InsertAt(flying_transfers, Place(tv), t)
  /\ timerfd' = IF Place(tv) = 1 /\ tv # 0 THEN tv ELSE timerfd

(* Mutant of remove_from_flying_list: does not look for the next timeout.  *)
remove_from_flying_list_NoRearm(t) ==
  /\ flying_transfers' = RemoveFirst(flying_transfers, t)
  /\ UNCHANGED <<timeout, timerfd>>

remove_from_flying_list(t) ==
  LET rest == RemoveFirst(flying_transfers, t)
  IN  /\ flying_transfers' = rest
      /\ IF timeout[t] # 0 /\ flying_transfers # << >> /\ flying_transfers[1] = t
         THEN arm_timerfd_for_next_timeout(rest)
         ELSE UNCHANGED timerfd
      /\ UNCHANGED timeout

-----------------------------------------------------------------------------
(* libusb_submit_transfer: both locks are taken, the list is released      *)
(* before the backend is called, the transfer after it.                    *)
ClearFlags(t) ==
  /\ cancelling' = cancelling \ {t}
  /\ handled' = handled \ {t} /\ timed_out' = timed_out \ {t}

Submit(t, d) ==
  /\ submit[t] = "idle" /\ ~Outstanding(t) /\ LockFree
  /\ now + d <= MaxTime                       \* bound
  /\ duration' = [duration EXCEPT ![t] = d]
  /\ ClearFlags(t)
  /\ add_to_flying_list(t, calculate_timeout(t, d))
  /\ submit' = [submit EXCEPT ![t] = "backend"]
  /\ UNCHANGED <<now, flying_lock, in_flight, poller, devices, history>>

SubmitUrbs(t) ==
  /\ submit[t] = "backend" /\ dev_handle[t] \notin gone
  /\ urb' = [urb EXCEPT ![t] = "pending"]
  /\ submit' = [submit EXCEPT ![t] = "submitted"]
  /\ UNCHANGED <<now, list, flags, flying_lock, state, duration, poller, gone,
                 fd_removed, history>>

SubmitDone(t) ==
  /\ submit[t] = "submitted"
  /\ in_flight' = in_flight \cup {t}
  /\ submit' = [submit EXCEPT ![t] = "idle"]
  /\ status' = [status EXCEPT ![t] = "none"]
  /\ accepted' = [accepted EXCEPT ![t] = "none"]
  /\ UNCHANGED <<now, list, flags, flying_lock, cancelling, duration, poller, devices>>

SubmitFails(t) ==
  /\ submit[t] = "backend"
  /\ submit' = [submit EXCEPT ![t] = "failed"]
  /\ UNCHANGED <<now, list, flags, flying_lock, state, duration, poller, devices, history>>

RemoveFailed(t) ==
  /\ submit[t] = "failed" /\ LockFree
  /\ remove_from_flying_list(t)
  /\ submit' = [submit EXCEPT ![t] = "idle"]
  /\ UNCHANGED <<now, flags, flying_lock, state, duration, poller, devices, history>>

(* libusb_cancel_transfer; the backend refuses when the URB has come back  *)
(* or the device is gone, and the transfer counts as being cancelled even  *)
(* so.                                                                     *)
Accepts(t) == /\ t \in in_flight \ cancelling
              /\ urb[t] = "pending" /\ dev_handle[t] \notin gone

libusb_cancel_transfer(t, who) ==
  /\ ~Locked(t)
  /\ cancelling' = IF t \in in_flight THEN cancelling \cup {t} ELSE cancelling
  /\ IF Accepts(t)
     THEN /\ urb' = [urb EXCEPT ![t] = "discarded"]
          /\ accepted' = [accepted EXCEPT ![t] = who]
     ELSE UNCHANGED <<urb, accepted>>

CancelTransfer(t) ==
  /\ t \in in_flight \ cancelling
  /\ libusb_cancel_transfer(t, "user")
  /\ UNCHANGED <<now, list, flags, flying_lock, in_flight, app, poller, gone,
                 fd_removed, status>>

-----------------------------------------------------------------------------
(* The event handler and completions.                                      *)
At(p, s) == pc' = [pc EXCEPT ![p] = s]

Reapable(t) ==
  urb[t] \in {"done", "discarded", "lost"} /\ dev_handle[t] \notin fd_removed /\ ~Locked(t)

Reap(t) ==
  /\ pc["handler"] = "idle" /\ Reapable(t)
  /\ urb' = [urb EXCEPT ![t] = "none"]
  /\ cur' = [cur EXCEPT !["handler"] = t]
  /\ IF urb[t] = "discarded"
     THEN At("handler", "readTimedOut") /\ UNCHANGED result
     ELSE At("handler", "remove") /\ result' = IF urb[t] = "done" THEN "COMPLETED" ELSE "NO_DEVICE"
  /\ UNCHANGED <<now, list, flags, flying_lock, state, app, systime, rearm, leaving,
                 gone, fd_removed, history>>

(* usbi_handle_transfer_cancellation.                                      *)
(* Mutant of ReadTimedOut: without flying_transfers_lock.                  *)
ReadTimedOut_NoLock ==
  /\ pc["handler"] = "readTimedOut"
  /\ result' = IF cur["handler"] \in timed_out THEN "TIMED_OUT" ELSE "CANCELLED"
  /\ At("handler", "remove")
  /\ UNCHANGED <<now, list, flags, flying_lock, state, app, cur, systime, rearm,
                 leaving, devices, history>>

ReadTimedOut ==
  /\ pc["handler"] = "readTimedOut" /\ LockFree
  /\ result' = IF cur["handler"] \in timed_out THEN "TIMED_OUT" ELSE "CANCELLED"
  /\ At("handler", "remove")
  /\ UNCHANGED <<now, list, flags, flying_lock, state, app, cur, systime, rearm,
                 leaving, devices, history>>

(* usbi_handle_transfer_completion.                                        *)
RemoveCompleted ==
  /\ pc["handler"] = "remove" /\ LockFree
  /\ remove_from_flying_list(cur["handler"])
  /\ At("handler", "clear")
  /\ UNCHANGED <<now, flags, flying_lock, state, app, cur, systime, rearm, result,
                 leaving, devices, history>>

ClearInFlight ==
  /\ pc["handler"] = "clear" /\ ~Locked(cur["handler"])
  /\ in_flight' = in_flight \ {cur["handler"]}
  /\ At("handler", "callback")
  /\ UNCHANGED <<now, list, flags, flying_lock, cancelling, app, cur, systime, rearm,
                 result, leaving, devices, history>>

Callback ==
  /\ pc["handler"] = "callback"
  /\ status' = [status EXCEPT ![cur["handler"]] = result]
  /\ At("handler", IF leaving = None THEN "idle" ELSE "disconnect")
  /\ cur' = [cur EXCEPT !["handler"] = None]
  /\ UNCHANGED <<now, list, flags, flying_lock, state, app, systime, rearm,
                 result, leaving, devices, accepted>>

(* POLLERR: what can be reaped has been; usbi_handle_disconnect follows.   *)
Disconnect(h) ==
  /\ pc["handler"] = "idle" /\ h \in gone \ fd_removed
  /\ fd_removed' = fd_removed \cup {h} /\ leaving' = h
  /\ At("handler", "disconnect")
  /\ UNCHANGED <<now, list, flags, flying_lock, state, app, cur, systime, rearm,
                 result, urb, gone, history>>

(* The transfers of the handle, up to the first that is in flight: each is *)
(* locked to look at it, which waits for a submission to end.              *)
OfLeaving(i) == dev_handle[flying_transfers[i]] = leaving
Passed(i)    == \A j \in 1 .. i - 1 : OfLeaving(j) => flying_transfers[j] \notin in_flight

(* Mutant of Examined: nobody waits for a submission.                      *)
Examined_NoLock == TRUE

Examined ==
  \A i \in DOMAIN flying_transfers :
    OfLeaving(i) /\ Passed(i) => ~Locked(flying_transfers[i])

(* Mutant of ToEnd: takes what failed to be submitted, too.                *)
ToEnd_AnyListed(i) == OfLeaving(i)

ToEnd(i) == OfLeaving(i) /\ flying_transfers[i] \in in_flight

DisconnectTransfer(t) ==
  /\ pc["handler"] = "disconnect" /\ LockFree /\ Examined
  /\ \E i \in DOMAIN flying_transfers :
       flying_transfers[i] = t /\ ToEnd(i) /\ Passed(i)
  /\ urb' = [urb EXCEPT ![t] = "none"]        \* clear_transfer_priv
  /\ cur' = [cur EXCEPT !["handler"] = t] /\ result' = "NO_DEVICE"
  /\ At("handler", "remove")
  /\ UNCHANGED <<now, list, flags, flying_lock, state, app, systime, rearm, leaving,
                 gone, fd_removed, history>>

DisconnectDone ==
  /\ pc["handler"] = "disconnect" /\ LockFree
  /\ Examined /\ ~\E i \in DOMAIN flying_transfers : ToEnd(i)
  /\ leaving' = None
  /\ At("handler", "idle")
  /\ UNCHANGED <<now, list, flags, flying_lock, state, app, cur, systime, rearm,
                 result, devices, history>>

-----------------------------------------------------------------------------
(* handle_timeouts_locked goes through the list with the time it read at   *)
(* its start; arming again follows only when the timerfd has fired.        *)
StartScan(p) ==
  /\ pc[p] = "idle" /\ LockFree
  /\ flying_lock' = p /\ systime' = [systime EXCEPT ![p] = now]
  /\ At(p, "scan")
  /\ UNCHANGED <<now, list, flags, state, app, cur, result, leaving, devices, history>>

TimerFires    == timerfd # 0 /\ timerfd <= now /\ StartScan("handler") /\ rearm' = TRUE
PollTimesOut  == StartScan("handler") /\ rearm' = FALSE
WaitTimesOut  == Waiting /\ StartScan("waiter") /\ UNCHANGED rearm

(* A handled one is skipped, one without a timeout or not expired ends it. *)
Expired(p, i) ==
  /\ timeout[flying_transfers[i]] \in 1 .. systime[p] /\ flying_transfers[i] \notin handled
  /\ \A j \in 1 .. i - 1 : timeout[flying_transfers[j]] # 0
                           /\ flying_transfers[j] \in handled

handle_timeout(p, i) ==
  LET t == flying_transfers[i]
  IN  /\ pc[p] = "scan" /\ Expired(p, i)
      /\ handled' = handled \cup {t}
      /\ libusb_cancel_transfer(t, "timer")
      /\ IF Accepts(t) THEN At(p, "mark") /\ cur' = [cur EXCEPT ![p] = t]
                       ELSE UNCHANGED <<pc, cur>>
      /\ UNCHANGED <<now, list, timed_out, flying_lock, in_flight, app, systime,
                     rearm, result, leaving, gone, fd_removed, status>>

MarkTimedOut(p) ==
  /\ pc[p] = "mark"
  /\ timed_out' = timed_out \cup {cur[p]}
  /\ At(p, "scan") /\ cur' = [cur EXCEPT ![p] = None]
  /\ UNCHANGED <<now, list, handled, flying_lock, state, app, systime, rearm,
                 result, leaving, devices, history>>

Rearm(p) == IF p = "handler" /\ rearm
            THEN arm_timerfd_for_next_timeout(flying_transfers) ELSE UNCHANGED timerfd

EndScan(p) ==
  /\ pc[p] = "scan" /\ ~\E i \in DOMAIN flying_transfers : Expired(p, i)
  /\ Rearm(p)
  /\ flying_lock' = None
  /\ At(p, "idle") /\ systime' = [systime EXCEPT ![p] = 0]
  /\ rearm' = IF p = "handler" THEN FALSE ELSE rearm
  /\ UNCHANGED <<now, flying_transfers, timeout, flags, state, app, cur, result,
                 leaving, devices, history>>

-----------------------------------------------------------------------------
(* Devices and time.                                                       *)
UrbDone(t) ==
  /\ urb[t] = "pending"
  /\ urb' = [urb EXCEPT ![t] = "done"]
  /\ UNCHANGED <<now, list, flags, flying_lock, state, app, poller, gone, fd_removed, history>>

UrbLost(t) ==
  /\ urb[t] = "pending" /\ dev_handle[t] \in gone
  /\ urb' = [urb EXCEPT ![t] = "lost"]
  /\ UNCHANGED <<now, list, flags, flying_lock, state, app, poller, gone, fd_removed, history>>

Unplug(h) ==
  /\ h \in Removable \ gone
  /\ gone' = gone \cup {h}
  /\ UNCHANGED <<now, list, flags, flying_lock, state, app, poller, urb, fd_removed, history>>

Tick ==
  /\ now < MaxTime                            \* bound
  /\ now' = now + 1
  /\ UNCHANGED <<list, flags, flying_lock, state, app, poller, devices, history>>

-----------------------------------------------------------------------------
Submission(t) == SubmitUrbs(t) \/ SubmitDone(t) \/ SubmitFails(t)

(* What waits for flying_transfers_lock, or for its turn in a round of     *)
(* event handling.                                                         *)
Completion == ReadTimedOut \/ RemoveCompleted
Leave      == (\E t \in Transfers : DisconnectTransfer(t)) \/ DisconnectDone
Scan(p)    == (\E i \in 1 .. Cardinality(Transfers) :
                 i \in DOMAIN flying_transfers /\ handle_timeout(p, i))
              \/ MarkTimedOut(p) \/ EndScan(p)

Next ==
  \/ \E t \in Transfers :
       \/ \E d \in Timeouts[t] : Submit(t, d)
       \/ Submission(t) \/ RemoveFailed(t) \/ CancelTransfer(t) \/ Reap(t)
       \/ UrbDone(t) \/ UrbLost(t)
  \/ Completion \/ ClearInFlight \/ Callback \/ Leave
  \/ TimerFires \/ PollTimesOut \/ WaitTimesOut
  \/ \E p \in Pollers : Scan(p)
  \/ \E h \in Handles : Disconnect(h) \/ Unplug(h)
  \/ Tick

(* Threads run, locks are not handed to others for ever, and a round of    *)
(* event handling serves the timerfd and every file descriptor that poll() *)
(* reports.  A device owes nothing, and no wait has to run out.            *)
Fairness ==
  /\ WF_vars(\E t \in Transfers : Submission(t)) /\ SF_vars(\E t \in Transfers : RemoveFailed(t))
  /\ \A t \in Transfers : SF_vars(Reap(t))
  /\ SF_vars(Completion) /\ WF_vars(ClearInFlight \/ Callback) /\ SF_vars(Leave)
  /\ SF_vars(TimerFires) /\ WF_vars(\E p \in Pollers : Scan(p))
  /\ SF_vars(\E h \in Handles : Disconnect(h))

Safety == Init /\ [][Next]_vars
Spec   == Safety /\ Fairness

-----------------------------------------------------------------------------
Results == {"COMPLETED", "CANCELLED", "TIMED_OUT", "NO_DEVICE"}

TypeOK ==
  /\ now \in 1 .. MaxTime /\ timerfd \in 0 .. MaxTime
  /\ flying_transfers \in Seq(Transfers) /\ timeout \in [Transfers -> 0 .. MaxTime]
  /\ handled \subseteq Transfers /\ timed_out \subseteq Transfers
  /\ in_flight \subseteq Transfers /\ cancelling \subseteq Transfers
  /\ flying_lock \in Pollers \cup {None}
  /\ submit \in [Transfers -> {"idle", "backend", "submitted", "failed"}]
  /\ duration \in [Transfers -> 0 .. MaxTime]
  /\ pc \in [Pollers -> {"idle", "scan", "mark", "readTimedOut", "remove", "clear",
                        "callback", "disconnect"}]
  /\ pc["waiter"] \in {"idle", "scan", "mark"}
  /\ cur \in [Pollers -> Transfers \cup {None}] /\ systime \in [Pollers -> 0 .. MaxTime]
  /\ rearm \in BOOLEAN /\ result \in Results /\ leaving \in Handles \cup {None}
  /\ urb \in [Transfers -> {"none", "pending", "done", "discarded", "lost"}]
  /\ gone \subseteq Handles /\ fd_removed \subseteq gone
  /\ status \in [Transfers -> {"none"} \cup Results]
  /\ accepted \in [Transfers -> {"none", "user", "timer"}]

(* The list holds exactly the transfers that are being submitted or are in *)
(* flight, each once, sorted by timeout, those without one at the end, so  *)
(* that a scan that stops early misses nothing.                            *)
ListExact ==
  /\ IsInjective(flying_transfers)
  /\ ToSet(flying_transfers) =
       {t \in Transfers : submit[t] # "idle"
          \/ (t \in in_flight /\ ~(pc["handler"] = "clear" /\ cur["handler"] = t))}
  /\ \A i, j \in DOMAIN flying_transfers :
       LET a == timeout[flying_transfers[i]]
           b == timeout[flying_transfers[j]]
       IN  i < j => b = 0 \/ (a # 0 /\ a <= b)

(* The timerfd wakes the event handler in time for the next timeout; only  *)
(* a transfer whose own timeout has been handled, and whose completion     *)
(* will look for the next, can stand before it.                            *)
TimerArmed ==
  LockFree => \A i \in DOMAIN flying_transfers :
    timeout[flying_transfers[i]] # 0 /\ flying_transfers[i] \notin handled =>
      \/ timerfd # 0 /\ timerfd <= timeout[flying_transfers[i]]
      \/ flying_transfers[1] \in handled

(* The status tells who ended the transfer: TIMED_OUT exactly for the      *)
(* timeout's cancellation, and never early; CANCELLED exactly for the      *)
(* user's; whichever came second was refused.                              *)
StatusTellsWho ==
  \A t \in Transfers :
    /\ t \in timed_out => timeout[t] \in 1 .. now
    /\ status[t] # "none" =>
         /\ status[t] = "TIMED_OUT" => accepted[t] = "timer"
         /\ status[t] = "CANCELLED" => accepted[t] = "user"
         /\ accepted[t] # "none" => status[t] \in {"TIMED_OUT", "CANCELLED", "NO_DEVICE"}

(* After usbi_handle_disconnect no transfer of the device is in flight,    *)
(* and none that was being submitted meanwhile gets there.                 *)
NoneLeftBehind ==
  \A t \in Transfers :
    dev_handle[t] \in fd_removed \ {leaving} =>
      t \notin in_flight /\ submit[t] # "submitted"

(* A transfer whose timeout is over is reported: no completion is waited   *)
(* for, whatever else is submitted, cancelled and completed meanwhile.     *)
ExpiredReported ==
  \A t \in Transfers :
    (t \in in_flight /\ timeout[t] # 0 /\ timeout[t] <= now) ~> ~Outstanding(t)

(* Every transfer as its user sees it (libusb.h): reported exactly once for*)
(* each submission, and as cancelled only if a cancellation was accepted.  *)
(* This is Transfer(t)!Spec of every t, with one subscript for all.        *)
Transfer(t) == INSTANCE AsyncTransfer WITH
                 in_flight <- Outstanding(t), cancelled <- accepted[t] # "none",
                 status <- status[t]
ImplementsTransfers ==
  /\ \A t \in Transfers : Transfer(t)!Init
  /\ [][\A t \in Transfers : [Transfer(t)!Next]_(Transfer(t)!vars)]_vars

(* "A value of 0 indicates no timeout" (libusb.h:1223): a transfer that is *)
(* submitted without a timeout does not time out.                          *)
ZeroIsNoTimeout == \A t \in Transfers : duration[t] = 0 => t \notin timed_out
=============================================================================

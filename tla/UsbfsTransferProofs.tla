------------------------ MODULE UsbfsTransferProofs -------------------------
(***************************************************************************)
(* Theorems about UsbfsTransfer, for every number and length of URBs, every*)
(* type of transfer, every failure of an URB and with or without bulk      *)
(* continuation.  They suppose that the endpoint does not stall with two   *)
(* URBs or more still to come (~EarlyStalls) and that the device does not  *)
(* go away between two ioctls of a cancellation (~UnplugInCancel): in these*)
(* two cases linux_usbfs.c frees the URBs of a transfer before all of them *)
(* have come back, and NoUrbLeft does not hold.                            *)
(*                                                                         *)
(* The invariant says, besides what the lock is held for in which phase,   *)
(* where every URB is (States, Queue), that URBs come back in the order    *)
(* they were submitted but for those a cancellation has retired without    *)
(* data (Order), that num_retired counts those no longer with the kernel   *)
(* (Counted), and what is known of the status and the data of a transfer   *)
(* halfway through (Cancels, Data, Honest).  Bounds, for the counters, is  *)
(* inductive on top of it.                                                 *)
(***************************************************************************)
EXTENDS UsbfsTransfer, FiniteSetTheorems, TLAPS

-----------------------------------------------------------------------------
(* What a variable may be.                                                 *)
UrbStatuses == {"OK", "EREMOTEIO", "ENOENT", "ECONNRESET",
                "ESHUTDOWN", "EPIPE", "EPROTO", "EOVERFLOW"}
UrbType == [state : {"none", "pending", "done", "reaped"},
            status : UrbStatuses, actual_length : 0 .. UrbLength]
PrivType == [urbs : BOOLEAN, num_urbs : 1 .. MaxUrbs, num_retired : Nat,
             iso_packet_offset : Nat,
             reap_action : {"NORMAL", "SUBMIT_FAILED", "CANCELLED",
                            "COMPLETED_EARLY", "ERROR"},
             reap_status : Results]
TransferType == [in_flight : BOOLEAN, cancelling : BOOLEAN, transferred : Nat]

TypeInv ==
  /\ holder \in {"none", "submit", "submitDiscard", "submitted", "cancelDiscard",
                 "cancelDone", "reapDiscard"}
  /\ at \in Urbs /\ first \in Urbs /\ last \in Urbs
  /\ ret \in {"SUCCESS", "NOT_FOUND", "NO_DEVICE"}
  /\ tpriv \in PrivType /\ itransfer \in TransferType
  /\ completing \in BOOLEAN /\ type \in {"BULK", "INTERRUPT", "ISO", "CONTROL"}
  /\ urb \in [Urbs -> UrbType] /\ finished \in Seq(Urbs)
  /\ continuation \in BOOLEAN /\ reapsGone \in BOOLEAN /\ cut \in BOOLEAN
  /\ halted \in BOOLEAN /\ gone \in BOOLEAN /\ fd_removed \in BOOLEAN
  /\ cancelled \in BOOLEAN /\ hole \in BOOLEAN
  /\ status \in {"none"} \cup Results

(* Short names.                                                            *)
num == tpriv.num_urbs
Normal == tpriv.reap_action = "NORMAL"
Back(u) == urb[u].state \in {"done", "reaped"}

(* What the lock is held for, against the state of the transfer: URBs are  *)
(* allocated while it is in flight and until its completion is decided.    *)
Phases ==
  /\ holder # "none" => tpriv.urbs /\ ~completing
  /\ holder \in {"submit", "submitDiscard", "submitted"} => ~itransfer.in_flight
  /\ holder \in {"cancelDiscard", "cancelDone"} =>
       itransfer.in_flight /\ itransfer.cancelling /\ ~cancelled
  /\ holder = "reapDiscard" => itransfer.in_flight /\ Bulk
  /\ completing => itransfer.in_flight /\ ~tpriv.urbs
  /\ itransfer.in_flight /\ ~completing => tpriv.urbs
  /\ tpriv.urbs /\ holder = "none" => itransfer.in_flight
  /\ itransfer.in_flight => status = "none" /\ ~fd_removed
  /\ itransfer.in_flight /\ ~itransfer.cancelling => ~cancelled
  /\ fd_removed => gone
  /\ holder \in {"submitDiscard", "submitted"} \/ (holder = "submit" /\ at > 0) => ~fd_removed

(* reap_action, by phase and by type of transfer.                          *)
Actions ==
  /\ holder = "submit" => Normal
  /\ holder = "submitDiscard" => tpriv.reap_action = "SUBMIT_FAILED"
  /\ holder = "submitted" => tpriv.reap_action \notin {"CANCELLED", "ERROR"}
  /\ tpriv.urbs /\ type = "CONTROL" =>
       num = 1 /\ tpriv.reap_action \in {"NORMAL", "CANCELLED"} /\ holder # "submitDiscard"
  /\ tpriv.urbs /\ type = "ISO" => tpriv.reap_action \notin {"ERROR", "COMPLETED_EARLY"}
  /\ cut => continuation /\ type = "BULK"

(* The range of a discard loop and of the submission.                      *)
Ranges ==
  /\ DiscardLoop => first <= at /\ at <= last /\ last < num
  /\ holder = "cancelDiscard" => first = 0 /\ last = num - 1
  /\ holder = "cancelDiscard" /\ at = last => ret = "SUCCESS"
  /\ holder = "reapDiscard" => last = num - 1
  /\ holder = "submit" => at < num

(* URBs are submitted from the first on, and those not yet back are        *)
(* blank.                                                                  *)
States ==
  /\ \A u, v \in Urbs : u < v /\ urb[u].state = "none" => urb[v].state = "none"
  /\ \A u \in Urbs : u >= num => urb[u].state = "none"
  /\ \A u \in Urbs : urb[u].state \in {"none", "pending"} =>
       urb[u].status = "OK" /\ urb[u].actual_length = 0
  /\ holder = "submit" =>
       \A u \in Urbs : IF u < at THEN urb[u].state \in {"pending", "done"}
                                 ELSE urb[u].state = "none"
  /\ holder \in {"submitDiscard", "submitted"} =>
       /\ urb[0].state # "none"
       /\ \A u \in Urbs : urb[u].state # "reaped"
  /\ tpriv.urbs /\ holder # "submit" /\ Normal =>
       \A u \in Urbs : u < num => urb[u].state # "none"

(* Where a status other than success may be, and what else it tells.       *)
Statuses ==
  \A u \in Urbs :
    /\ urb[u].status = "EOVERFLOW" => u + 1 = num
    /\ urb[u].status = "EPIPE" => u + 2 >= num
    /\ urb[u].status = "ESHUTDOWN" => gone
    /\ urb[u].status \in {"EPIPE", "EPROTO"} => halted /\ type # "ISO"

(* `finished' lists the URBs that are done, each once.                     *)
Queue ==
  /\ \A i \in 1 .. Len(finished) : urb[finished[i]].state = "done"
  /\ \A i, j \in 1 .. Len(finished) : finished[i] = finished[j] => i = j
  /\ \A u \in Urbs : urb[u].state = "done" => \E i \in 1 .. Len(finished) : finished[i] = u

(* An URB was reaped before another, or is to be.                          *)
Ahead(v, u) ==
  \/ urb[v].state = "reaped"
  \/ /\ urb[v].state = "done" /\ urb[u].state = "done"
     /\ \A i, j \in 1 .. Len(finished) : finished[i] = v /\ finished[j] = u => i < j
InTurn(u) == \A v \in Urbs : v < u => Ahead(v, u)

OutOfTurn == \/ holder = "cancelDiscard" /\ at < last /\ ret = "SUCCESS"
             \/ holder = "cancelDone" /\ ret = "SUCCESS"

(* URBs come back in turn, but for those a discard loop retires from the   *)
(* last on; while it does, and until the loop's result is noted as a       *)
(* cancellation, the transfer may still count as normal.                   *)
Order ==
  /\ \A u \in Urbs : Back(u) /\ (urb[u].status # "ENOENT" \/ urb[u].actual_length > 0) => InTurn(u)
  /\ tpriv.urbs /\ Normal /\ ~OutOfTurn => \A u \in Urbs : Back(u) => InTurn(u)

(* What a discard loop that did not succeed has found: no URB pending,     *)
(* unless the device is gone; and a loop that begins while the transfer    *)
(* counts as normal has one URB left to discard.                           *)
Discards ==
  /\ holder = "cancelDiscard" /\ at < last /\ gone => ret = "NO_DEVICE"
  /\ holder = "cancelDiscard" /\ at < last /\ ret # "SUCCESS" /\ Normal =>
       gone \/ \A u \in Urbs : urb[u].state # "pending"
  /\ holder = "reapDiscard" /\ Normal =>
       gone \/ (first = num - 1 /\ \A u \in Urbs : u < num - 1 => urb[u].state = "reaped")

(* num_retired counts the URBs reaped and those never submitted, which is  *)
(* how handle_bulk_completion finds the last one.                          *)
RetiredUrbs == {u \in 0 .. num - 1 : urb[u].state \in {"none", "reaped"}}
Counted ==
  tpriv.urbs /\ type # "CONTROL" =>
    IF holder = "submit" THEN tpriv.num_retired = 0
                         ELSE tpriv.num_retired = Cardinality(RetiredUrbs)

(* URBs are allocated only while one of them is still to come.             *)
SomeLeft == tpriv.urbs /\ (holder = "submit" => at > 0) =>
              \E u \in Urbs : urb[u].state \in {"pending", "done"}

(* A transfer is marked CANCELLED exactly if libusb_cancel_transfer said   *)
(* so; a low level error keeps its verdict because it leaves nothing for   *)
(* the cancellation to discard.                                            *)
Cancels ==
  /\ itransfer.in_flight => (tpriv.reap_action = "CANCELLED" <=> cancelled)
  /\ tpriv.urbs /\ tpriv.reap_action = "ERROR" =>
       /\ holder = "reapDiscard" => at = last \/ gone \/ urb[num - 1].state # "pending"
       /\ holder \in {"none", "cancelDiscard", "cancelDone"} =>
            gone \/ urb[num - 1].state # "pending"
       /\ holder = "cancelDiscard" /\ at < last => ret # "SUCCESS"
       /\ holder = "cancelDone" => ret # "SUCCESS"
  /\ tpriv.urbs /\ type = "CONTROL" /\ urb[0].status = "ENOENT" =>
       (holder = "cancelDone" /\ ret = "SUCCESS") \/ (itransfer.in_flight /\ cancelled)
  /\ tpriv.urbs /\ Bulk => tpriv.reap_status # "CANCELLED"
  /\ completing /\ tpriv.reap_status = "CANCELLED" => cancelled

Failed(u) == urb[u].status \in {"ESHUTDOWN", "EPIPE"}
(* The data of a transfer that is normal so far: full URBs up to the one   *)
(* to be reaped next, which is why it lies where the URB received it.      *)
Data ==
  /\ \A u, v \in Urbs : u < v /\ urb[u].status \in {"ESHUTDOWN", "EPIPE", "EPROTO"} =>
       urb[v].actual_length = 0
  /\ tpriv.urbs /\ Bulk /\ Normal =>
       /\ \A u \in Urbs : urb[u].state = "reaped" /\ ~Failed(u) => urb[u].actual_length = UrbLength
       /\ (\E u \in Urbs : urb[u].state = "reaped" /\ Failed(u)) \/
          \A r \in Urbs : /\ urb[r].state # "reaped"
                          /\ \A v \in Urbs : v < r => urb[v].state = "reaped"
                          => itransfer.transferred = r * UrbLength

(* The verdict of a failure is kept until it is reported.                  *)
Honest ==
  /\ ~gone /\ ~continuation /\ (tpriv.urbs \/ completing) =>
       \A u \in Urbs : FailedFirst(u) =>
         \/ tpriv.reap_status # "COMPLETED"
         \/ tpriv.reap_action \in {"SUBMIT_FAILED", "CANCELLED", "ERROR"}
  /\ completing /\ tpriv.reap_action \in {"SUBMIT_FAILED", "ERROR"} =>
       tpriv.reap_status # "COMPLETED"
  /\ tpriv.urbs /\ ~continuation /\ tpriv.reap_action = "COMPLETED_EARLY" =>
       \E w \in Urbs : /\ urb[w].state = "reaped" /\ urb[w].actual_length < UrbLength
                       /\ \A v \in Urbs : v < w => urb[v].state = "reaped"

(* The inductive invariant.                                                *)
IInv ==
  /\ TypeInv
  /\ Phases /\ Actions /\ Ranges /\ States /\ Statuses /\ Queue /\ Order /\ Discards
  /\ Counted /\ SomeLeft /\ NoUrbLeft
  /\ Cancels /\ CancelTruth /\ Data /\ NoHoles /\ Honest /\ StatusHonest

-----------------------------------------------------------------------------
(* An URB that is pending comes back.                                      *)
Retires(u, why, k) ==
  /\ u \in Urbs /\ urb[u].state = "pending"
  /\ why \in UrbStatuses /\ k \in 0 .. UrbLength
  /\ Retire(u, why, k)

(* What that changes.                                                      *)
LEMMA RetireFields ==
  ASSUME TypeInv, NEW u, NEW why, NEW k, Retires(u, why, k)
  PROVE  /\ \A v \in Urbs : v # u => urb'[v] = urb[v]
         /\ urb'[u].state = "done" /\ urb'[u].status = why /\ urb'[u].actual_length = k
         /\ urb' \in [Urbs -> UrbType]
         /\ finished' \in Seq(Urbs)
BY DEF TypeInv, PrivType, TransferType, UrbType, Retires, Retire, UrbStatuses

(* It is the last to be reaped, after all that are back.                   *)
LEMMA RetireQueue ==
  ASSUME TypeInv, Queue, NEW u, NEW why, NEW k, Retires(u, why, k)
  PROVE  /\ Queue'
         /\ \A w \in Urbs : w # u /\ Back(w) /\ InTurn(w) => InTurn(w)'
         /\ (\A v \in Urbs : v < u => Back(v)) => InTurn(u)'
<1> DEFINE l == Len(finished)
<1>0. l \in Nat /\ finished \in Seq(Urbs)
  BY DEF TypeInv, PrivType, TransferType, UrbType, UrbStatuses
<1>1. /\ Len(finished') = l + 1 /\ finished'[l + 1] = u
      /\ \A i \in 1 .. l : finished'[i] = finished[i] /\ finished[i] \in Urbs
  BY <1>0 DEF Retires, Retire
<1>2. /\ u \in Urbs /\ urb[u].state = "pending"
      /\ \A v \in Urbs : v # u => urb'[v] = urb[v]
      /\ urb'[u].state = "done"
  BY RetireFields DEF Retires
<1>3. \A i \in 1 .. l : urb[finished[i]].state = "done" /\ finished[i] # u
  BY <1>2 DEF Queue
<1> HIDE DEF l
<1>4. Queue'
  <2>1. \A i \in 1 .. Len(finished') : urb'[finished'[i]].state = "done"
    BY <1>0, <1>1, <1>2, <1>3
  <2>2. \A i, j \in 1 .. Len(finished') : finished'[i] = finished'[j] => i = j
    BY <1>0, <1>1, <1>2, <1>3 DEF Queue, l
  <2>3. ASSUME NEW v \in Urbs, urb'[v].state = "done"
        PROVE  \E i \in 1 .. Len(finished') : finished'[i] = v
    <3>1. CASE v = u
      BY <3>1, <1>0, <1>1
    <3>2. CASE v # u
      <4>1. PICK i \in 1 .. l : finished[i] = v
        BY <3>2, <2>3, <1>2 DEF Queue, l
      <4>2. i \in 1 .. Len(finished') /\ finished'[i] = v
        BY <4>1, <1>0, <1>1
      <4> QED BY <4>2
    <3> QED BY <3>1, <3>2
  <2> QED BY <2>1, <2>2, <2>3 DEF Queue
<1>5. ASSUME NEW w \in Urbs, w # u, Back(w), InTurn(w)
      PROVE  InTurn(w)'
  <2> SUFFICES ASSUME NEW v \in Urbs, v < w PROVE Ahead(v, w)'
    BY DEF InTurn
  <2>1. Ahead(v, w)
    BY <1>5 DEF InTurn
  <2>2. v # u
    BY <2>1, <1>2 DEF Ahead
  <2>3. urb'[v] = urb[v] /\ urb'[w] = urb[w]
    BY <2>2, <1>2, <1>5
  <2>4. CASE urb[v].state = "reaped"
    BY <2>4, <2>3 DEF Ahead
  <2>5. CASE urb[v].state # "reaped"
    <3>1. \A i, j \in 1 .. l : finished[i] = v /\ finished[j] = w => i < j
      BY <2>1, <2>5 DEF Ahead, l
    <3>2. \A i, j \in 1 .. Len(finished') : finished'[i] = v /\ finished'[j] = w => i < j
      BY <3>1, <1>0, <1>1, <2>2, <1>5
    <3> QED BY <3>2, <2>1, <2>3, <2>5 DEF Ahead
  <2> QED BY <2>4, <2>5
<1>6. ASSUME \A v \in Urbs : v < u => Back(v)
      PROVE  InTurn(u)'
  <2> SUFFICES ASSUME NEW v \in Urbs, v < u PROVE Ahead(v, u)'
    BY DEF InTurn
  <2>1. v # u /\ Back(v) /\ urb'[v] = urb[v]
    BY <1>6, <1>2 DEF Urbs
  <2>2. \A i, j \in 1 .. Len(finished') : finished'[i] = v /\ finished'[j] = u => i < j
    BY <2>1, <1>0, <1>1, <1>3
  <2> QED BY <2>1, <2>2, <1>2 DEF Ahead, Back
<1> QED BY <1>4, <1>5, <1>6

(* What taking the next URB from the queue changes.                        *)
LEMMA TakeFields ==
  ASSUME TypeInv, Queue, finished # << >>, TakeUrb
  PROVE  /\ reaped \in Urbs /\ urb[reaped].state = "done"
         /\ \A v \in Urbs : v # reaped => urb'[v] = urb[v]
         /\ urb'[reaped].state = "reaped" /\ urb'[reaped].status = urb[reaped].status
         /\ urb'[reaped].actual_length = urb[reaped].actual_length
         /\ urb' \in [Urbs -> UrbType]
         /\ finished' \in Seq(Urbs)
<1>1. finished \in Seq(Urbs) /\ Len(finished) > 0 /\ reaped = finished[1] /\ reaped \in Urbs
  BY DEF TypeInv, PrivType, TransferType, UrbType, UrbStatuses, reaped
<1>2. urb[reaped].state = "done"
  BY <1>1 DEF Queue
<1>3. finished' \in Seq(Urbs)
  BY <1>1 DEF TakeUrb
<1>4. PICK r \in Urbs : r = reaped
  BY <1>1
<1>5. urb \in [Urbs -> UrbType] /\ urb' = [urb EXCEPT ![r].state = "reaped"]
  BY <1>4 DEF TypeInv, TakeUrb
<1>6. \A v \in Urbs : v # r => urb'[v] = urb[v]
  BY <1>5
<1>7. /\ urb'[r] = [urb[r] EXCEPT !.state = "reaped"] /\ urb[r] \in UrbType
      /\ urb' \in [Urbs -> UrbType]
  BY <1>5 DEF UrbType
<1>8. /\ urb'[r].state = "reaped" /\ urb'[r].status = urb[r].status
      /\ urb'[r].actual_length = urb[r].actual_length
  BY <1>7 DEF UrbType
<1> QED BY <1>1, <1>2, <1>3, <1>4, <1>6, <1>7, <1>8

(* Order among the URBs survives it, and the URB taken has had its turn    *)
(* if the URBs before it are back.                                         *)
LEMMA TakeQueue ==
  ASSUME TypeInv, Queue, finished # << >>, TakeUrb
  PROVE  /\ Queue'
         /\ \A w \in Urbs : Back(w) /\ InTurn(w) => InTurn(w)'
         /\ InTurn(reaped) => \A v \in Urbs : v < reaped => urb[v].state = "reaped"
<1> DEFINE l == Len(finished)
<1>0. l \in Nat /\ l > 0 /\ finished \in Seq(Urbs)
  BY DEF TypeInv, PrivType, TransferType, UrbType, UrbStatuses
<1>1. /\ Len(finished') = l - 1 /\ reaped = finished[1]
      /\ \A i \in 1 .. l - 1 : finished'[i] = finished[i + 1]
      /\ \A i \in 1 .. l : finished[i] \in Urbs
  BY <1>0 DEF TakeUrb, reaped
<1>2. /\ reaped \in Urbs /\ urb[reaped].state = "done"
      /\ \A v \in Urbs : v # reaped => urb'[v] = urb[v]
      /\ urb'[reaped].state = "reaped"
  BY TakeFields
<1>3. \A i, j \in 1 .. l : finished[i] = finished[j] => i = j
  BY DEF Queue
<1>3a. \A i \in 1 .. l - 1 : finished'[i] # reaped
  BY <1>0, <1>1, <1>3
<1>3b. \A i \in 1 .. l : urb[finished[i]].state = "done"
  BY DEF Queue
<1> HIDE DEF l
<1>4. Queue'
  <2>1. \A i \in 1 .. Len(finished') : urb'[finished'[i]].state = "done"
    <3> SUFFICES ASSUME NEW i \in 1 .. l - 1 PROVE urb'[finished'[i]].state = "done"
      BY <1>1
    <3>1. i + 1 \in 1 .. l
      BY <1>0
    <3>2. finished'[i] \in Urbs /\ urb[finished'[i]].state = "done" /\ finished'[i] # reaped
      BY <3>1, <1>1, <1>3a, <1>3b
    <3> QED BY <3>2, <1>2
  <2>2. \A i, j \in 1 .. Len(finished') : finished'[i] = finished'[j] => i = j
    BY <1>0, <1>1, <1>3
  <2>3. ASSUME NEW v \in Urbs, urb'[v].state = "done"
        PROVE  \E i \in 1 .. Len(finished') : finished'[i] = v
    <3>1. v # reaped /\ urb[v].state = "done"
      BY <2>3, <1>2
    <3>2. PICK i \in 1 .. l : finished[i] = v
      BY <3>1 DEF Queue, l
    <3>3. i - 1 \in 1 .. Len(finished') /\ finished'[i - 1] = v
      BY <3>1, <3>2, <1>0, <1>1
    <3> QED BY <3>3
  <2> QED BY <2>1, <2>2, <2>3 DEF Queue
<1>5. ASSUME InTurn(reaped), NEW v \in Urbs, v < reaped
      PROVE  urb[v].state = "reaped"
  <2>1. Ahead(v, reaped)
    BY <1>5, <1>2 DEF InTurn
  <2> SUFFICES ASSUME urb[v].state = "done",
                      \A i, j \in 1 .. l : finished[i] = v /\ finished[j] = reaped => i < j
               PROVE  FALSE
    BY <2>1 DEF Ahead, l
  <2>2. PICK i \in 1 .. l : finished[i] = v
    BY DEF Queue, l
  <2>3. i < 1
    BY <2>2, <1>0, <1>1
  <2> QED BY <2>3
<1>6. ASSUME NEW w \in Urbs, Back(w), InTurn(w)
      PROVE  InTurn(w)'
  <2> SUFFICES ASSUME NEW v \in Urbs, v < w PROVE Ahead(v, w)'
    BY DEF InTurn
  <2>1. Ahead(v, w)
    BY <1>6 DEF InTurn
  <2>2. CASE urb[v].state = "reaped" \/ v = reaped
    BY <2>2, <1>2 DEF Ahead
  <2>3. CASE urb[v].state # "reaped" /\ v # reaped
    <3>1. /\ urb[v].state = "done" /\ urb[w].state = "done"
          /\ \A i, j \in 1 .. l : finished[i] = v /\ finished[j] = w => i < j
      BY <2>1, <2>3 DEF Ahead, l
    <3>2. w # reaped
      <4>1. CASE w = reaped
        BY <4>1, <1>5, <1>6, <2>3
      <4> QED BY <4>1
    <3>3. \A i, j \in 1 .. Len(finished') : finished'[i] = v /\ finished'[j] = w => i < j
      <4> SUFFICES ASSUME NEW i \in 1 .. l - 1, NEW j \in 1 .. l - 1,
                          finished'[i] = v, finished'[j] = w
                   PROVE  i < j
        BY <1>1
      <4>1. i + 1 \in 1 .. l /\ j + 1 \in 1 .. l
        BY <1>0
      <4>2. finished[i + 1] = v /\ finished[j + 1] = w
        BY <1>1
      <4>3. i + 1 < j + 1
        BY <4>1, <4>2, <3>1
      <4> QED BY <4>3, <1>0
    <3> QED BY <3>1, <3>2, <3>3, <2>3, <1>2 DEF Ahead
  <2> QED BY <2>2, <2>3
<1> QED BY <1>4, <1>5, <1>6

(* How many of a transfer's URBs there can be: all, only if it is each.    *)
LEMMA CountLemma ==
  ASSUME NEW k \in Nat, NEW S \in SUBSET (0 .. k - 1)
  PROVE  /\ IsFiniteSet(S) /\ Cardinality(S) \in Nat /\ Cardinality(S) <= k
         /\ Cardinality(S) = k <=> S = 0 .. k - 1
<1>1. IsFiniteSet(0 .. k - 1) /\ Cardinality(0 .. k - 1) = k
  BY FS_Interval
<1>2. IsFiniteSet(S) /\ Cardinality(S) <= Cardinality(0 .. k - 1)
      /\ (Cardinality(S) = Cardinality(0 .. k - 1) => S = 0 .. k - 1)
  BY <1>1, FS_Subset
<1> QED BY <1>1, <1>2, FS_CardinalityType

(* The URBs of the transfer are among all.                                 *)
LEMMA NumType ==
  ASSUME TypeInv
  PROVE  /\ num \in Nat /\ num > 0 /\ num <= MaxUrbs /\ MaxUrbs \in Nat
         /\ \A u \in 0 .. num - 1 : u \in Urbs
         /\ \A u \in Urbs : u < num => u \in 0 .. num - 1
         /\ 0 \in Urbs /\ num - 1 \in Urbs
<1>1. num \in 1 .. MaxUrbs
  BY DEF TypeInv, PrivType, TransferType, UrbType, UrbStatuses, num
<1> QED BY <1>1, MaxUrbsAssumption DEF Urbs

(* Reaping an URB is what makes one more retired.                          *)
LEMMA TakeCount ==
  ASSUME TypeInv, Queue, finished # << >>, TakeUrb, reaped < num, num' = num
  PROVE  /\ Cardinality(RetiredUrbs') = Cardinality(RetiredUrbs) + 1
         /\ Cardinality(RetiredUrbs) \in Nat
         /\ Cardinality(RetiredUrbs') = num <=>
              \A u \in Urbs : u < num /\ u # reaped => urb[u].state \in {"none", "reaped"}
<1>1. /\ num \in Nat /\ num > 0 /\ num <= MaxUrbs /\ MaxUrbs \in Nat
      /\ \A u \in 0 .. num - 1 : u \in Urbs
  BY NumType
<1>2. /\ reaped \in 0 .. num - 1 /\ urb[reaped].state = "done"
      /\ \A v \in Urbs : v # reaped => urb'[v] = urb[v]
      /\ urb'[reaped].state = "reaped"
  BY TakeFields, <1>1 DEF Urbs
<1>3. RetiredUrbs' = RetiredUrbs \cup {reaped} /\ reaped \notin RetiredUrbs
  BY <1>1, <1>2 DEF RetiredUrbs
<1>4. RetiredUrbs \in SUBSET (0 .. num - 1) /\ RetiredUrbs' \in SUBSET (0 .. num - 1)
  BY <1>2, <1>3 DEF RetiredUrbs
<1>5. IsFiniteSet(RetiredUrbs) /\ Cardinality(RetiredUrbs) \in Nat
      /\ (Cardinality(RetiredUrbs') = num <=> RetiredUrbs' = 0 .. num - 1)
  BY <1>1, <1>4, CountLemma
<1>6. Cardinality(RetiredUrbs') = Cardinality(RetiredUrbs) + 1
  BY <1>3, <1>5, FS_AddElement
<1>7. RetiredUrbs' = 0 .. num - 1 <=>
        \A u \in Urbs : u < num /\ u # reaped => urb[u].state \in {"none", "reaped"}
  <2>1. ASSUME RetiredUrbs' = 0 .. num - 1, NEW u \in Urbs, u < num, u # reaped
        PROVE  urb[u].state \in {"none", "reaped"}
    <3>1. u \in RetiredUrbs
      BY <2>1, <1>3, <1>1 DEF Urbs
    <3> QED BY <3>1 DEF RetiredUrbs
  <2>2. ASSUME \A u \in Urbs : u < num /\ u # reaped => urb[u].state \in {"none", "reaped"}
        PROVE  RetiredUrbs' = 0 .. num - 1
    <3>1. \A u \in 0 .. num - 1 : u # reaped => u \in RetiredUrbs
      BY <2>2, <1>1 DEF RetiredUrbs
    <3> QED BY <3>1, <1>3, <1>4
  <2> QED BY <2>1, <2>2
<1> QED BY <1>5, <1>6, <1>7

(* The kernel retires an URB: what its reasons have in common.             *)
KernelRetires(u, why, k) ==
  /\ Retires(u, why, k) /\ Active(u)
  /\ k > 0 => ~halted /\ ~gone
  /\ why = "EOVERFLOW" => u + 1 = num
  /\ why = "EPIPE" => u + 2 >= num
  /\ why = "ESHUTDOWN" => gone
  /\ why \in {"EPIPE", "EPROTO"} => halted' /\ type # "ISO"
  /\ why = "ENOENT" => type # "CONTROL"
  /\ halted' \in BOOLEAN /\ cut' \in BOOLEAN
  /\ halted => halted'
  /\ cut' => cut \/ (continuation /\ type = "BULK")
  /\ UNCHANGED <<holder, at, discarding, tpriv, itransfer, completing, type,
                 gone, fd_removed, caps, history>>

(* That can happen at any time.                                            *)
LEMMA KernelRetiresKeeps ==
  ASSUME IInv, NEW u, NEW why, NEW k, KernelRetires(u, why, k)
  PROVE  IInv'
<1>1. TypeInv /\ Queue /\ Retires(u, why, k)
  BY DEF IInv, KernelRetires
<1>2. /\ u \in Urbs /\ urb[u].state = "pending"
      /\ why \in UrbStatuses /\ k \in 0 .. UrbLength /\ UrbLength \in Nat \ {0}
      /\ \A v \in Urbs : v # u => urb'[v] = urb[v]
      /\ urb'[u].state = "done" /\ urb'[u].status = why /\ urb'[u].actual_length = k
  BY <1>1, RetireFields, UrbLengthAssumption DEF Retires
<1>3. /\ holder' = holder /\ at' = at /\ first' = first /\ last' = last /\ ret' = ret
      /\ tpriv' = tpriv /\ itransfer' = itransfer /\ completing' = completing /\ type' = type
      /\ gone' = gone /\ fd_removed' = fd_removed /\ continuation' = continuation
      /\ reapsGone' = reapsGone /\ status' = status /\ cancelled' = cancelled /\ hole' = hole
      /\ num' = num
      /\ Bulk' = Bulk
  BY DEF KernelRetires, discarding, caps, history, num, Bulk
<1>4. /\ \A v \in Urbs : v < u => Back(v)
      /\ \A v \in Urbs : urb[v].state = "none" <=> urb'[v].state = "none"
      /\ \A v \in Urbs : urb[v].state = "reaped" <=> urb'[v].state = "reaped"
      /\ \A v \in Urbs : urb'[v].state = "pending" => urb[v].state = "pending"
      /\ num \in Nat /\ num > 0 /\ num <= MaxUrbs
      /\ \A v \in 0 .. num - 1 : v \in Urbs
      /\ \A v \in Urbs : urb[v].state \in {"none", "pending", "done", "reaped"}
                         /\ urb'[v].state \in {"none", "pending", "done", "reaped"}
      /\ \A v \in Urbs : urb[v].state # "pending" => urb'[v] = urb[v]
  <2>0. \A v \in Urbs : urb[v].state \in {"none", "pending", "done", "reaped"}
    BY <1>1 DEF TypeInv, PrivType, TransferType, UrbType, UrbStatuses
  <2>1. \A v \in Urbs : v < u => urb[v].state # "pending" /\ urb[v].state # "none"
    BY <1>2 DEF KernelRetires, Active, IInv, States
  <2> QED BY <2>0, <2>1, <1>1, <1>2, NumType DEF Back
<1>5. /\ Queue' /\ InTurn(u)'
      /\ \A w \in Urbs : w # u /\ Back(w) /\ InTurn(w) => InTurn(w)'
  BY <1>1, <1>4, RetireQueue
<1>6. TypeInv'
  BY <1>1, <1>3, RetireFields DEF TypeInv, PrivType, TransferType, UrbType,
     KernelRetires, UrbStatuses
<1>7. Phases' /\ Actions' /\ Ranges'
  BY <1>3 DEF IInv, Phases, Actions, Ranges, Normal, KernelRetires, DiscardLoop
<1>8. States'
  <2>1. \A v \in Urbs : urb'[v].state \in {"none", "pending"} =>
          urb'[v].status = "OK" /\ urb'[v].actual_length = 0
    BY <1>2 DEF IInv, States
  <2>2. \A v \in Urbs : urb[v].state \in {"pending", "done"} <=> urb'[v].state \in {"pending", "done"}
    BY <1>4
  <2>3. 0 \in Urbs
    BY <1>1, NumType
  <2> QED BY <2>1, <2>2, <2>3, <1>3, <1>4 DEF IInv, States, Normal
<1>9. Statuses'
  BY <1>2, <1>3 DEF IInv, Statuses, KernelRetires
<1>10. Order'
  BY <1>2, <1>3, <1>5 DEF IInv, Order, OutOfTurn, Normal, Back
<1>11. Discards'
  BY <1>3, <1>4 DEF IInv, Discards, Normal
<1>12. Counted'
  <2>1. RetiredUrbs' = RetiredUrbs
    <3>1. \A v \in 0 .. num - 1 : urb'[v].state \in {"none", "reaped"} <=>
                                  urb[v].state \in {"none", "reaped"}
      BY <1>4
    <3> QED BY <3>1, <1>3 DEF RetiredUrbs
  <2> QED BY <2>1, <1>3 DEF IInv, Counted
<1>13. SomeLeft' /\ NoUrbLeft'
  BY <1>2, <1>3, <1>4 DEF IInv, SomeLeft, NoUrbLeft, Outstanding
<1>14. Cancels'
  <2>1. num - 1 \in Urbs /\ 0 \in Urbs
    BY <1>4, MaxUrbsAssumption DEF Urbs
  <2> QED BY <2>1, <1>2, <1>3, <1>4 DEF IInv, Cancels, KernelRetires
<1>15. CancelTruth' /\ NoHoles'
  BY <1>3 DEF IInv, CancelTruth, NoHoles
<1>16. Data'
  <2>1. \A v, w \in Urbs : v < w /\ urb'[v].status \in {"ESHUTDOWN", "EPIPE", "EPROTO"} =>
          urb'[w].actual_length = 0
    <3>1. ASSUME NEW v \in Urbs, NEW w \in Urbs, v < w,
                 urb'[v].status \in {"ESHUTDOWN", "EPIPE", "EPROTO"}
          PROVE  urb'[w].actual_length = 0
      <4>1. CASE w = u
        <5>1. halted \/ gone
          BY <3>1, <4>1, <1>2 DEF IInv, Statuses, Urbs
        <5> QED BY <5>1, <4>1, <1>2 DEF KernelRetires
      <4>2. CASE v = u
        <5>1. w # u /\ urb'[w] = urb[w]
          BY <3>1, <4>2, <1>2 DEF Urbs
        <5>2. ASSUME urb[w].actual_length > 0 PROVE FALSE
          <6>1. Back(w)
            BY <5>2, <1>1 DEF IInv, States, Back, TypeInv, PrivType, TransferType,
               UrbType, UrbStatuses
          <6>2. InTurn(w)
            BY <6>1, <5>2 DEF IInv, Order
          <6> QED BY <6>2, <3>1, <4>2, <1>2 DEF InTurn, Ahead
        <5>3. urb[w].actual_length \in Nat
          BY <1>1, <3>1, <1>2 DEF TypeInv, PrivType, TransferType, UrbType, UrbStatuses
        <5> QED BY <5>1, <5>2, <5>3
      <4>3. CASE v # u /\ w # u
        BY <4>3, <3>1, <1>2 DEF IInv, Data
      <4> QED BY <4>1, <4>2, <4>3
    <3> QED BY <3>1
  <2>2. \A v \in Urbs : urb'[v].state = "reaped" => urb'[v] = urb[v]
    BY <1>2
  <2> QED BY <2>1, <2>2, <1>3, <1>4 DEF IInv, Data, Failed, Normal
<1>17. \A w \in Urbs : FailedFirst(w)' => FailedFirst(w)
  <2> SUFFICES ASSUME NEW w \in Urbs, FailedFirst(w)' PROVE FailedFirst(w)
    OBVIOUS
  <2>1. w # u /\ urb'[w] = urb[w] /\ urb[w].state = "reaped" /\ urb[w].status \in {"EPIPE", "EPROTO"}
    BY <1>2 DEF FailedFirst
  <2>2. k = 0
    BY <2>1, <1>2 DEF IInv, Statuses, KernelRetires
  <2> QED BY <2>1, <2>2, <1>2 DEF FailedFirst
<1>18. Honest' /\ StatusHonest'
  <2>1. \A v \in Urbs : urb[v].state = "reaped" => urb'[v] = urb[v] /\ urb'[v].state = "reaped"
    BY <1>2
  <2> QED BY <2>1, <1>3, <1>17 DEF IInv, Honest, StatusHonest
<1> QED BY <1>5, <1>6, <1>7, <1>8, <1>9, <1>10, <1>11, <1>12, <1>13, <1>14, <1>15,
   <1>16, <1>18 DEF IInv

(* The steps of the kernel are of that kind.                               *)
LEMMA KernelSteps ==
  ASSUME IInv, ~EarlyStalls, NEW u \in Urbs,
         \/ UrbFinishes(u) \/ UrbFinishesShort(u) \/ UrbFails(u)
         \/ UrbOverflows(u) \/ UrbCut(u) \/ UrbGone(u)
  PROVE  IInv'
<1>0. /\ UrbLength \in Nat \ {0} /\ TypeInv /\ num \in Nat /\ tpriv.num_urbs = num
      /\ halted \in BOOLEAN /\ cut \in BOOLEAN
  BY UrbLengthAssumption, NumType DEF IInv, TypeInv, PrivType, TransferType,
     UrbType, UrbStatuses, num
<1>1. CASE UrbFinishes(u)
  <2>1. KernelRetires(u, "OK", UrbLength)
    BY <1>0, <1>1 DEF UrbFinishes, KernelRetires, Retires, Active, UrbStatuses
  <2> QED BY <2>1, KernelRetiresKeeps
<1>2. CASE UrbFinishesShort(u)
  <2>1. PICK k \in PartialLengths(u) :
          Retire(u, IF continuation /\ u < tpriv.num_urbs - 1 THEN "EREMOTEIO" ELSE "OK", k)
    BY <1>2 DEF UrbFinishesShort
  <2>2. k \in 0 .. UrbLength - 1
    BY <1>0, <2>1 DEF PartialLengths
  <2>3. /\ continuation /\ u < tpriv.num_urbs - 1 => KernelRetires(u, "EREMOTEIO", k)
        /\ ~(continuation /\ u < tpriv.num_urbs - 1) => KernelRetires(u, "OK", k)
    BY <1>0, <1>2, <2>1, <2>2
       DEF UrbFinishesShort, KernelRetires, Retires, Active, UrbStatuses, Cuts,
          IInv, Actions
  <2> QED BY <2>3, KernelRetiresKeeps
<1>3. CASE UrbFails(u)
  <2>1. PICK why \in Failures \ {"EOVERFLOW"}, k \in PartialLengths(u) :
          /\ why = "EPIPE" => EarlyStalls \/ u + 2 >= tpriv.num_urbs
          /\ Retire(u, why, k)
    BY <1>3 DEF UrbFails
  <2>2. k \in 0 .. UrbLength - 1 /\ why \in {"EPIPE", "EPROTO"}
    BY <1>0, <2>1, FailuresAssumption DEF PartialLengths
  <2>3. KernelRetires(u, why, k)
    BY <1>0, <1>3, <2>1, <2>2
       DEF UrbFails, KernelRetires, Retires, Active, UrbStatuses, Cuts
  <2> QED BY <2>3, KernelRetiresKeeps
<1>4. CASE UrbOverflows(u)
  <2>1. KernelRetires(u, "EOVERFLOW", UrbLength)
    BY <1>0, <1>4 DEF UrbOverflows, KernelRetires, Retires, Active, UrbStatuses, Urbs
  <2> QED BY <2>1, KernelRetiresKeeps
<1>5. CASE UrbCut(u)
  <2>1. KernelRetires(u, "ECONNRESET", 0)
    BY <1>0, <1>5 DEF UrbCut, KernelRetires, Retires, Active, UrbStatuses
  <2> QED BY <2>1, KernelRetiresKeeps
<1>6. CASE UrbGone(u)
  <2>1. PICK why \in {"ESHUTDOWN", "ENOENT"} :
          /\ why = "ENOENT" => type # "CONTROL"
          /\ Retire(u, why, 0)
    BY <1>6 DEF UrbGone
  <2>2. KernelRetires(u, why, 0)
    BY <1>0, <1>6, <2>1 DEF UrbGone, KernelRetires, Retires, Active, UrbStatuses
  <2> QED BY <2>2, KernelRetiresKeeps
<1> QED BY <1>1, <1>2, <1>3, <1>4, <1>5, <1>6

(* What depends on the URBs alone.                                         *)
LEMMA UrbsAlone ==
  ASSUME urb' = urb, finished' = finished
  PROVE  /\ Queue <=> Queue'
         /\ \A u : Back(u)' <=> Back(u)
         /\ \A u : InTurn(u)' <=> InTurn(u)
         /\ Outstanding' = Outstanding
         /\ num' = num => RetiredUrbs' = RetiredUrbs
         /\ \A u : FailedFirst(u)' <=> FailedFirst(u)
         /\ \A u : Failed(u)' <=> Failed(u)
BY DEF Queue, Back, InTurn, Ahead, Outstanding, RetiredUrbs, FailedFirst, Failed

(* The device goes away; not while a cancellation discards.                *)
LEMMA UnplugKeeps ==
  ASSUME IInv, ~UnplugInCancel, Unplug
  PROVE  IInv'
<1>1. /\ holder' = holder /\ at' = at /\ first' = first /\ last' = last /\ ret' = ret
      /\ tpriv' = tpriv /\ itransfer' = itransfer /\ completing' = completing /\ type' = type
      /\ urb' = urb /\ finished' = finished /\ cut' = cut /\ halted' = halted
      /\ fd_removed' = fd_removed /\ continuation' = continuation
      /\ reapsGone' = reapsGone /\ status' = status /\ cancelled' = cancelled /\ hole' = hole
      /\ num' = num /\ Bulk' = Bulk
      /\ ~gone /\ gone'
  BY DEF Unplug, discarding, caps, history, num, Bulk
<1>2. TypeInv'
  BY <1>1 DEF IInv, TypeInv, PrivType, TransferType, UrbType, UrbStatuses
<1>3. Phases' /\ Actions' /\ Ranges' /\ States' /\ Statuses'
  BY <1>1 DEF IInv, Phases, Actions, Ranges, States, Statuses, Normal, DiscardLoop
<1>4. Queue' /\ Order'
  BY <1>1, UrbsAlone DEF IInv, Order, OutOfTurn, Normal
<1>5. Discards'
  <2>1. holder = "cancelDiscard" => at = last
    BY DEF Unplug, IInv, Ranges, num
  <2>2. at \in Nat /\ last \in Nat
    BY DEF IInv, TypeInv, PrivType, TransferType, UrbType, UrbStatuses, Urbs
  <2> QED BY <1>1, <2>1, <2>2 DEF Discards
<1>6. Counted' /\ SomeLeft' /\ NoUrbLeft'
  BY <1>1, UrbsAlone DEF IInv, Counted, SomeLeft, NoUrbLeft
<1>7. Cancels' /\ CancelTruth' /\ NoHoles' /\ StatusHonest'
  BY <1>1 DEF IInv, Cancels, CancelTruth, NoHoles, StatusHonest
<1>8. Data' /\ Honest'
  BY <1>1, UrbsAlone DEF IInv, Data, Honest, Normal
<1> QED BY <1>2, <1>3, <1>4, <1>5, <1>6, <1>7, <1>8 DEF IInv

-----------------------------------------------------------------------------
(* A transfer is begun: what its types have in common.                     *)
Starts(ty) ==
  /\ SubmitTransfer(ty)
  /\ tpriv' \in [urbs : {TRUE}, num_urbs : 1 .. MaxUrbs, num_retired : Nat,
                 iso_packet_offset : Nat, reap_action : {"NORMAL"}, reap_status : Results]
  /\ ty = "CONTROL" => tpriv'.num_urbs = 1
  /\ ty # "CONTROL" => tpriv'.num_retired = 0
  /\ ty \in {"BULK", "INTERRUPT"} => tpriv'.reap_status = "COMPLETED"

(* Nothing of an earlier transfer is left then.                            *)
LEMMA StartsKeeps ==
  ASSUME IInv, NEW ty, Starts(ty)
  PROVE  IInv'
<1>1. /\ holder' = "submit" /\ at' = 0 /\ first' = first /\ last' = last /\ ret' = ret
      /\ itransfer' = [in_flight |-> FALSE, cancelling |-> FALSE, transferred |-> 0]
      /\ completing' = completing /\ type' = ty /\ ty \in {"BULK", "INTERRUPT", "ISO", "CONTROL"}
      /\ finished' = << >> /\ cut' = FALSE /\ halted' = FALSE
      /\ gone' = gone
      /\ fd_removed' = fd_removed /\ continuation' = continuation
      /\ reapsGone' = reapsGone /\ status' = status /\ cancelled' = cancelled /\ hole' = FALSE
      /\ holder = "none" /\ ~completing
  BY TypesAssumption DEF Starts, SubmitTransfer, discarding, caps
<1>2. /\ tpriv'.urbs = TRUE /\ num' \in 1 .. MaxUrbs /\ tpriv'.reap_action = "NORMAL"
      /\ tpriv'.num_retired \in Nat /\ tpriv'.reap_status \in Results
      /\ Normal' /\ num' \in Nat /\ num' > 0 /\ 0 \in Urbs
      /\ ty = "CONTROL" => num' = 1
      /\ ty # "CONTROL" => tpriv'.num_retired = 0
      /\ ty \in {"BULK", "INTERRUPT"} => tpriv'.reap_status = "COMPLETED"
  <2>1. tpriv' \in [urbs : {TRUE}, num_urbs : 1 .. MaxUrbs, num_retired : Nat,
                    iso_packet_offset : Nat, reap_action : {"NORMAL"}, reap_status : Results]
    BY DEF Starts
  <2>2. num' \in 1 .. MaxUrbs /\ MaxUrbs \in Nat
    BY <2>1, MaxUrbsAssumption DEF num
  <2>3. 0 \in Urbs /\ num' \in Nat /\ num' > 0
    BY <2>2 DEF Urbs
  <2>4. ty = "CONTROL" => num' = 1
    BY DEF Starts, num
  <2> QED BY <2>1, <2>2, <2>3, <2>4 DEF Starts, Normal
<1>3. \A u \in Urbs : urb'[u] = NoUrb
  BY DEF Starts, SubmitTransfer
<1>4. /\ NoUrb.state = "none" /\ NoUrb.status = "OK" /\ NoUrb.actual_length = 0
  BY DEF NoUrb
<1>5. TypeInv'
  <2>1. urb' \in [Urbs -> UrbType]
    BY UrbLengthAssumption DEF Starts, SubmitTransfer, NoUrb, UrbStatuses, UrbType
  <2>2. tpriv' \in PrivType
    BY DEF Starts, PrivType
  <2>3. itransfer' \in TransferType
    BY <1>1 DEF TransferType
  <2>4. finished' \in Seq(Urbs)
    BY <1>1
  <2> QED BY <2>1, <2>2, <2>3, <2>4, <1>1, <1>2 DEF IInv, TypeInv, PrivType,
     TransferType, UrbType, UrbStatuses
<1>6. Phases' /\ Actions'
  BY <1>1, <1>2 DEF IInv, Phases, Actions
<1>7. Ranges' /\ States' /\ Statuses'
  <2>1. \A u \in Urbs : u \in Nat
    BY DEF Urbs
  <2> QED BY <2>1, <1>1, <1>2, <1>3, <1>4 DEF Ranges, States, Statuses, DiscardLoop
<1>8. Queue' /\ Order'
  BY <1>1, <1>3, <1>4 DEF Queue, Order, Back
<1>9. Discards' /\ Counted' /\ SomeLeft' /\ NoUrbLeft'
  BY <1>1, <1>2 DEF Discards, Counted, SomeLeft, NoUrbLeft
<1>10. Cancels' /\ CancelTruth' /\ NoHoles'
  BY <1>1, <1>2, <1>3, <1>4 DEF IInv, Cancels, CancelTruth, NoHoles, Bulk
<1>11. Data' /\ Honest' /\ StatusHonest'
  <2>1. \A u \in Urbs : ~FailedFirst(u)'
    BY <1>3, <1>4 DEF FailedFirst
  <2>2. Data'
    <3>1. ASSUME NEW r \in Urbs, \A v \in Urbs : v < r => urb'[v].state = "reaped"
          PROVE  itransfer'.transferred = r * UrbLength
      <4>1. r = 0
        BY <3>1, <1>2, <1>3, <1>4 DEF Urbs
      <4> QED BY <4>1, <1>1, UrbLengthAssumption
    <3> QED BY <3>1, <1>3, <1>4 DEF Data
  <2> QED BY <2>1, <2>2, <1>1, <1>2 DEF Honest, StatusHonest
<1> QED BY <1>5, <1>6, <1>7, <1>8, <1>9, <1>10, <1>11 DEF IInv

(* The three kinds of submission.                                          *)
LEMMA Starting ==
  ASSUME IInv,
         \/ \E k \in 1 .. MaxUrbs :
              \/ \E ty \in {"BULK", "INTERRUPT"} : submit_bulk_transfer(k, ty)
              \/ submit_iso_transfer(k)
         \/ submit_control_transfer
  PROVE  IInv'
<1>0. tpriv \in PrivType
      /\ 1 \in 1 .. MaxUrbs
  BY MaxUrbsAssumption DEF IInv, TypeInv, PrivType, TransferType, UrbType, UrbStatuses
<1>1. ASSUME NEW k \in 1 .. MaxUrbs, NEW ty \in {"BULK", "INTERRUPT"}, submit_bulk_transfer(k, ty)
      PROVE  Starts(ty)
  BY <1>0, <1>1 DEF submit_bulk_transfer, Starts, Results, PrivType
<1>2. ASSUME NEW k \in 1 .. MaxUrbs, submit_iso_transfer(k)
      PROVE  Starts("ISO")
  BY <1>0, <1>2 DEF submit_iso_transfer, Starts, Results, PrivType
<1>3. CASE submit_control_transfer
  <2>1. Starts("CONTROL")
    BY <1>0, <1>3 DEF submit_control_transfer, Starts, Results, PrivType
  <2> QED BY <2>1, StartsKeeps
<1> QED BY <1>1, <1>2, <1>3, StartsKeeps

(* linux_transfer_priv is typed.                                           *)
LEMMA PrivTyped ==
  ASSUME TypeInv
  PROVE  tpriv \in PrivType
BY DEF TypeInv, TransferType, UrbType, UrbStatuses, PrivType

(* The kernel takes an URB.                                                *)
LEMMA SubmitUrbKeeps ==
  ASSUME IInv, SubmitUrb
  PROVE  IInv'
<1>1. /\ holder = "submit" /\ ~gone /\ ~cut
      /\ first' = first /\ last' = last /\ ret' = ret
      /\ tpriv' = tpriv /\ itransfer' = itransfer /\ completing' = completing /\ type' = type
      /\ finished' = finished /\ cut' = cut /\ halted' = halted
      /\ gone' = gone /\ fd_removed' = fd_removed /\ continuation' = continuation
      /\ reapsGone' = reapsGone /\ status' = status /\ cancelled' = cancelled /\ hole' = hole
      /\ num' = num /\ Bulk' = Bulk /\ Normal' = Normal
  BY DEF SubmitUrb, discarding, caps, history, num, Bulk, Normal
<1>2. /\ at \in Urbs /\ at \in Nat /\ at < num /\ num \in Nat /\ num <= MaxUrbs /\ MaxUrbs \in Nat
      /\ 0 \in Urbs
      /\ \A u \in Urbs : IF u < at THEN urb[u].state \in {"pending", "done"}
                                  ELSE urb[u].state = "none"
      /\ \A u \in Urbs : u \in Nat
      /\ urb[at].state = "none"
  <2>1. /\ num \in Nat /\ num <= MaxUrbs /\ MaxUrbs \in Nat /\ 0 \in Urbs
        /\ at \in Urbs /\ at < num
    BY <1>1, NumType DEF IInv, TypeInv, PrivType, TransferType, UrbType,
       UrbStatuses, Ranges
  <2>2. \A u \in Urbs : u \in Nat
    BY <2>1 DEF Urbs
  <2>3. \A u \in Urbs : IF u < at THEN urb[u].state \in {"pending", "done"}
                                    ELSE urb[u].state = "none"
    BY <1>1 DEF IInv, States
  <2> QED BY <2>1, <2>2, <2>3
<1>3. /\ at = num - 1 => holder' = "submitted" /\ at' = at
      /\ at # num - 1 => holder' = "submit" /\ at' = at + 1 /\ at' < num /\ at' \in Urbs
  BY <1>1, <1>2 DEF SubmitUrb, num, Urbs
<1>4. /\ \A u \in Urbs : u # at => urb'[u] = urb[u]
      /\ urb'[at].state = "pending" /\ urb'[at].status = "OK" /\ urb'[at].actual_length = 0
      /\ urb' \in [Urbs -> UrbType]
  <2>1. urb \in [Urbs -> UrbType]
    BY DEF IInv, TypeInv, PrivType, TransferType, UrbType, UrbStatuses
  <2>2. urb[at].status = "OK" /\ urb[at].actual_length = 0
    BY <1>2 DEF IInv, States
  <2> QED BY <2>1, <2>2, <1>2 DEF SubmitUrb, UrbType
<1>5. /\ \A u \in Urbs : IF u < at + 1 THEN urb'[u].state \in {"pending", "done"}
                                       ELSE urb'[u].state = "none"
      /\ \A u \in Urbs : urb'[u].state = "done" <=> urb[u].state = "done"
      /\ \A u \in Urbs : urb'[u].status = urb[u].status /\ urb'[u].actual_length = urb[u].actual_length
  <2>1. urb[at].status = "OK" /\ urb[at].actual_length = 0
    BY <1>2 DEF IInv, States
  <2> QED BY <2>1, <1>2, <1>4
<1>6. TypeInv'
  <2>1. holder' \in {"none", "submit", "submitDiscard", "submitted", "cancelDiscard",
                    "cancelDone", "reapDiscard"}
        /\ at' \in Urbs /\ first' \in Urbs /\ last' \in Urbs
        /\ ret' \in {"SUCCESS", "NOT_FOUND", "NO_DEVICE"}
    BY <1>1, <1>2, <1>3 DEF IInv, TypeInv
  <2> QED BY <2>1, <1>1, <1>4 DEF IInv, TypeInv
<1>7. Phases' /\ Actions' /\ Ranges'
  <2>1. ~fd_removed /\ Normal
    BY <1>1 DEF IInv, Phases, Actions
  <2> QED BY <2>1, <1>1, <1>2, <1>3 DEF IInv, Phases, Actions, Ranges, DiscardLoop,
     Normal
<1>8. States' /\ Statuses'
  <2>1. Statuses'
    BY <1>1, <1>5 DEF IInv, Statuses
  <2>2. \A u \in Urbs : urb'[u].state \in {"none", "pending"} =>
          urb'[u].status = "OK" /\ urb'[u].actual_length = 0
    BY <1>4 DEF IInv, States
  <2>3. \A u, v \in Urbs : u < v /\ urb'[u].state = "none" => urb'[v].state = "none"
    BY <1>2, <1>5
  <2>4. /\ \A u \in Urbs : u >= num => urb'[u].state = "none"
        /\ \A u \in Urbs : urb'[u].state # "reaped"
        /\ urb'[0].state # "none"
        /\ at = num - 1 => \A u \in Urbs : u < num => urb'[u].state # "none"
    <3>1. \A u \in Urbs : u >= num => ~(u < at + 1)
      BY <1>2
    <3>2. at = num - 1 => \A u \in Urbs : u < num => u < at + 1
      BY <1>2
    <3>3. 0 < at + 1
      BY <1>2
    <3> QED BY <3>1, <3>2, <3>3, <1>2, <1>5
  <2>5. holder' = "submit" =>
          \A u \in Urbs : IF u < at' THEN urb'[u].state \in {"pending", "done"}
                                     ELSE urb'[u].state = "none"
    BY <1>3, <1>5
  <2>6. holder' \in {"submit", "submitted"} /\ (holder' # "submit" => at = num - 1)
    BY <1>3
  <2> QED BY <2>1, <2>2, <2>3, <2>4, <2>5, <2>6, <1>1 DEF States
<1>9. Queue'
  <2>1. \A i \in 1 .. Len(finished) : finished[i] \in Urbs
    BY DEF IInv, TypeInv, PrivType, TransferType, UrbType, UrbStatuses
  <2> QED BY <2>1, <1>1, <1>5 DEF IInv, Queue
<1>10. \A u \in Urbs : Back(u)' => Back(u) /\ (InTurn(u) => InTurn(u)')
  <2> SUFFICES ASSUME NEW u \in Urbs, Back(u)' PROVE Back(u) /\ (InTurn(u) => InTurn(u)')
    OBVIOUS
  <2>1. u < at /\ urb[u].state = "done" /\ urb'[u].state = "done"
    BY <1>2, <1>4, <1>5 DEF Back
  <2>2. \A v \in Urbs : v < u => urb'[v] = urb[v]
    BY <2>1, <1>2, <1>4
  <2> QED BY <2>1, <2>2, <1>1 DEF Back, InTurn, Ahead
<1>11. Order' /\ Discards' /\ SomeLeft' /\ NoUrbLeft'
  <2>1. Order'
    BY <1>1, <1>3, <1>5, <1>10 DEF IInv, Order, OutOfTurn, Phases
  <2>2. Discards'
    BY <1>1, <1>3 DEF Discards
  <2>3. SomeLeft'
    BY <1>2, <1>5 DEF SomeLeft
  <2>4. tpriv'.urbs
    BY <1>1 DEF IInv, Phases
  <2> QED BY <2>1, <2>2, <2>3, <2>4 DEF NoUrbLeft
<1>12. Counted'
  <2>1. CASE at = num - 1
    <3>1. RetiredUrbs' = {}
      <4>1. \A u \in 0 .. num - 1 : u \in Urbs /\ u < at + 1
        BY <2>1, <1>2 DEF Urbs
      <4>2. \A u \in 0 .. num - 1 : urb'[u].state \notin {"none", "reaped"}
        BY <4>1, <1>5
      <4> QED BY <4>2, <1>1 DEF RetiredUrbs
    <3> QED BY <3>1, <2>1, <1>1, <1>3, FS_EmptySet DEF IInv, Counted
  <2>2. CASE at # num - 1
    BY <2>2, <1>1, <1>3 DEF IInv, Counted
  <2> QED BY <2>1, <2>2
<1>13. Cancels' /\ CancelTruth' /\ NoHoles'
  <2>1. Cancels'
    <3>1. tpriv'.urbs /\ type' = "CONTROL" => urb'[0].status # "ENOENT"
      BY <1>1, <1>2, <1>5 DEF IInv, Cancels, Phases
    <3> QED BY <3>1, <1>1, <1>3 DEF IInv, Cancels, Phases, Actions, Normal
  <2> QED BY <2>1, <1>1 DEF IInv, CancelTruth, NoHoles
<1>14. Data' /\ Honest' /\ StatusHonest'
  <2>1. \A u \in Urbs : urb'[u].state # "reaped" /\ urb[u].state # "reaped" /\ ~FailedFirst(u)'
    BY <1>2, <1>5 DEF FailedFirst
  <2>2. Data'
    BY <2>1, <1>1, <1>5 DEF IInv, Data
  <2>3. Honest'
    BY <2>1, <1>1 DEF IInv, Honest, Phases, Actions, Normal
  <2> QED BY <2>1, <2>2, <2>3 DEF StatusHonest
<1> QED BY <1>6, <1>7, <1>8, <1>9, <1>11, <1>12, <1>13, <1>14 DEF IInv

(* The first is refused: nothing is submitted.                             *)
LEMMA SubmitFirstUrbFailsKeeps ==
  ASSUME IInv, SubmitFirstUrbFails
  PROVE  IInv'
<1>1. /\ holder = "submit" /\ at = 0 /\ holder' = "none" /\ at' = at
      /\ first' = first /\ last' = last /\ ret' = ret
      /\ itransfer' = itransfer /\ completing' = completing /\ type' = type
      /\ urb' = urb /\ finished' = finished /\ cut' = cut /\ halted' = halted
      /\ gone' = gone /\ fd_removed' = fd_removed /\ continuation' = continuation
      /\ reapsGone' = reapsGone /\ status' = status /\ cancelled' = cancelled /\ hole' = hole
      /\ Bulk' = Bulk
  BY DEF SubmitFirstUrbFails, discarding, kernel, caps, history, Bulk
<1>2. /\ tpriv' \in PrivType /\ tpriv'.urbs = FALSE /\ num' = num
      /\ tpriv'.reap_action = tpriv.reap_action
      /\ tpriv'.reap_status = tpriv.reap_status /\ tpriv'.num_retired = tpriv.num_retired
  BY PrivTyped DEF SubmitFirstUrbFails, num, PrivType, IInv
<1>3. \A u \in Urbs : urb[u].state = "none"
  BY <1>1 DEF IInv, States, Urbs
<1>4. TypeInv'
  BY <1>1, <1>2 DEF IInv, TypeInv, TransferType, UrbType, UrbStatuses, PrivType
<1>5. Phases' /\ Actions' /\ Ranges' /\ States' /\ Statuses'
  BY <1>1, <1>2 DEF IInv, Phases, Actions, Ranges, States, Statuses, DiscardLoop
<1>6. Queue' /\ Order'
  BY <1>1, <1>2, UrbsAlone DEF IInv, Order
<1>7. Discards' /\ Counted' /\ SomeLeft'
  BY <1>1, <1>2 DEF Discards, Counted, SomeLeft
<1>8. NoUrbLeft'
  BY <1>1, <1>3 DEF NoUrbLeft, Outstanding
<1>9. Cancels' /\ CancelTruth' /\ NoHoles' /\ StatusHonest'
  BY <1>1, <1>2, UrbsAlone DEF IInv, Cancels, CancelTruth, NoHoles, Phases, StatusHonest
<1>10. Data' /\ Honest'
  BY <1>1, <1>2 DEF IInv, Data, Honest, Phases
<1> QED BY <1>4, <1>5, <1>6, <1>7, <1>8, <1>9, <1>10 DEF IInv

(* A later one is refused, and those not submitted count as retired.       *)
Refused(action) ==
  /\ holder = "submit" /\ at > 0
  /\ tpriv' = [tpriv EXCEPT !.reap_action = action, !.num_retired = tpriv.num_urbs - at]
  /\ \/ action = "COMPLETED_EARLY" /\ cut /\ holder' = "submitted" /\ UNCHANGED <<at, discarding>>
     \/ action = "SUBMIT_FAILED" /\ type # "CONTROL" /\ StartDiscard("submitDiscard", 0, at - 1)
  /\ UNCHANGED <<itransfer, completing, type, kernel, caps, history>>

(* There is an URB to wait for then: the ones before it.                   *)
LEMMA RefusedKeeps ==
  ASSUME IInv, NEW action, Refused(action)
  PROVE  IInv'
<1>1. /\ holder = "submit" /\ at > 0
      /\ itransfer' = itransfer /\ completing' = completing /\ type' = type
      /\ urb' = urb /\ finished' = finished /\ cut' = cut /\ halted' = halted
      /\ gone' = gone /\ fd_removed' = fd_removed /\ continuation' = continuation
      /\ reapsGone' = reapsGone /\ status' = status /\ cancelled' = cancelled /\ hole' = hole
      /\ Bulk' = Bulk /\ type # "CONTROL"
      /\ action \in {"COMPLETED_EARLY", "SUBMIT_FAILED"}
      /\ action = "COMPLETED_EARLY" => cut /\ continuation /\ type = "BULK"
      /\ holder' \in {"submitted", "submitDiscard"}
      /\ holder' = "submitDiscard" => action = "SUBMIT_FAILED"
  BY DEF Refused, discarding, kernel, caps, history, Bulk, StartDiscard, IInv, Actions
<1>2. /\ at \in Urbs /\ at \in Nat /\ num \in Nat /\ num <= MaxUrbs /\ MaxUrbs \in Nat
      /\ at < num /\ 0 \in Urbs /\ at - 1 \in Urbs
      /\ \A u \in Urbs : IF u < at THEN urb[u].state \in {"pending", "done"}
                                  ELSE urb[u].state = "none"
  BY <1>1, NumType DEF IInv, TypeInv, PrivType, TransferType, UrbType, UrbStatuses,
     Ranges, States, Urbs
<1>3. /\ tpriv' \in PrivType /\ tpriv'.urbs = TRUE /\ num' = num
      /\ tpriv'.reap_action = action
      /\ tpriv'.reap_status = tpriv.reap_status /\ tpriv'.num_retired = num - at
  <2>1. tpriv \in PrivType /\ tpriv.urbs = TRUE
    BY <1>1, PrivTyped DEF IInv, Phases, PrivType
  <2>2. num - at \in Nat
    BY <1>2
  <2> QED BY <1>1, <2>1, <2>2 DEF Refused, num, PrivType
<1>4. \/ holder' = "submitted" /\ at' = at /\ first' = first /\ last' = last /\ ret' = ret
      \/ holder' = "submitDiscard" /\ first' = 0 /\ last' = at - 1 /\ at' = at - 1 /\ ret' = "SUCCESS"
  BY DEF Refused, StartDiscard, discarding
<1>5. TypeInv'
  <2>1. holder' \in {"none", "submit", "submitDiscard", "submitted", "cancelDiscard",
                    "cancelDone", "reapDiscard"}
        /\ at' \in Urbs /\ first' \in Urbs /\ last' \in Urbs
        /\ ret' \in {"SUCCESS", "NOT_FOUND", "NO_DEVICE"}
    BY <1>1, <1>2, <1>4 DEF IInv, TypeInv
  <2> QED BY <2>1, <1>1, <1>3 DEF IInv, TypeInv
<1>6. Phases' /\ Actions' /\ Ranges'
  BY <1>1, <1>2, <1>3, <1>4 DEF IInv, Phases, Actions, Ranges, DiscardLoop
<1>7. States' /\ Statuses'
  <2>1. /\ urb[0].state # "none"
        /\ \A u \in Urbs : urb[u].state # "reaped"
    BY <1>1, <1>2
  <2> QED BY <2>1, <1>1, <1>3 DEF IInv, States, Statuses, Normal
<1>8. Queue' /\ Order'
  BY <1>1, <1>3, UrbsAlone DEF IInv, Order, Normal
<1>9. Discards' /\ NoUrbLeft'
  BY <1>1, <1>3 DEF Discards, NoUrbLeft
<1>10. Counted'
  <2>1. RetiredUrbs' = at .. num - 1
    <3>1. \A u \in 0 .. num - 1 : u \in Urbs
      BY NumType DEF IInv
    <3>2. \A u \in 0 .. num - 1 : urb[u].state \in {"none", "reaped"} <=> ~(u < at)
      BY <3>1, <1>2
    <3>3. \A u : u \in at .. num - 1 <=> u \in 0 .. num - 1 /\ ~(u < at)
      BY <1>2
    <3> QED BY <3>2, <3>3, <1>1, <1>3 DEF RetiredUrbs
  <2>2. Cardinality(at .. num - 1) = num - at
    BY <1>2, FS_Interval
  <2> QED BY <2>1, <2>2, <1>1, <1>3 DEF Counted
<1>11. SomeLeft'
  BY <1>1, <1>2 DEF SomeLeft
<1>12. Cancels' /\ CancelTruth' /\ NoHoles'
  BY <1>1, <1>2, <1>3 DEF IInv, Cancels, CancelTruth, NoHoles, Phases, Actions, Normal
<1>13. Data' /\ Honest' /\ StatusHonest'
  <2>1. \A u \in Urbs : ~FailedFirst(u)'
    BY <1>1, <1>2 DEF FailedFirst
  <2>2. Data'
    BY <1>1, <1>3 DEF IInv, Data, Normal
  <2>3. Honest'
    BY <2>1, <1>1, <1>3 DEF IInv, Honest, Phases
  <2> QED BY <2>1, <2>2, <2>3 DEF StatusHonest
<1> QED BY <1>5, <1>6, <1>7, <1>8, <1>9, <1>10, <1>11, <1>12, <1>13 DEF IInv

(* The ways of being refused.                                              *)
LEMMA Refusing ==
  ASSUME IInv, SubmitCutShort \/ SubmitLaterUrbFails \/ SubmitIsoUrbFails
  PROVE  IInv'
<1>1. /\ at \in Nat /\ tpriv.num_urbs \in Nat
      /\ holder = "submit" => Normal /\ tpriv.urbs
      /\ holder = "submit" /\ type # "CONTROL" => tpriv.num_retired = 0
      /\ holder = "submit" => at < tpriv.num_urbs
      /\ cut => type = "BULK"
  <2>1. at \in Nat /\ tpriv.num_urbs \in Nat /\ tpriv.num_urbs = num
    BY NumType DEF IInv, TypeInv, PrivType, TransferType, UrbType, UrbStatuses,
       Urbs, num
  <2> QED BY <2>1 DEF IInv, Actions, Counted, Phases, Ranges
<1>1a. holder = "submit" /\ type # "CONTROL" =>
         tpriv.num_retired + (tpriv.num_urbs - at) = tpriv.num_urbs - at
  BY <1>1
<1>2. CASE SubmitCutShort
  <2>1. Refused("COMPLETED_EARLY")
    BY <1>1, <1>1a, <1>2 DEF SubmitCutShort, SubmitUrbFails, Refused
  <2> QED BY <2>1, RefusedKeeps
<1>3. CASE SubmitLaterUrbFails \/ SubmitIsoUrbFails
  <2>1. Refused("SUBMIT_FAILED")
    BY <1>1, <1>1a, <1>3 DEF SubmitLaterUrbFails, SubmitIsoUrbFails, SubmitUrbFails,
       Refused, Bulk
  <2> QED BY <2>1, RefusedKeeps
<1> QED BY <1>2, <1>3

(* The transfer is in flight.                                              *)
LEMMA SubmittedKeeps ==
  ASSUME IInv, Submitted
  PROVE  IInv'
<1>1. /\ holder = "submitted" /\ holder' = "none"
      /\ at' = at /\ first' = first /\ last' = last /\ ret' = ret
      /\ tpriv' = tpriv /\ completing' = completing /\ type' = type
      /\ urb' = urb /\ finished' = finished /\ cut' = cut /\ halted' = halted
      /\ gone' = gone /\ fd_removed' = fd_removed /\ continuation' = continuation
      /\ reapsGone' = reapsGone /\ hole' = hole
      /\ status' = "none" /\ cancelled' = FALSE
      /\ Bulk' = Bulk /\ Normal' = Normal /\ num' = num
  BY DEF Submitted, discarding, kernel, caps, Bulk, Normal, num
<1>2. /\ itransfer' \in TransferType
      /\ itransfer'.in_flight = TRUE
      /\ itransfer'.transferred = itransfer.transferred
  BY DEF Submitted, IInv, TypeInv, PrivType, TransferType, UrbType, UrbStatuses
<1>3. TypeInv'
  <2>1. status' \in {"none"} \cup Results /\ cancelled' \in BOOLEAN
    BY <1>1
  <2>2. holder' \in {"none", "submit", "submitDiscard", "submitted", "cancelDiscard",
                    "cancelDone", "reapDiscard"}
    BY <1>1
  <2> QED BY <2>1, <2>2, <1>1, <1>2 DEF IInv, TypeInv, PrivType, TransferType,
     UrbType, UrbStatuses
<1>4. Phases' /\ Actions' /\ Ranges' /\ States' /\ Statuses'
  BY <1>1, <1>2 DEF IInv, Phases, Actions, Ranges, States, Statuses, DiscardLoop
<1>5. Queue' /\ Order'
  BY <1>1, UrbsAlone DEF IInv, Order, OutOfTurn
<1>6. Discards' /\ Counted' /\ SomeLeft' /\ NoUrbLeft'
  BY <1>1, UrbsAlone DEF IInv, Discards, Counted, SomeLeft, NoUrbLeft, Phases
<1>7. Cancels' /\ CancelTruth' /\ NoHoles' /\ StatusHonest'
  BY <1>1, <1>2 DEF IInv, Cancels, CancelTruth, NoHoles, Phases, Actions, StatusHonest
<1>8. Data' /\ Honest'
  BY <1>1, <1>2, UrbsAlone DEF IInv, Data, Honest, Phases
<1> QED BY <1>3, <1>4, <1>5, <1>6, <1>7, <1>8 DEF IInv

-----------------------------------------------------------------------------
(* Where a discard loop is, and where it goes.                             *)
LEMMA DiscardFacts ==
  ASSUME IInv, DiscardLoop, NextDiscard
  PROVE  /\ at \in Nat /\ first \in Nat /\ last \in Nat /\ num \in Nat
         /\ first <= at /\ at <= last /\ last < num /\ at \in Urbs /\ at < num
         /\ tpriv.urbs /\ ~completing
         /\ \/ at = first /\ at' = at /\ holder' = AfterDiscard
               /\ holder' \in {"submitted", "cancelDone", "none"}
            \/ at # first /\ at' \in Urbs /\ first <= at' /\ at' <= last /\ at' < last /\ holder' = holder
         /\ holder = "submitDiscard" => holder' \in {"submitDiscard", "submitted"}
         /\ holder = "cancelDiscard" => holder' \in {"cancelDiscard", "cancelDone"}
         /\ holder = "reapDiscard" => holder' \in {"reapDiscard", "none"}
<1>1. /\ at \in Urbs /\ first \in Urbs /\ last \in Urbs /\ num \in Nat
      /\ first <= at /\ at <= last /\ last < num /\ tpriv.urbs /\ ~completing
      /\ holder \in {"submitDiscard", "cancelDiscard", "reapDiscard"}
  BY NumType DEF IInv, TypeInv, PrivType, TransferType, UrbType, UrbStatuses,
     Ranges, Phases, DiscardLoop
<1>2. at \in Nat /\ first \in Nat /\ last \in Nat
  BY <1>1, MaxUrbsAssumption DEF Urbs
<1>3. AfterDiscard \in {"submitted", "cancelDone", "none"}
      /\ (holder = "submitDiscard" => AfterDiscard = "submitted")
      /\ (holder = "cancelDiscard" => AfterDiscard = "cancelDone")
      /\ (holder = "reapDiscard" => AfterDiscard = "none")
  BY <1>1 DEF AfterDiscard
<1>4. CASE at = first
  BY <1>1, <1>2, <1>3, <1>4 DEF NextDiscard
<1>5. CASE at # first
  <2>1. at - 1 \in Urbs /\ first <= at - 1 /\ at - 1 <= last /\ at - 1 < last
    BY <1>1, <1>2, <1>5, MaxUrbsAssumption DEF Urbs
  <2> QED BY <2>1, <1>1, <1>2, <1>5 DEF NextDiscard
<1> QED BY <1>4, <1>5

(* An URB is discarded.  In a cancellation that breaks the order of the    *)
(* URBs, with no data out of order; elsewhere the transfer is no longer    *)
(* normal, or the URB is the only one left.                                *)
LEMMA DiscardPendingKeeps ==
  ASSUME IInv, DiscardPending
  PROVE  IInv'
<1>0. /\ DiscardLoop /\ NextDiscard /\ ~gone /\ urb[at].state = "pending"
      /\ TypeInv /\ Queue
  BY DEF DiscardPending, IInv
<1>1. PICK k \in PartialLengths(at) : Retire(at, "ENOENT", k)
  BY DEF DiscardPending
<1>2. /\ k \in 0 .. UrbLength - 1 /\ UrbLength \in Nat \ {0}
      /\ k > 0 => ~halted /\ Active(at)
  BY UrbLengthAssumption DEF PartialLengths
<1>a. PICK a \in Urbs : a = at
  BY <1>0, DiscardFacts
<1>3. Retires(a, "ENOENT", k)
  BY <1>0, <1>1, <1>2, <1>a DEF Retires, UrbStatuses
<1>4. /\ at \in Urbs /\ a = at
      /\ \A v \in Urbs : v # at => urb'[v] = urb[v]
      /\ urb'[at].state = "done" /\ urb'[at].status = "ENOENT" /\ urb'[at].actual_length = k
      /\ urb[at].state = "pending"
      /\ \A v \in Urbs : urb[v].state \in {"none", "pending", "done", "reaped"}
  BY <1>0, <1>a, <1>3, RetireFields DEF TypeInv, PrivType, TransferType, UrbType,
     UrbStatuses
<1>5. /\ first' = first /\ last' = last /\ ret' = ret
      /\ tpriv' = tpriv /\ itransfer' = itransfer /\ completing' = completing /\ type' = type
      /\ cut' = cut /\ halted' = halted
      /\ gone' = gone /\ fd_removed' = fd_removed /\ continuation' = continuation
      /\ reapsGone' = reapsGone /\ status' = status /\ cancelled' = cancelled /\ hole' = hole
      /\ num' = num /\ Bulk' = Bulk /\ Normal' = Normal
  BY DEF DiscardPending, discarding, caps, history, num, Bulk, Normal
<1>6. Active(at) => \A v \in Urbs : v < at => Back(v)
  BY <1>0, <1>4 DEF Active, IInv, States, Back
<1>7. /\ Queue'
      /\ \A w \in Urbs : w # a /\ Back(w) /\ InTurn(w) => InTurn(w)'
      /\ (\A v \in Urbs : v < a => Back(v)) => InTurn(a)'
  BY <1>0, <1>3, RetireQueue
<1>8. /\ \A v \in Urbs : urb[v].state = "none" <=> urb'[v].state = "none"
      /\ \A v \in Urbs : urb[v].state = "reaped" <=> urb'[v].state = "reaped"
      /\ \A v \in Urbs : urb'[v].state = "pending" => urb[v].state = "pending"
      /\ \A v \in Urbs : urb[v].state # "pending" => urb'[v] = urb[v]
      /\ num \in Nat /\ num > 0 /\ num <= MaxUrbs
      /\ \A v \in 0 .. num - 1 : v \in Urbs
      /\ num - 1 \in Urbs /\ 0 \in Urbs
  BY <1>0, <1>4, NumType
<1>9. DiscardLoop
      /\ holder \in {"submitDiscard", "cancelDiscard", "reapDiscard"}
      /\ (holder # "none" /\ holder # "submit")
  BY <1>0 DEF DiscardLoop
<1>10. TypeInv'
  <2>1. urb' \in [Urbs -> UrbType] /\ finished' \in Seq(Urbs)
    BY <1>0, <1>3, RetireFields
  <2>2. /\ holder' \in {"none", "submit", "submitDiscard", "submitted", "cancelDiscard",
                        "cancelDone", "reapDiscard"}
        /\ at' \in Urbs
    BY <1>0, DiscardFacts DEF TypeInv
  <2> QED BY <2>1, <2>2, <1>0, <1>5 DEF TypeInv
<1>11. Phases' /\ Actions' /\ Ranges'
  <2>1. Phases'
    BY <1>0, <1>5, <1>9, DiscardFacts DEF IInv, Phases
  <2>2. Actions'
    BY <1>0, <1>5, <1>9, DiscardFacts DEF IInv, Actions, Normal
  <2>3. Ranges'
    BY <1>0, <1>5, <1>9, DiscardFacts DEF IInv, Ranges, DiscardLoop
  <2> QED BY <2>1, <2>2, <2>3
<1>12. States' /\ Statuses'
  <2>1. Statuses'
    BY <1>4, <1>5 DEF IInv, Statuses
  <2>2. \A v \in Urbs : urb'[v].state \in {"none", "pending"} =>
          urb'[v].status = "OK" /\ urb'[v].actual_length = 0
    BY <1>4 DEF IInv, States
  <2>3. holder' # "submit" /\ (holder' \in {"submitDiscard", "submitted"} => holder = "submitDiscard")
    BY <1>0, <1>9, DiscardFacts
  <2> QED BY <2>1, <2>2, <2>3, <1>5, <1>8, <1>9 DEF IInv, States
<1>13. holder = "cancelDiscard" /\ Normal => at = last \/ ret = "SUCCESS"
  BY <1>0, <1>4, DiscardFacts DEF IInv, Discards, Normal
<1>14. holder = "cancelDiscard" /\ Normal => OutOfTurn'
  BY <1>0, <1>5, <1>13, DiscardFacts DEF OutOfTurn, IInv, Ranges
<1>15. holder = "reapDiscard" /\ Normal =>
         at = num - 1 /\ at = first /\ \A u \in Urbs : u < num - 1 => urb[u].state = "reaped"
  BY <1>0, DiscardFacts DEF IInv, Discards, Normal
<1>16. Order'
  <2>1. ASSUME NEW u \in Urbs, Back(u)', urb'[u].status # "ENOENT" \/ urb'[u].actual_length > 0
        PROVE  InTurn(u)'
    <3>1. CASE u = a
      <4>1. Active(at)
        BY <2>1, <3>1, <1>2, <1>4, <1>a
      <4> QED BY <3>1, <4>1, <1>6, <1>7, <1>a
    <3>2. CASE u # a
      <4>1. urb'[u] = urb[u] /\ Back(u)
        BY <2>1, <3>2, <1>4, <1>a DEF Back
      <4>2. InTurn(u)
        BY <2>1, <4>1 DEF IInv, Order
      <4> QED BY <3>2, <4>1, <4>2, <1>7, <1>a
    <3> QED BY <3>1, <3>2
  <2>2. ASSUME tpriv'.urbs, Normal', ~OutOfTurn', NEW u \in Urbs, Back(u)'
        PROVE  InTurn(u)'
    <3>1. holder = "reapDiscard"
      <4>1. holder # "submitDiscard"
        BY <2>2, <1>5 DEF IInv, Actions, Normal
      <4> QED BY <4>1, <2>2, <1>5, <1>9, <1>14
    <3>2. CASE u = a
      <4>1. \A v \in Urbs : v < at => Back(v)
        BY <3>1, <2>2, <1>5, <1>15 DEF Back
      <4> QED BY <3>2, <4>1, <1>7, <1>a
    <3>3. CASE u # a
      <4>1. urb'[u] = urb[u] /\ Back(u)
        BY <2>2, <3>3, <1>4, <1>a DEF Back
      <4>2. InTurn(u)
        BY <2>2, <3>1, <4>1, <1>5 DEF IInv, Order, OutOfTurn
      <4> QED BY <3>3, <4>1, <4>2, <1>7, <1>a
    <3> QED BY <3>2, <3>3
  <2> QED BY <2>1, <2>2 DEF Order
<1>17. Discards'
  <2>1. ~gone'
    BY <1>0, <1>5
  <2>2. holder' = "cancelDiscard" /\ at' < last' /\ Normal' => ret' = "SUCCESS"
    <3> SUFFICES ASSUME holder' = "cancelDiscard", Normal PROVE ret = "SUCCESS"
      BY <1>5
    <3>1. holder = "cancelDiscard"
      BY <1>0, <1>9, DiscardFacts
    <3> QED BY <3>1, <1>13 DEF IInv, Ranges
  <2>3. Normal' => holder' # "reapDiscard"
    <3> SUFFICES ASSUME Normal, holder' = "reapDiscard" PROVE FALSE
      BY <1>5
    <3>1. holder = "reapDiscard"
      BY <1>0, <1>9, DiscardFacts
    <3>2. at = first
      BY <3>1, <1>15
    <3> QED BY <3>2, <1>0, DiscardFacts
  <2> QED BY <2>1, <2>2, <2>3 DEF Discards
<1>18. Counted' /\ SomeLeft' /\ NoUrbLeft'
  <2>1. RetiredUrbs' = RetiredUrbs
    BY <1>5, <1>8, <1>4 DEF RetiredUrbs
  <2>2. holder' # "submit" /\ tpriv'.urbs
    BY <1>0, <1>5, <1>9, DiscardFacts
  <2> QED BY <2>1, <2>2, <1>4, <1>5, <1>9 DEF IInv, Counted, SomeLeft, NoUrbLeft
<1>19. Cancels'
  <2>1. ASSUME tpriv'.urbs, tpriv'.reap_action = "ERROR"
        PROVE  /\ urb'[num - 1].state # "pending" \/ (holder' = "reapDiscard" /\ at' = last')
               /\ holder' = "cancelDiscard" /\ at' < last' => ret' # "SUCCESS"
               /\ holder' = "cancelDone" => ret' # "SUCCESS"
    <3>1. CASE holder = "reapDiscard"
      <4>1. at = last => at = num - 1
        BY <3>1 DEF IInv, Ranges
      <4>2. at # last => urb[num - 1].state # "pending"
        BY <3>1, <2>1, <1>0, <1>5 DEF IInv, Cancels
      <4>3. urb'[num - 1].state # "pending"
        BY <4>1, <4>2, <1>4, <1>8
      <4> QED BY <4>3, <3>1, <1>0, DiscardFacts
    <3>2. CASE holder = "cancelDiscard"
      <4>1. urb[num - 1].state # "pending"
        BY <3>2, <2>1, <1>0, <1>5 DEF IInv, Cancels
      <4>2. at # last
        BY <4>1, <3>2, <1>0 DEF IInv, Ranges
      <4>3. at < last
        BY <4>2, <1>0, DiscardFacts
      <4>4. ret' # "SUCCESS"
        BY <4>3, <3>2, <2>1, <1>5 DEF IInv, Cancels
      <4> QED BY <4>1, <4>4, <1>8
    <3>3. CASE holder = "submitDiscard"
      BY <3>3, <2>1, <1>5 DEF IInv, Actions
    <3> QED BY <3>1, <3>2, <3>3, <1>9
  <2>2. ASSUME tpriv'.urbs, type' = "CONTROL", urb'[0].status = "ENOENT"
        PROVE  holder' = "cancelDone" /\ ret' = "SUCCESS"
    <3>1. num = 1 /\ holder = "cancelDiscard"
      BY <2>2, <1>5, <1>9 DEF IInv, Actions, Phases, Bulk
    <3>2. at = 0 /\ last = 0 /\ first = 0 /\ ret = "SUCCESS"
      BY <3>1, <1>0, DiscardFacts DEF IInv, Ranges
    <3> QED BY <3>1, <3>2, <1>0, <1>5, DiscardFacts
  <2>3. tpriv'.urbs /\ Bulk' => tpriv'.reap_status # "CANCELLED"
    BY <1>5 DEF IInv, Cancels
  <2>4. ~completing'
    BY <1>0, <1>5, DiscardFacts
  <2>5. itransfer'.in_flight => (tpriv'.reap_action = "CANCELLED" <=> cancelled')
    BY <1>5 DEF IInv, Cancels
  <2> QED BY <2>1, <2>2, <2>3, <2>4, <2>5, <1>5 DEF Cancels
<1>20. CancelTruth' /\ NoHoles'
  BY <1>5 DEF IInv, CancelTruth, NoHoles
<1>21. \A w \in Urbs : FailedFirst(w)' => FailedFirst(w)
  <2> SUFFICES ASSUME NEW w \in Urbs, FailedFirst(w)' PROVE FailedFirst(w)
    OBVIOUS
  <2>1. w # at /\ urb'[w] = urb[w] /\ urb'[at].actual_length # UrbLength
    BY <1>2, <1>4 DEF FailedFirst
  <2> QED BY <2>1, <1>4 DEF FailedFirst
<1>22. Data'
  <2>1. ASSUME NEW v \in Urbs, NEW w \in Urbs, v < w,
               urb'[v].status \in {"ESHUTDOWN", "EPIPE", "EPROTO"}
        PROVE  urb'[w].actual_length = 0
    <3>1. v # at /\ urb'[v] = urb[v]
      BY <2>1, <1>4
    <3>2. CASE w = at
      BY <3>1, <3>2, <2>1, <1>0, <1>2, <1>4 DEF IInv, Statuses
    <3>3. CASE w # at
      BY <3>1, <3>3, <2>1, <1>4 DEF IInv, Data
    <3> QED BY <3>2, <3>3
  <2>2. \A v \in Urbs : urb'[v].state = "reaped" => urb'[v] = urb[v]
    BY <1>4
  <2> QED BY <2>1, <2>2, <1>5, <1>8 DEF IInv, Data, Failed
<1>23. Honest' /\ StatusHonest'
  <2>1. \A v \in Urbs : urb[v].state = "reaped" => urb'[v] = urb[v] /\ urb'[v].state = "reaped"
    BY <1>4
  <2> QED BY <2>1, <1>5, <1>21 DEF IInv, Honest, StatusHonest
<1> QED BY <1>7, <1>10, <1>11, <1>12, <1>16, <1>17, <1>18, <1>19, <1>20, <1>22,
   <1>23 DEF IInv

(* An URB that is not pending, or a device that is gone, is no matter to   *)
(* the loop but for its result.                                            *)
LEMMA DiscardSkips ==
  ASSUME IInv, DiscardNotFound \/ DiscardNoDevice
  PROVE  IInv'
<1>0. /\ DiscardLoop /\ NextDiscard
      /\ TypeInv
      /\ holder \in {"submitDiscard", "cancelDiscard", "reapDiscard"}
      /\ gone \/ (~gone /\ urb[at].state # "pending")
  BY DEF DiscardNotFound, DiscardNoDevice, IInv, DiscardLoop
<1>1. /\ first' = first /\ last' = last
      /\ tpriv' = tpriv /\ itransfer' = itransfer /\ completing' = completing /\ type' = type
      /\ urb' = urb /\ finished' = finished /\ cut' = cut /\ halted' = halted
      /\ gone' = gone /\ fd_removed' = fd_removed /\ continuation' = continuation
      /\ reapsGone' = reapsGone /\ status' = status /\ cancelled' = cancelled /\ hole' = hole
      /\ num' = num /\ Bulk' = Bulk /\ Normal' = Normal
  BY DEF DiscardNotFound, DiscardNoDevice, kernel, caps, history, num, Bulk, Normal
<1>2. /\ ret' \in {"SUCCESS", "NOT_FOUND", "NO_DEVICE"}
      /\ gone => ret' = "NO_DEVICE"
      /\ ~gone => ret' = IF at = last THEN "NOT_FOUND" ELSE ret
  BY DEF DiscardNotFound, DiscardNoDevice, IInv, TypeInv, PrivType, TransferType,
     UrbType, UrbStatuses
<1>3. num - 1 \in Urbs /\ 0 \in Urbs /\ num \in Nat
      /\ \A u \in Urbs : u \in Nat
  BY <1>0, NumType, MaxUrbsAssumption DEF Urbs
<1>4. TypeInv'
  BY <1>0, <1>1, <1>2, DiscardFacts DEF TypeInv, PrivType, TransferType, UrbType,
     UrbStatuses
<1>5. Phases' /\ Actions' /\ Ranges'
  <2>1. Phases'
    BY <1>0, <1>1, DiscardFacts DEF IInv, Phases
  <2>2. Actions'
    BY <1>0, <1>1, DiscardFacts DEF IInv, Actions, Normal
  <2>3. Ranges'
    BY <1>0, <1>1, DiscardFacts DEF IInv, Ranges, DiscardLoop
  <2> QED BY <2>1, <2>2, <2>3
<1>6. States' /\ Statuses'
  <2>1. holder' # "submit" /\ (holder' \in {"submitDiscard", "submitted"} => holder = "submitDiscard")
    BY <1>0, DiscardFacts
  <2> QED BY <2>1, <1>0, <1>1 DEF IInv, States, Statuses
<1>7. OutOfTurn => OutOfTurn'
  BY <1>0, <1>1, <1>2, DiscardFacts DEF OutOfTurn, IInv, Discards, Ranges
<1>8. Queue' /\ Order'
  BY <1>1, <1>7, UrbsAlone DEF IInv, Order
<1>9. Discards'
  <2>1. gone \/ (holder' = "cancelDiscard" /\ at' < last' /\ ret' # "SUCCESS" /\ Normal' =>
                   \A u \in Urbs : urb'[u].state # "pending")
    <3> SUFFICES ASSUME ~gone, holder' = "cancelDiscard", ret' # "SUCCESS", Normal,
                        NEW u \in Urbs
                 PROVE  urb[u].state # "pending"
      BY <1>1
    <3>1. holder = "cancelDiscard"
      BY <1>0, DiscardFacts
    <3>2. CASE at < last
      BY <3>1, <3>2, <1>0, <1>2, DiscardFacts DEF IInv, Discards
    <3>3. CASE at = last
      <4>1. at = num - 1 /\ urb[num - 1].state \notin {"pending", "none"}
        BY <3>1, <3>3, <1>0, <1>3, DiscardFacts DEF IInv, Ranges, States
      <4>2. InTurn(num - 1)
        BY <4>1, <3>1, <3>3, <1>0, <1>3, DiscardFacts DEF IInv, Order, OutOfTurn,
           Back, TypeInv, PrivType, TransferType, UrbType, UrbStatuses
      <4>3. u < num - 1 => urb[u].state # "pending"
        BY <4>2 DEF InTurn, Ahead
      <4>4. u >= num => urb[u].state = "none"
        BY DEF IInv, States
      <4> QED BY <4>1, <4>3, <4>4, <1>3
    <3> QED BY <3>2, <3>3, <1>0, DiscardFacts
  <2>2. holder' = "cancelDiscard" /\ at' < last' /\ gone' => ret' = "NO_DEVICE"
    BY <1>1, <1>2
  <2>3. holder' = "reapDiscard" => holder = "reapDiscard"
    BY <1>0, DiscardFacts
  <2> QED BY <2>1, <2>2, <2>3, <1>1 DEF IInv, Discards
<1>10. Counted' /\ SomeLeft' /\ NoUrbLeft'
  <2>1. holder' # "submit" /\ holder # "submit" /\ tpriv'.urbs
    BY <1>0, <1>1, DiscardFacts
  <2> QED BY <2>1, <1>1, UrbsAlone DEF IInv, Counted, SomeLeft, NoUrbLeft
<1>11. Cancels'
  <2>1. ASSUME tpriv'.urbs, tpriv'.reap_action = "ERROR"
        PROVE  /\ gone \/ urb[num - 1].state # "pending" \/ (holder' = "reapDiscard" /\ at' = last')
               /\ holder' = "cancelDiscard" /\ at' < last' => ret' # "SUCCESS"
               /\ holder' = "cancelDone" => ret' # "SUCCESS"
    <3>1. CASE holder = "reapDiscard"
      <4>1. gone \/ urb[num - 1].state # "pending"
        BY <3>1, <2>1, <1>0, <1>1 DEF IInv, Cancels, Ranges
      <4> QED BY <4>1, <3>1, <1>0, DiscardFacts
    <3>2. CASE holder = "cancelDiscard"
      <4>1. gone \/ urb[num - 1].state # "pending"
        BY <3>2, <2>1, <1>1 DEF IInv, Cancels
      <4>2. ret' # "SUCCESS"
        BY <3>2, <2>1, <1>0, <1>1, <1>2, DiscardFacts DEF IInv, Cancels
      <4> QED BY <4>1, <4>2
    <3>3. CASE holder = "submitDiscard"
      BY <3>3, <2>1, <1>1 DEF IInv, Actions
    <3> QED BY <3>1, <3>2, <3>3, <1>0
  <2>2. ~(tpriv'.urbs /\ type' = "CONTROL" /\ urb'[0].status = "ENOENT")
    BY <1>0, <1>1 DEF IInv, Actions, Phases, Bulk, Cancels
  <2>3. tpriv'.urbs /\ Bulk' => tpriv'.reap_status # "CANCELLED"
    BY <1>1 DEF IInv, Cancels
  <2>4. ~completing'
    BY <1>0, <1>1, DiscardFacts
  <2>5. itransfer'.in_flight => (tpriv'.reap_action = "CANCELLED" <=> cancelled')
    BY <1>1 DEF IInv, Cancels
  <2> QED BY <2>1, <2>2, <2>3, <2>4, <2>5, <1>1 DEF Cancels
<1>12. CancelTruth' /\ NoHoles'
  BY <1>1 DEF IInv, CancelTruth, NoHoles
<1>13. Data' /\ Honest' /\ StatusHonest'
  BY <1>1, UrbsAlone DEF IInv, Data, Honest, StatusHonest
<1> QED BY <1>4, <1>5, <1>6, <1>8, <1>9, <1>10, <1>11, <1>12, <1>13 DEF IInv

(* libusb_cancel_transfer begins.                                          *)
LEMMA CancelTransferKeeps ==
  ASSUME IInv, CancelTransfer
  PROVE  IInv'
<1>1. /\ holder = "none" /\ itransfer.in_flight /\ ~itransfer.cancelling
      /\ tpriv' = tpriv /\ completing' = completing /\ type' = type
      /\ urb' = urb /\ finished' = finished /\ cut' = cut /\ halted' = halted
      /\ gone' = gone /\ fd_removed' = fd_removed /\ continuation' = continuation
      /\ reapsGone' = reapsGone /\ status' = status /\ cancelled' = cancelled /\ hole' = hole
      /\ num' = num /\ Bulk' = Bulk /\ Normal' = Normal
  BY DEF CancelTransfer, kernel, caps, history, num, Bulk, Normal
<1>2. /\ itransfer' \in TransferType
      /\ itransfer'.in_flight = TRUE /\ itransfer'.cancelling = TRUE
      /\ itransfer'.transferred = itransfer.transferred
  BY <1>1 DEF CancelTransfer, IInv, TypeInv, PrivType, TransferType, UrbType,
     UrbStatuses
<1>3. /\ num \in Nat /\ num > 0 /\ 0 \in Urbs /\ num - 1 \in Urbs /\ ~(num - 1 < num - 1)
      /\ 0 <= num - 1 /\ num - 1 <= num - 1 /\ num - 1 < num
  BY NumType DEF IInv
<1>4. \/ /\ tpriv.urbs /\ holder' = "cancelDiscard" /\ first' = 0 /\ last' = num - 1 /\ at' = num - 1
         /\ ret' = "SUCCESS"
      \/ /\ ~tpriv.urbs /\ holder' = holder /\ at' = at /\ first' = first /\ last' = last
         /\ ret' = ret
  BY DEF CancelTransfer, StartDiscard, discarding, num
<1>5. TypeInv'
  BY <1>1, <1>2, <1>3, <1>4 DEF IInv, TypeInv, PrivType, TransferType, UrbType,
     UrbStatuses
<1>6. Phases' /\ Actions' /\ Ranges'
  <2>1. Phases'
    BY <1>1, <1>2, <1>4 DEF IInv, Phases
  <2>2. Actions'
    BY <1>1, <1>4 DEF IInv, Actions
  <2>3. Ranges'
    BY <1>1, <1>3, <1>4 DEF IInv, Ranges, DiscardLoop
  <2> QED BY <2>1, <2>2, <2>3
<1>7. States' /\ Statuses'
  BY <1>1, <1>4 DEF IInv, States, Statuses
<1>8. Queue' /\ Order'
  BY <1>1, UrbsAlone DEF IInv, Order, OutOfTurn
<1>9. Discards' /\ Counted' /\ SomeLeft' /\ NoUrbLeft'
  BY <1>1, <1>3, <1>4, UrbsAlone DEF IInv, Discards, Counted, SomeLeft, NoUrbLeft
<1>10. Cancels' /\ CancelTruth' /\ NoHoles' /\ StatusHonest'
  BY <1>1, <1>2, <1>3, <1>4, UrbsAlone DEF IInv, Cancels, CancelTruth, NoHoles,
     StatusHonest
<1>11. Data' /\ Honest'
  BY <1>1, <1>2, UrbsAlone DEF IInv, Data, Honest
<1> QED BY <1>5, <1>6, <1>7, <1>8, <1>9, <1>10, <1>11 DEF IInv

(* It ends: what it returns is what the transfer is marked as.             *)
LEMMA CancelDoneKeeps ==
  ASSUME IInv, CancelDone
  PROVE  IInv'
<1>1. /\ holder = "cancelDone" /\ holder' = "none"
      /\ at' = at /\ first' = first /\ last' = last /\ ret' = ret
      /\ itransfer' = itransfer /\ completing' = completing /\ type' = type
      /\ urb' = urb /\ finished' = finished /\ cut' = cut /\ halted' = halted
      /\ gone' = gone /\ fd_removed' = fd_removed /\ continuation' = continuation
      /\ reapsGone' = reapsGone /\ status' = status /\ hole' = hole
      /\ Bulk' = Bulk
  BY DEF CancelDone, discarding, kernel, caps, Bulk
<1>2. /\ tpriv.urbs /\ ~completing /\ itransfer.in_flight /\ ~cancelled /\ status = "none"
      /\ tpriv.reap_action = "ERROR" => ret # "SUCCESS"
  BY <1>1 DEF IInv, Phases, Cancels
<1>3. CASE ret = "SUCCESS"
  <2>1. /\ cancelled' = TRUE
        /\ tpriv' \in PrivType /\ tpriv'.urbs = TRUE /\ num' = num
        /\ tpriv'.reap_action = "CANCELLED" /\ tpriv'.reap_status = tpriv.reap_status
        /\ tpriv'.num_retired = tpriv.num_retired
    BY <1>2, <1>3, PrivTyped DEF CancelDone, PrivType, num, IInv
  <2>2. TypeInv'
    BY <1>1, <2>1 DEF IInv, TypeInv, TransferType, UrbType, UrbStatuses, PrivType
  <2>3. Phases' /\ Actions' /\ Ranges' /\ States' /\ Statuses'
    BY <1>1, <1>2, <2>1
       DEF IInv, Phases, Actions, Ranges, States, Statuses, DiscardLoop, Normal
  <2>4. Queue' /\ Order'
    BY <1>1, <2>1, UrbsAlone DEF IInv, Order, Normal
  <2>5. Discards' /\ Counted' /\ SomeLeft' /\ NoUrbLeft'
    BY <1>1, <1>2, <2>1, UrbsAlone DEF IInv, Discards, Counted, SomeLeft, NoUrbLeft
  <2>6. Cancels' /\ CancelTruth' /\ NoHoles' /\ StatusHonest'
    BY <1>1, <1>2, <2>1, UrbsAlone DEF IInv, Cancels, CancelTruth, NoHoles, StatusHonest
  <2>7. Data' /\ Honest'
    BY <1>1, <1>2, <2>1, UrbsAlone DEF IInv, Data, Honest, Normal
  <2> QED BY <2>2, <2>3, <2>4, <2>5, <2>6, <2>7 DEF IInv
<1>4. CASE ret # "SUCCESS"
  <2>1. cancelled' = cancelled /\ tpriv' = tpriv /\ num' = num /\ Normal' = Normal
    BY <1>4 DEF CancelDone, num, Normal
  <2>2. TypeInv'
    BY <1>1, <2>1 DEF IInv, TypeInv, PrivType, TransferType, UrbType, UrbStatuses
  <2>3. Phases' /\ Actions' /\ Ranges' /\ States' /\ Statuses'
    BY <1>1, <1>2, <2>1
       DEF IInv, Phases, Actions, Ranges, States, Statuses, DiscardLoop
  <2>4. Queue' /\ Order'
    BY <1>1, <1>4, <2>1, UrbsAlone DEF IInv, Order, OutOfTurn
  <2>5. Discards' /\ Counted' /\ SomeLeft' /\ NoUrbLeft'
    BY <1>1, <1>2, <2>1, UrbsAlone DEF IInv, Discards, Counted, SomeLeft, NoUrbLeft
  <2>6. Cancels' /\ CancelTruth' /\ NoHoles' /\ StatusHonest'
    BY <1>1, <1>2, <1>4, <2>1, UrbsAlone DEF IInv, Cancels, CancelTruth, NoHoles,
       StatusHonest
  <2>7. Data' /\ Honest'
    BY <1>1, <1>2, <2>1, UrbsAlone DEF IInv, Data, Honest
  <2> QED BY <2>2, <2>3, <2>4, <2>5, <2>6, <2>7 DEF IInv
<1> QED BY <1>3, <1>4

(* The callback is told what was decided.                                  *)
LEMMA ReportKeeps ==
  ASSUME IInv, Report
  PROVE  IInv'
<1>1. /\ completing /\ completing' = FALSE
      /\ holder' = holder /\ at' = at /\ first' = first /\ last' = last /\ ret' = ret
      /\ tpriv' = tpriv /\ type' = type
      /\ urb' = urb /\ finished' = finished /\ cut' = cut /\ halted' = halted
      /\ gone' = gone /\ fd_removed' = fd_removed /\ continuation' = continuation
      /\ reapsGone' = reapsGone /\ hole' = hole /\ cancelled' = cancelled
      /\ status' = IF tpriv.reap_action = "CANCELLED" THEN "CANCELLED" ELSE tpriv.reap_status
      /\ Bulk' = Bulk /\ Normal' = Normal /\ num' = num
  BY DEF Report, discarding, kernel, caps, Bulk, Normal, num
<1>2. /\ itransfer' \in TransferType
      /\ itransfer'.in_flight = FALSE
      /\ itransfer'.transferred = itransfer.transferred
  BY DEF Report, IInv, TypeInv, PrivType, TransferType, UrbType, UrbStatuses
<1>3. holder = "none" /\ ~tpriv.urbs /\ itransfer.in_flight
  BY <1>1 DEF IInv, Phases
<1>4. TypeInv'
  <2>1. status' \in {"none"} \cup Results
    BY <1>1 DEF IInv, TypeInv, PrivType, TransferType, UrbType, UrbStatuses, Results
  <2>2. completing' \in BOOLEAN
    BY <1>1
  <2>3. /\ holder' = holder /\ at' = at /\ first' = first /\ last' = last /\ ret' = ret
        /\ tpriv' = tpriv /\ type' = type
        /\ urb' = urb /\ finished' = finished /\ cut' = cut /\ halted' = halted
        /\ gone' = gone /\ fd_removed' = fd_removed /\ continuation' = continuation
        /\ reapsGone' = reapsGone /\ hole' = hole /\ cancelled' = cancelled
    BY <1>1
  <2> QED BY <2>1, <2>2, <2>3, <1>2 DEF IInv, TypeInv, PrivType, TransferType,
     UrbType, UrbStatuses
<1>5. Phases' /\ Actions' /\ Ranges' /\ States' /\ Statuses'
  BY <1>1, <1>2, <1>3 DEF IInv, Phases, Actions, Ranges, States, Statuses, DiscardLoop
<1>6. Queue' /\ Order'
  BY <1>1, UrbsAlone DEF IInv, Order, OutOfTurn
<1>7. Discards' /\ Counted' /\ SomeLeft' /\ NoUrbLeft'
  BY <1>1, UrbsAlone DEF IInv, Discards, Counted, SomeLeft, NoUrbLeft
<1>8. Cancels' /\ CancelTruth' /\ NoHoles'
  BY <1>1, <1>2, <1>3 DEF IInv, Cancels, CancelTruth, NoHoles
<1>9. Data' /\ Honest' /\ StatusHonest'
  BY <1>1, <1>2, <1>3, UrbsAlone DEF IInv, Data, Honest, StatusHonest
<1> QED BY <1>4, <1>5, <1>6, <1>7, <1>8, <1>9 DEF IInv

(* A transfer of a device that is gone ends.                               *)
LEMMA HandleDisconnectKeeps ==
  ASSUME IInv, HandleDisconnect
  PROVE  IInv'
<1>1. /\ holder = "none" /\ ~completing /\ gone
      /\ holder' = holder /\ at' = at /\ first' = first /\ last' = last /\ ret' = ret
      /\ completing' = completing /\ type' = type
      /\ urb' = urb /\ finished' = finished /\ cut' = cut /\ halted' = halted
      /\ gone' = gone /\ fd_removed' = TRUE /\ continuation' = continuation
      /\ reapsGone' = reapsGone /\ hole' = hole /\ cancelled' = cancelled
      /\ Bulk' = Bulk
  BY DEF HandleDisconnect, discarding, caps, Bulk
<1>2. /\ tpriv' \in PrivType /\ tpriv'.urbs = FALSE
      /\ num' = num /\ tpriv'.reap_action = tpriv.reap_action
      /\ itransfer' \in TransferType
      /\ itransfer'.in_flight = FALSE
      /\ status' \in {status, "NO_DEVICE"}
      /\ Normal' = Normal
  <2>0. tpriv \in PrivType /\ itransfer \in TransferType
    BY PrivTyped DEF IInv, TypeInv
  <2>1. CASE itransfer.in_flight
    <3>1. /\ tpriv' = [tpriv EXCEPT !.urbs = FALSE]
          /\ itransfer' = [itransfer EXCEPT !.in_flight = FALSE] /\ status' = "NO_DEVICE"
      BY <2>1 DEF HandleDisconnect
    <3>2. /\ tpriv' \in PrivType /\ tpriv'.urbs = FALSE
          /\ num' = num /\ tpriv'.reap_action = tpriv.reap_action
      BY <2>0, <3>1 DEF PrivType, num
    <3>3. itransfer' \in TransferType /\ itransfer'.in_flight = FALSE
      BY <2>0, <3>1 DEF TransferType
    <3> QED BY <3>1, <3>2, <3>3 DEF Normal
  <2>2. CASE ~itransfer.in_flight
    <3>1. tpriv' = tpriv /\ itransfer' = itransfer /\ status' = status
      BY <2>2 DEF HandleDisconnect
    <3>2. tpriv.urbs = FALSE /\ itransfer.in_flight = FALSE
      BY <1>1, <2>0, <2>2 DEF IInv, Phases, PrivType, TransferType
    <3> QED BY <2>0, <3>1, <3>2 DEF num, Normal
  <2> QED BY <2>1, <2>2
<1>3. TypeInv'
  <2>1. status' \in {"none"} \cup Results
    BY <1>2 DEF IInv, TypeInv, PrivType, TransferType, UrbType, UrbStatuses, Results
  <2> QED BY <2>1, <1>1, <1>2 DEF IInv, TypeInv, TransferType, UrbType, UrbStatuses,
     PrivType
<1>4. Phases' /\ Actions' /\ Ranges' /\ States' /\ Statuses'
  BY <1>1, <1>2 DEF IInv, Phases, Actions, Ranges, States, Statuses, DiscardLoop
<1>5. Queue' /\ Order'
  BY <1>1, <1>2, UrbsAlone DEF IInv, Order, OutOfTurn
<1>6. Discards' /\ Counted' /\ SomeLeft' /\ NoUrbLeft'
  BY <1>1, <1>2 DEF IInv, Discards, Counted, SomeLeft, NoUrbLeft
<1>7. Cancels' /\ CancelTruth' /\ NoHoles' /\ StatusHonest'
  BY <1>1, <1>2 DEF IInv, Cancels, CancelTruth, NoHoles, StatusHonest
<1>8. Data' /\ Honest'
  BY <1>1, <1>2 DEF IInv, Data, Honest
<1> QED BY <1>3, <1>4, <1>5, <1>6, <1>7, <1>8 DEF IInv

-----------------------------------------------------------------------------
(* What is known of the URB to be reaped.                                  *)
LEMMA ReapFacts ==
  ASSUME IInv, ~EarlyStalls, ~UnplugInCancel, Reapable, TakeUrb
  PROVE  /\ TypeInv /\ Queue /\ finished # << >>
         /\ holder = "none" /\ ~completing /\ tpriv.urbs
         /\ itransfer.in_flight /\ status = "none"
         /\ reaped \in Urbs /\ reaped \in Nat /\ reaped < num /\ num \in Nat
         /\ urb[reaped].state = "done"
         /\ \A u \in Urbs : u \in Nat /\ urb[u].state \in {"none", "pending", "done", "reaped"}
         /\ type # "CONTROL" => tpriv.num_retired = Cardinality(RetiredUrbs)
         /\ InTurn(reaped) => \A v \in Urbs : v < reaped => urb[v].state = "reaped"
         /\ Normal => InTurn(reaped)
         /\ Normal => \A u \in Urbs : u < num => urb[u].state # "none"
         /\ \A u \in Urbs : u >= num => urb[u].state = "none"
         /\ \A u \in Urbs : Back(u) /\ (urb[u].status # "ENOENT" \/ urb[u].actual_length > 0) => InTurn(u)
<1>1. TypeInv /\ Queue /\ finished # << >> /\ holder = "none" /\ ~completing
  BY DEF IInv, Reapable
<1>2. reaped \in Urbs /\ urb[reaped].state = "done" /\ num \in Nat
      /\ \A u \in Urbs : u \in Nat /\ urb[u].state \in {"none", "pending", "done", "reaped"}
  <2>1. reaped \in Urbs /\ urb[reaped].state = "done"
    <3>1. finished \in Seq(Urbs) /\ Len(finished) > 0
      BY <1>1 DEF TypeInv, PrivType, TransferType, UrbType, UrbStatuses
    <3>2. reaped = finished[1] /\ reaped \in Urbs
      BY <3>1 DEF reaped
    <3> QED BY <3>1, <3>2, <1>1 DEF Queue
  <2>2. num \in Nat
    BY <1>1, NumType
  <2>3. \A u \in Urbs : u \in Nat
    BY MaxUrbsAssumption DEF Urbs
  <2>4. \A u \in Urbs : urb[u].state \in {"none", "pending", "done", "reaped"}
    BY <1>1 DEF TypeInv, PrivType, TransferType, UrbType, UrbStatuses
  <2> QED BY <2>1, <2>2, <2>3, <2>4
<1>3. tpriv.urbs
  BY <1>2 DEF IInv, NoUrbLeft, Outstanding, Reapable
<1>4. itransfer.in_flight /\ status = "none"
  BY <1>1, <1>3 DEF IInv, Phases
<1>5. reaped < num
  BY <1>2 DEF IInv, States
<1>6. InTurn(reaped) => \A v \in Urbs : v < reaped => urb[v].state = "reaped"
  BY <1>1, TakeQueue
<1>7. Normal => InTurn(reaped)
  BY <1>1, <1>2, <1>3 DEF IInv, Order, OutOfTurn, Back
<1>8. /\ Normal => \A u \in Urbs : u < num => urb[u].state # "none"
      /\ \A u \in Urbs : u >= num => urb[u].state = "none"
      /\ \A u \in Urbs : Back(u) /\ (urb[u].status # "ENOENT" \/ urb[u].actual_length > 0) => InTurn(u)
  BY <1>1, <1>3 DEF IInv, States, Order
<1>9. type # "CONTROL" => tpriv.num_retired = Cardinality(RetiredUrbs)
  BY <1>1, <1>3 DEF IInv, Counted
<1> QED BY <1>1, <1>2, <1>3, <1>4, <1>5, <1>6, <1>7, <1>8, <1>9

(* An URB is reaped.  What a handler leaves as reap_action and             *)
(* reap_status, and whether the transfer is over then, are its             *)
(* parameters.                                                             *)
Reaps(action, result, over) ==
  /\ Reapable /\ TakeUrb
  /\ over \in BOOLEAN
  /\ tpriv' \in PrivType /\ tpriv'.urbs = ~over /\ num' = num
  /\ tpriv'.reap_action = action /\ tpriv'.reap_status = result
  /\ type # "CONTROL" => tpriv'.num_retired = Retired
  /\ completing' = over
  /\ itransfer' \in TransferType
  /\ itransfer'.in_flight = itransfer.in_flight /\ itransfer'.cancelling = itransfer.cancelling
  /\ hole' \in BOOLEAN
  /\ UNCHANGED <<type, caps, status, cancelled>>
  /\ \/ UNCHANGED <<holder, at, discarding>>
     \/ ~over /\ Bulk /\ reaped < num - 1 /\ StartDiscard("reapDiscard", reaped + 1, num - 1)

(* What a handler must heed: the transfer is over exactly if no URB is     *)
(* left.                                                                   *)
Decides(action, result, over) ==
  /\ over => \A u \in Urbs : u # reaped => urb[u].state \notin {"pending", "done"}
  /\ ~over => \E u \in Urbs : u # reaped /\ urb[u].state \in {"pending", "done"}
  /\ action = "NORMAL" => Normal
  /\ action = "CANCELLED" <=> tpriv.reap_action = "CANCELLED"
  /\ type = "CONTROL" => over /\ action \in {"NORMAL", "CANCELLED"}
  /\ ~over /\ type = "ISO" => action \notin {"ERROR", "COMPLETED_EARLY"}
  /\ ~over /\ action = "ERROR" => tpriv.reap_action = "ERROR" \/ holder' = "reapDiscard"
  /\ Bulk => result # "CANCELLED"
  /\ over /\ result = "CANCELLED" => cancelled
  /\ over /\ action \in {"SUBMIT_FAILED", "ERROR"} => result # "COMPLETED"
  /\ ~over /\ action = "NORMAL" /\ holder' = "reapDiscard" =>
       gone \/ (reaped + 1 = num - 1 /\ \A u \in Urbs : u < reaped => urb[u].state = "reaped")

(* And of the data: it leaves no hole.                                     *)
Accounts(action, result, over) ==
  /\ type # "ISO" => ~hole'
  /\ ~over /\ Bulk /\ action = "NORMAL" => Failed(reaped) \/ length = UrbLength
  /\ ~over /\ Bulk /\ action = "NORMAL" => itransfer'.transferred = itransfer.transferred + length

(* The URB reaped has failed with nothing missing before it.               *)
FailsFirst ==
  /\ urb[reaped].status \in {"EPIPE", "EPROTO"}
  /\ \A v \in Urbs : v < reaped => urb[v].actual_length = UrbLength

(* And of the verdict: an earlier one is kept and a failure leaves one.    *)
Admits(action, result, over) ==
  /\ Bulk /\ tpriv.reap_status # "COMPLETED" => result # "COMPLETED"
  /\ Bulk /\ tpriv.reap_action \in {"SUBMIT_FAILED", "CANCELLED", "ERROR"} =>
       action = tpriv.reap_action
  /\ ~gone /\ ~continuation /\ FailsFirst =>
       result # "COMPLETED" \/ action \in {"SUBMIT_FAILED", "CANCELLED", "ERROR"}
  /\ ~over /\ ~continuation /\ action = "COMPLETED_EARLY" /\ tpriv.reap_action # "COMPLETED_EARLY" =>
       Normal /\ length < UrbLength

(* A handler that heeds all that keeps the invariant.                      *)
LEMMA ReapsKeeps ==
  ASSUME IInv, ~EarlyStalls, ~UnplugInCancel, NEW action, NEW result, NEW over,
         Reaps(action, result, over), Decides(action, result, over),
         Accounts(action, result, over), Admits(action, result, over)
  PROVE  IInv'
<1>a. PICK r \in Urbs : r = reaped
  BY ReapFacts DEF Reaps
<1>1. /\ TypeInv /\ Queue /\ finished # << >>
      /\ holder = "none" /\ ~completing /\ tpriv.urbs
      /\ itransfer.in_flight /\ status = "none"
      /\ r \in Urbs /\ r \in Nat /\ r < num /\ num \in Nat
      /\ urb[r].state = "done"
      /\ \A u \in Urbs : u \in Nat /\ urb[u].state \in {"none", "pending", "done", "reaped"}
      /\ type # "CONTROL" => tpriv.num_retired = Cardinality(RetiredUrbs)
      /\ Normal => InTurn(r) /\ \A v \in Urbs : v < r => urb[v].state = "reaped"
  BY <1>a, ReapFacts DEF Reaps
<1>2. /\ \A v \in Urbs : v # r => urb'[v] = urb[v]
      /\ urb'[r].state = "reaped" /\ urb'[r].status = urb[r].status
      /\ urb'[r].actual_length = urb[r].actual_length
      /\ urb' \in [Urbs -> UrbType]
      /\ finished' \in Seq(Urbs)
  BY <1>a, <1>1, TakeFields DEF Reaps
<1>3. Queue' /\ \A w \in Urbs : Back(w) /\ InTurn(w) => InTurn(w)'
  BY <1>1, TakeQueue DEF Reaps
<1>4. /\ over \in BOOLEAN
      /\ tpriv' \in PrivType /\ tpriv'.urbs = ~over /\ num' = num
      /\ tpriv'.reap_action = action /\ tpriv'.reap_status = result
      /\ completing' = over /\ type' = type
      /\ itransfer' \in TransferType
      /\ itransfer'.in_flight = itransfer.in_flight
      /\ itransfer'.cancelling = itransfer.cancelling
      /\ hole' \in BOOLEAN
      /\ cut' = cut /\ halted' = halted /\ gone' = gone /\ fd_removed' = fd_removed
      /\ continuation' = continuation /\ reapsGone' = reapsGone
      /\ status' = status /\ cancelled' = cancelled
      /\ Bulk' = Bulk
      /\ Normal' <=> action = "NORMAL"
      /\ Normal <=> tpriv.reap_action = "NORMAL"
  BY DEF Reaps, TakeUrb, caps, Bulk, Normal
<1>5. \/ /\ holder' = "none" /\ at' = at /\ first' = first /\ last' = last /\ ret' = ret
      \/ /\ holder' = "reapDiscard" /\ first' = r + 1 /\ last' = num - 1 /\ at' = num - 1
         /\ ret' = "SUCCESS" /\ ~over /\ Bulk /\ r < num - 1
  BY <1>a, <1>1 DEF Reaps, discarding, StartDiscard
<1>6. /\ \A v \in Urbs : urb'[v].state = "none" <=> urb[v].state = "none"
      /\ \A v \in Urbs : urb'[v].state = "pending" <=> urb[v].state = "pending"
      /\ \A v \in Urbs : urb[v].state = "reaped" => urb'[v].state = "reaped"
      /\ \A v \in Urbs : urb'[v].status = urb[v].status
      /\ \A v \in Urbs : urb'[v].actual_length = urb[v].actual_length
      /\ \A v \in Urbs : Back(v)' <=> Back(v)
      /\ num - 1 \in Urbs /\ 0 \in Urbs
      /\ r < num - 1 => r + 1 \in Urbs
  <2>1. num - 1 \in Urbs /\ 0 \in Urbs
    BY <1>1, NumType
  <2>2. r < num - 1 => r + 1 \in Urbs
    BY <1>1, NumType DEF Urbs
  <2> QED BY <2>1, <2>2, <1>1, <1>2 DEF Back
<1>7. TypeInv'
  <2>1. holder' \in {"none", "submit", "submitDiscard", "submitted", "cancelDiscard",
                    "cancelDone", "reapDiscard"}
        /\ at' \in Urbs /\ first' \in Urbs /\ last' \in Urbs
        /\ ret' \in {"SUCCESS", "NOT_FOUND", "NO_DEVICE"}
    <3>1. CASE holder' = "none" /\ at' = at /\ first' = first /\ last' = last /\ ret' = ret
      BY <3>1, <1>1 DEF TypeInv
    <3>2. CASE /\ holder' = "reapDiscard" /\ first' = r + 1 /\ last' = num - 1 /\ at' = num - 1
               /\ ret' = "SUCCESS" /\ r < num - 1
      BY <3>2, <1>6
    <3> QED BY <3>1, <3>2, <1>5
  <2>2. completing' \in BOOLEAN
    BY <1>4
  <2> QED BY <2>1, <2>2, <1>1, <1>2, <1>4 DEF TypeInv, TransferType, UrbType,
     PrivType, UrbStatuses
<1>8. Phases'
  BY <1>1, <1>4, <1>5 DEF IInv, Phases
<1>9. Actions'
  BY <1>1, <1>4, <1>5 DEF IInv, Actions, Decides
<1>10. Ranges'
  BY <1>1, <1>4, <1>5 DEF Ranges, DiscardLoop
<1>11. States' /\ Statuses'
  <2>1. Statuses'
    BY <1>4, <1>6 DEF IInv, Statuses
  <2>2. /\ \A u, v \in Urbs : u < v /\ urb'[u].state = "none" => urb'[v].state = "none"
        /\ \A u \in Urbs : u >= num => urb'[u].state = "none"
        /\ \A u \in Urbs : urb'[u].state \in {"none", "pending"} =>
             urb'[u].status = "OK" /\ urb'[u].actual_length = 0
    BY <1>6 DEF IInv, States
  <2>3. holder' \notin {"submit", "submitDiscard", "submitted"}
    BY <1>5
  <2>4. tpriv'.urbs /\ Normal' => \A u \in Urbs : u < num => urb'[u].state # "none"
    <3>1. tpriv'.urbs /\ Normal' => Normal
      BY <1>4 DEF Decides
    <3>2. Normal => \A u \in Urbs : u < num => urb[u].state # "none"
      BY <1>1 DEF IInv, States
    <3> QED BY <3>1, <3>2, <1>6
  <2> QED BY <2>1, <2>2, <2>3, <2>4, <1>4 DEF States
<1>12. Order'
  <2>1. ASSUME Normal, NEW u \in Urbs, Back(u) PROVE InTurn(u)
    BY <2>1, <1>1 DEF IInv, Order, OutOfTurn
  <2>2. tpriv'.urbs /\ Normal' => Normal
    BY <1>4 DEF Decides
  <2> QED BY <2>1, <2>2, <1>3, <1>6 DEF IInv, Order
<1>13. Discards'
  <2>1. ASSUME holder' = "reapDiscard", Normal'
        PROVE  gone' \/ (first' = num' - 1 /\ \A u \in Urbs : u < num' - 1 => urb'[u].state = "reaped")
    <3>1. gone \/ (r + 1 = num - 1 /\ \A u \in Urbs : u < r => urb[u].state = "reaped")
      BY <2>1, <1>a, <1>4, <1>5 DEF Decides
    <3>2. \A u \in Urbs : u < r + 1 => u < r \/ u = r
      BY <1>a DEF Urbs
    <3> QED BY <3>1, <3>2, <2>1, <1>2, <1>4, <1>5, <1>6
  <2> QED BY <2>1, <1>5 DEF Discards
<1>14. Counted'
  <2>1. type # "CONTROL" => tpriv'.num_retired = Cardinality(RetiredUrbs')
    BY <1>a, <1>1, <1>4, TakeCount DEF Reaps, Retired
  <2> QED BY <2>1, <1>4, <1>5 DEF Counted
<1>15. SomeLeft' /\ NoUrbLeft'
  BY <1>a, <1>2, <1>4 DEF SomeLeft, NoUrbLeft, Outstanding, Decides
<1>16. Cancels'
  <2>1. itransfer'.in_flight => (action = "CANCELLED" <=> cancelled)
    BY <1>1 DEF IInv, Cancels, Decides
  <2>2. ~over /\ action = "ERROR" /\ holder' = "none" => gone \/ urb'[num - 1].state # "pending"
    BY <1>1, <1>6 DEF IInv, Cancels, Decides
  <2> QED BY <2>1, <2>2, <1>1, <1>4, <1>5 DEF Cancels, Decides
<1>17. CancelTruth' /\ NoHoles' /\ StatusHonest'
  BY <1>1, <1>4 DEF CancelTruth, NoHoles, StatusHonest, Accounts
<1>18. Data'
  <2>1. \A u, v \in Urbs : u < v /\ urb'[u].status \in {"ESHUTDOWN", "EPIPE", "EPROTO"} =>
          urb'[v].actual_length = 0
    BY <1>6 DEF IInv, Data
  <2> SUFFICES ASSUME ~over, Bulk, action = "NORMAL", Normal
               PROVE  /\ \A u \in Urbs : urb'[u].state = "reaped" /\ ~Failed(u)' => urb'[u].actual_length = UrbLength
                      /\ (\E u \in Urbs : urb'[u].state = "reaped" /\ Failed(u)') \/
                         \A q \in Urbs : /\ urb'[q].state # "reaped"
                                         /\ \A v \in Urbs : v < q => urb'[v].state = "reaped"
                                         => itransfer'.transferred = q * UrbLength
    BY <2>1, <1>4 DEF Data, Decides
  <2>2. Failed(r) \/ urb[r].actual_length = UrbLength
    BY <1>a DEF Accounts, length
  <2>3. \A u \in Urbs : Failed(u)' <=> Failed(u)
    BY <1>6 DEF Failed
  <2>4. \A u \in Urbs : urb'[u].state = "reaped" /\ ~Failed(u)' => urb'[u].actual_length = UrbLength
    BY <2>2, <2>3, <1>1, <1>2, <1>6 DEF IInv, Data
  <2>5. ASSUME \A u \in Urbs : urb'[u].state = "reaped" => ~Failed(u)',
               NEW q \in Urbs, urb'[q].state # "reaped",
               \A v \in Urbs : v < q => urb'[v].state = "reaped"
        PROVE  itransfer'.transferred = q * UrbLength
    <3>1. \A u \in Urbs : urb[u].state = "reaped" => ~Failed(u)
      BY <2>5, <2>3, <1>6
    <3>2. itransfer.transferred = r * UrbLength
      <4>1. /\ urb[r].state # "reaped"
            /\ \A v \in Urbs : v < r => urb[v].state = "reaped"
        BY <1>1
      <4> QED BY <4>1, <3>1, <1>1 DEF IInv, Data
    <3>3. q = r + 1
      <4>1. q # r /\ ~(q < r)
        BY <2>5, <1>1, <1>2
      <4>2. ASSUME q > r + 1 PROVE FALSE
        <5>1. r + 1 \in Urbs /\ r + 1 < q
          BY <4>2, <1>1, <2>5, MaxUrbsAssumption DEF Urbs
        <5>2. urb[r + 1].state = "reaped" /\ r < r + 1
          BY <5>1, <2>5, <1>1, <1>2
        <5>3. InTurn(r + 1)
          BY <5>1, <5>2, <1>1 DEF IInv, Order, OutOfTurn, Back
        <5>4. urb[r].state = "reaped"
          BY <5>2, <5>3, <1>1 DEF InTurn, Ahead
        <5> QED BY <5>4, <1>1
      <4> QED BY <4>1, <4>2, <1>1
    <3>4. urb[r].actual_length = UrbLength
      BY <2>2, <2>3, <2>5, <1>1, <1>2
    <3>5. itransfer'.transferred = r * UrbLength + UrbLength
      BY <3>2, <3>4, <1>a DEF Accounts, length
    <3> QED BY <3>3, <3>5, <1>1, UrbLengthAssumption
  <2> QED BY <2>4, <2>5
<1>19. Honest'
  <2>1. \A u \in Urbs : u # r /\ FailedFirst(u)' => FailedFirst(u)
    BY <1>2, <1>6 DEF FailedFirst
  <2>2. FailedFirst(r)' => FailsFirst
    BY <1>a, <1>2, <1>6 DEF FailedFirst, FailsFirst
  <2>3. ~Bulk => \A u \in Urbs : u # r => ~FailedFirst(u)
    <3> SUFFICES ASSUME ~Bulk, NEW u \in Urbs, u # r, FailedFirst(u) PROVE FALSE
      OBVIOUS
    <3>1. type # "ISO" /\ u < num
      <4>1. urb[u].state = "reaped" /\ urb[u].status \in {"EPIPE", "EPROTO"}
        BY DEF FailedFirst
      <4>2. type # "ISO"
        BY <4>1 DEF IInv, Statuses
      <4>3. ~(u >= num)
        BY <4>1 DEF IInv, States
      <4>4. u \in Nat /\ num \in Nat
        BY <1>1, NumType DEF Urbs
      <4> QED BY <4>2, <4>3, <4>4
    <3>2. type = "CONTROL"
      BY <3>1, <1>1 DEF Bulk, TypeInv, PrivType, TransferType, UrbType, UrbStatuses
    <3>3. num = 1
      BY <3>2, <1>1 DEF IInv, Actions
    <3> QED BY <3>1, <3>3, <1>1
  <2>4. ASSUME ~gone, ~continuation, NEW u \in Urbs, FailedFirst(u)'
        PROVE  result # "COMPLETED" \/ action \in {"SUBMIT_FAILED", "CANCELLED", "ERROR"}
    <3>1. CASE u = r
      BY <3>1, <2>2, <2>4 DEF Admits
    <3>2. CASE u # r
      <4>1. FailedFirst(u) /\ Bulk
        BY <3>2, <2>1, <2>3, <2>4
      <4>2. tpriv.reap_status # "COMPLETED"
            \/ tpriv.reap_action \in {"SUBMIT_FAILED", "CANCELLED", "ERROR"}
        BY <4>1, <2>4, <1>1 DEF IInv, Honest
      <4> QED BY <4>1, <4>2 DEF Admits
    <3> QED BY <3>1, <3>2
  <2>5. ASSUME ~over, ~continuation, action = "COMPLETED_EARLY"
        PROVE  \E w \in Urbs : /\ urb'[w].state = "reaped" /\ urb'[w].actual_length < UrbLength
                              /\ \A v \in Urbs : v < w => urb'[v].state = "reaped"
    <3>1. CASE tpriv.reap_action = "COMPLETED_EARLY"
      <4>1. PICK w \in Urbs : /\ urb[w].state = "reaped" /\ urb[w].actual_length < UrbLength
                              /\ \A v \in Urbs : v < w => urb[v].state = "reaped"
        BY <3>1, <2>5, <1>1 DEF IInv, Honest
      <4> QED BY <4>1, <1>6
    <3>2. CASE tpriv.reap_action # "COMPLETED_EARLY"
      <4>1. Normal /\ urb[r].actual_length < UrbLength
        BY <3>2, <2>5, <1>a DEF Admits, length
      <4>2. \A v \in Urbs : v < r => urb'[v].state = "reaped"
        BY <4>1, <1>1, <1>6
      <4> QED BY <4>1, <4>2, <1>2
    <3> QED BY <3>1, <3>2
  <2>6. completing' /\ tpriv'.reap_action \in {"SUBMIT_FAILED", "ERROR"} =>
          tpriv'.reap_status # "COMPLETED"
    BY <1>4 DEF Decides
  <2> QED BY <2>4, <2>5, <2>6, <1>4 DEF Honest
<1> QED BY <1>3, <1>7, <1>8, <1>9, <1>10, <1>11, <1>12, <1>13, <1>14, <1>15, <1>16,
   <1>17, <1>18, <1>19 DEF IInv

-----------------------------------------------------------------------------
(* num_retired reaches num_urbs exactly if no other URB is left.           *)
LEMMA RetiredAll ==
  ASSUME IInv, ~EarlyStalls, ~UnplugInCancel, Reapable, TakeUrb, type # "CONTROL", num' = num
  PROVE  /\ AllRetired <=> \A u \in Urbs : u # reaped => urb[u].state \notin {"pending", "done"}
         /\ tpriv.num_retired \in Nat
<1>1. Cardinality(RetiredUrbs') = Cardinality(RetiredUrbs) + 1
      /\ (Cardinality(RetiredUrbs') = num <=>
            \A u \in Urbs : u < num /\ u # reaped => urb[u].state \in {"none", "reaped"})
  BY ReapFacts, TakeCount
<1>2. tpriv.num_retired = Cardinality(RetiredUrbs)
  BY ReapFacts
<1>3. (\A u \in Urbs : u < num /\ u # reaped => urb[u].state \in {"none", "reaped"})
        <=> \A u \in Urbs : u # reaped => urb[u].state \notin {"pending", "done"}
  BY ReapFacts
<1>4. tpriv.num_retired \in Nat
  BY DEF IInv, TypeInv, PrivType, TransferType, UrbType, UrbStatuses
<1> QED BY <1>1, <1>2, <1>3, <1>4 DEF AllRetired, Retired, num

(* In the normal case the URBs before the one reaped have been reaped and  *)
(* those after it have not, so it is the last in the transfer exactly if   *)
(* it is the last to come back.                                            *)
LEMMA NormalReap ==
  ASSUME IInv, ~EarlyStalls, ~UnplugInCancel, Reapable, TakeUrb, Normal
  PROVE  /\ \A u \in Urbs : u < reaped => urb[u].state = "reaped"
         /\ \A u \in Urbs : u > reaped /\ u < num => urb[u].state \in {"pending", "done"}
         /\ \A u \in Urbs : u > reaped => urb[u].state # "reaped"
         /\ reaped = num - 1 <=> \A u \in Urbs : u # reaped => urb[u].state \notin {"pending", "done"}
<1>1. \A u \in Urbs : u < reaped => urb[u].state = "reaped"
  BY ReapFacts
<1>2. \A u \in Urbs : u > reaped => urb[u].state # "reaped"
  <2> SUFFICES ASSUME NEW u \in Urbs, u > reaped, urb[u].state = "reaped" PROVE FALSE
    OBVIOUS
  <2>1. InTurn(u)
    BY ReapFacts DEF IInv, Order, OutOfTurn, Back
  <2>2. Ahead(reaped, u)
    BY <2>1, ReapFacts DEF InTurn
  <2> QED BY <2>2, ReapFacts DEF Ahead
<1>3. \A u \in Urbs : u > reaped /\ u < num => urb[u].state \in {"pending", "done"}
  BY <1>2, ReapFacts
<1>4. reaped = num - 1 => \A u \in Urbs : u # reaped => urb[u].state \notin {"pending", "done"}
  <2> SUFFICES ASSUME reaped = num - 1, NEW u \in Urbs, u # reaped
               PROVE  urb[u].state \notin {"pending", "done"}
    OBVIOUS
  <2>1. u < reaped \/ u >= num
    BY ReapFacts
  <2>2. CASE u < reaped
    BY <2>2, <1>1
  <2>3. CASE u >= num
    BY <2>3, ReapFacts
  <2> QED BY <2>1, <2>2, <2>3
<1>5. reaped # num - 1 => \E u \in Urbs : u # reaped /\ urb[u].state \in {"pending", "done"}
  <2> SUFFICES ASSUME reaped # num - 1
               PROVE  \E u \in Urbs : u # reaped /\ urb[u].state \in {"pending", "done"}
    OBVIOUS
  <2>1. num - 1 \in Urbs
    BY NumType DEF IInv
  <2>2. num - 1 > reaped /\ num - 1 < num
    BY ReapFacts
  <2> QED BY <2>1, <2>2, <1>3
<1> QED BY <1>1, <1>2, <1>3, <1>4, <1>5

(* Data that stays where it is leaves no hole.                             *)
LEMMA InPlace ==
  ASSUME IInv, ~EarlyStalls, ~UnplugInCancel, Reapable, TakeUrb, Normal, Bulk, DataInPlace
  PROVE  hole' = FALSE
<1>0. hole = FALSE
  BY DEF IInv, NoHoles, Bulk, TypeInv, PrivType, TransferType, UrbType, UrbStatuses
<1> SUFFICES ASSUME length > 0, itransfer.transferred # reaped * UrbLength PROVE FALSE
  BY <1>0 DEF DataInPlace
<1>1. PICK u \in Urbs : urb[u].state = "reaped" /\ Failed(u)
  BY ReapFacts, NormalReap DEF IInv, Data
<1>2. u < reaped
  BY <1>1, NormalReap, ReapFacts
<1>3. length = 0
  BY <1>1, <1>2, ReapFacts DEF IInv, Data, Failed, length
<1> QED BY <1>3

(* Nor does data that is moved up to the data before it.                   *)
LEMMA Moved ==
  ASSUME IInv, ~EarlyStalls, ~UnplugInCancel, Reapable, TakeUrb, Bulk, DataMoved
  PROVE  hole' = FALSE
<1>0. hole = FALSE
  BY DEF IInv, NoHoles, Bulk, TypeInv, PrivType, TransferType, UrbType, UrbStatuses
<1> SUFFICES ASSUME NEW v \in Urbs, v > reaped, urb[v].state = "reaped",
                    urb[v].actual_length > 0
             PROVE  FALSE
  BY <1>0 DEF DataMoved
<1>1. InTurn(v)
  BY ReapFacts DEF Back
<1>2. Ahead(reaped, v)
  BY <1>1, ReapFacts DEF InTurn
<1> QED BY <1>2, ReapFacts DEF Ahead

(* What the count of the data is.                                          *)
LEMMA AddsData ==
  ASSUME IInv, ~EarlyStalls, ~UnplugInCancel, Reapable, TakeUrb, AddData
  PROVE  /\ itransfer' \in TransferType
         /\ itransfer'.in_flight = itransfer.in_flight
         /\ itransfer'.cancelling = itransfer.cancelling
         /\ itransfer'.transferred = itransfer.transferred + length
         /\ length \in 0 .. UrbLength /\ UrbLength \in Nat
<1>1. length \in 0 .. UrbLength /\ UrbLength \in Nat
  BY ReapFacts, UrbLengthAssumption DEF TypeInv, PrivType, TransferType, UrbType,
     UrbStatuses, length
<1>2. itransfer \in TransferType
  BY DEF IInv, TypeInv, PrivType, TransferType, UrbType, UrbStatuses
<1>3. itransfer.transferred + length \in Nat
  BY <1>1, <1>2 DEF TransferType
<1> QED BY <1>1, <1>2, <1>3 DEF AddData, TransferType

(* `goto completed' is a way to reap an URB, the last one.                 *)
LEMMA CompleteReaps ==
  ASSUME IInv, ~EarlyStalls, ~UnplugInCancel, Reapable, TakeUrb, AddData, hole' = FALSE,
         UNCHANGED <<type, caps, status, cancelled>>,
         NEW action \in {"NORMAL", "SUBMIT_FAILED", "CANCELLED", "COMPLETED_EARLY", "ERROR"},
         NEW result \in Results,
         Complete(action, result)
  PROVE  Reaps(action, result, TRUE)
<1>1. tpriv \in PrivType /\ Retired \in Nat
  BY PrivTyped DEF IInv, PrivType, Retired
<1>2. tpriv' = [tpriv EXCEPT !.urbs = FALSE, !.num_retired = Retired,
                            !.reap_action = action, !.reap_status = result]
  BY DEF Complete
<1> HIDE DEF Retired
<1>3. tpriv' \in PrivType /\ tpriv'.urbs = ~TRUE /\ num' = num
      /\ tpriv'.reap_action = action /\ tpriv'.reap_status = result
      /\ tpriv'.num_retired = Retired
  BY <1>1, <1>2 DEF PrivType, num
<1> QED BY <1>3, AddsData DEF Reaps, Complete

(* And so is waiting for the others, discarding them or not.               *)
LEMMA KeepReaps ==
  ASSUME IInv, ~EarlyStalls, ~UnplugInCancel, Reapable, TakeUrb, AddData, hole' = FALSE,
         UNCHANGED <<type, caps, status, cancelled>>,
         NEW action \in {"NORMAL", "SUBMIT_FAILED", "CANCELLED", "COMPLETED_EARLY", "ERROR"},
         NEW result \in Results,
         KeepReaping(action, result),
         \/ UNCHANGED <<holder, at, discarding>>
         \/ Bulk /\ reaped < num - 1 /\ StartDiscard("reapDiscard", reaped + 1, num - 1)
  PROVE  Reaps(action, result, FALSE)
<1>0. tpriv.urbs = TRUE /\ completing = FALSE
  BY ReapFacts DEF TypeInv, PrivType, TransferType, UrbType, UrbStatuses
<1>1. tpriv \in PrivType /\ Retired \in Nat
  BY PrivTyped DEF IInv, PrivType, Retired
<1>2. tpriv' = [tpriv EXCEPT !.num_retired = Retired,
                            !.reap_action = action, !.reap_status = result]
  BY DEF KeepReaping
<1> HIDE DEF Retired
<1>3. tpriv' \in PrivType /\ tpriv'.urbs = ~FALSE /\ num' = num
      /\ tpriv'.reap_action = action /\ tpriv'.reap_status = result
      /\ tpriv'.num_retired = Retired
  BY <1>0, <1>1, <1>2 DEF PrivType, num
<1> QED BY <1>0, <1>3, AddsData DEF Reaps, KeepReaping

(* Verdicts of a bulk transfer before it ends.                             *)
LEMMA Verdicts ==
  ASSUME IInv, Bulk, tpriv.urbs
  PROVE  /\ tpriv.reap_status \in Results /\ tpriv.reap_status # "CANCELLED"
         /\ tpriv.reap_action \in {"NORMAL", "SUBMIT_FAILED", "CANCELLED", "COMPLETED_EARLY", "ERROR"}
         /\ \A v \in {"STALL", "OVERFLOW", "ERROR"} :
              FirstVerdict(v) \in Results \ {"CANCELLED", "COMPLETED"}
         /\ type # "CONTROL" /\ type # "ISO"
BY DEF IInv, TypeInv, PrivType, TransferType, UrbType, UrbStatuses, Cancels,
   FirstVerdict, Results, Bulk

(* The handlers, one by one: a transfer that is cancelled, was cut short   *)
(* or failed to submit;                                                    *)
LEMMA ReapAbnormalKeeps ==
  ASSUME IInv, ~EarlyStalls, ~UnplugInCancel, ReapAbnormal
  PROVE  IInv'
<1>1. /\ Reapable /\ TakeUrb /\ Bulk /\ AddData /\ DataMoved
      /\ UNCHANGED <<type, caps, status, cancelled>>
      /\ tpriv.reap_action # "NORMAL" /\ ~Normal
  BY DEF ReapAbnormal, Normal
<1>2. hole' = FALSE /\ tpriv.urbs
  BY <1>1, Moved, ReapFacts
<1>3. /\ tpriv.reap_status \in Results /\ tpriv.reap_status # "CANCELLED"
      /\ tpriv.reap_action \in {"NORMAL", "SUBMIT_FAILED", "CANCELLED", "COMPLETED_EARLY", "ERROR"}
      /\ FirstVerdict("ERROR") \in Results \ {"CANCELLED", "COMPLETED"}
      /\ type # "CONTROL" /\ type # "ISO"
  BY <1>1, <1>2, Verdicts
<1>4. ~(~gone /\ ~continuation /\ FailsFirst /\ tpriv.reap_action = "COMPLETED_EARLY")
  <2> SUFFICES ASSUME ~continuation, FailsFirst, tpriv.reap_action = "COMPLETED_EARLY"
               PROVE  FALSE
    OBVIOUS
  <2>1. PICK w \in Urbs : /\ urb[w].state = "reaped" /\ urb[w].actual_length < UrbLength
                          /\ \A v \in Urbs : v < w => urb[v].state = "reaped"
    BY <1>2 DEF IInv, Honest
  <2>2. w # reaped /\ ~(reaped < w)
    BY <1>1, <2>1, ReapFacts
  <2>3. w < reaped
    BY <1>1, <2>2, ReapFacts
  <2>4. urb[w].actual_length = UrbLength
    BY <2>3 DEF FailsFirst
  <2> QED BY <2>1, <2>4, UrbLengthAssumption
<1>5. CASE AllRetired
  <2> DEFINE result == IF tpriv.reap_action # "COMPLETED_EARLY"
                       THEN FirstVerdict("ERROR") ELSE tpriv.reap_status
  <2>1. Complete(tpriv.reap_action, result)
    BY <1>5 DEF ReapAbnormal
  <2>2. /\ result \in Results \ {"CANCELLED"}
        /\ tpriv.reap_action # "COMPLETED_EARLY" => result # "COMPLETED"
        /\ tpriv.reap_status # "COMPLETED" => result # "COMPLETED"
    BY <1>3
  <2> HIDE DEF result
  <2>3. Reaps(tpriv.reap_action, result, TRUE)
    BY <1>1, <1>2, <1>3, <2>1, <2>2, CompleteReaps
  <2>4. Decides(tpriv.reap_action, result, TRUE)
    <3>1. \A u \in Urbs : u # reaped => urb[u].state \notin {"pending", "done"}
      BY <1>1, <1>3, <1>5, <2>3, RetiredAll DEF Reaps
    <3> QED BY <3>1, <1>1, <1>3, <2>2 DEF Decides
  <2>5. Accounts(tpriv.reap_action, result, TRUE)
    BY <1>2 DEF Accounts
  <2>6. Admits(tpriv.reap_action, result, TRUE)
    BY <1>3, <1>4, <2>2 DEF Admits
  <2> QED BY <2>3, <2>4, <2>5, <2>6, ReapsKeeps
<1>6. CASE ~AllRetired
  <2>1. KeepReaping(tpriv.reap_action, tpriv.reap_status) /\ UNCHANGED <<holder, at, discarding>>
    BY <1>6 DEF ReapAbnormal
  <2>2. Reaps(tpriv.reap_action, tpriv.reap_status, FALSE)
    BY <1>1, <1>2, <1>3, <2>1, KeepReaps
  <2>3. Decides(tpriv.reap_action, tpriv.reap_status, FALSE)
    <3>1. \E u \in Urbs : u # reaped /\ urb[u].state \in {"pending", "done"}
      BY <1>1, <1>3, <1>6, <2>2, RetiredAll DEF Reaps
    <3> QED BY <3>1, <1>1, <1>3 DEF Decides
  <2>4. Accounts(tpriv.reap_action, tpriv.reap_status, FALSE)
    BY <1>1, <1>2 DEF Accounts
  <2>5. Admits(tpriv.reap_action, tpriv.reap_status, FALSE)
    BY <1>1, <1>3, <1>4 DEF Admits
  <2> QED BY <2>2, <2>3, <2>4, <2>5, ReapsKeeps
<1> QED BY <1>5, <1>6

(* one that cannot go on;                                                  *)
LEMMA CancelRemainingKeeps ==
  ASSUME IInv, ~EarlyStalls, ~UnplugInCancel, Reapable, TakeUrb, AddData, DataInPlace,
         Normal, Bulk, UNCHANGED <<type, caps, status, cancelled>>,
         NEW action \in {"NORMAL", "COMPLETED_EARLY", "ERROR"},
         NEW result \in Results, result # "CANCELLED",
         CancelRemaining(action, result),
         tpriv.reap_status # "COMPLETED" => result # "COMPLETED",
         action = "NORMAL" =>
           Failed(reaped) /\ (gone \/ reaped + 2 >= num),
         action = "COMPLETED_EARLY" =>
           length < UrbLength /\ urb[reaped].status \notin {"EPIPE", "EPROTO"},
         FailsFirst => result # "COMPLETED" \/ action = "ERROR"
  PROVE  IInv'
<1>1. hole' = FALSE /\ tpriv.urbs /\ tpriv.reap_action = "NORMAL"
  BY InPlace, ReapFacts DEF Normal
<1>2. type # "CONTROL" /\ type # "ISO"
  BY <1>1, Verdicts
<1> DEFINE verdict == IF action = "ERROR" /\ result = "COMPLETED" THEN "ERROR" ELSE result
<1>3. /\ verdict \in Results \ {"CANCELLED"}
      /\ action = "ERROR" => verdict # "COMPLETED"
      /\ result # "COMPLETED" => verdict # "COMPLETED"
  BY DEF Results
<1>4. /\ AllRetired => Complete(action, verdict)
      /\ ~AllRetired => /\ KeepReaping(action, verdict)
                        /\ StartDiscard("reapDiscard", reaped + 1, num - 1)
  BY DEF CancelRemaining, num
<1> HIDE DEF verdict
<1>5. Admits(action, verdict, AllRetired)
  BY <1>1, <1>3 DEF Admits
<1>6. CASE AllRetired
  <2>1. Reaps(action, verdict, TRUE)
    BY <1>1, <1>3, <1>4, <1>6, CompleteReaps
  <2>2. Decides(action, verdict, TRUE)
    <3>1. \A u \in Urbs : u # reaped => urb[u].state \notin {"pending", "done"}
      BY <1>2, <1>6, <2>1, RetiredAll DEF Reaps
    <3> QED BY <3>1, <1>1, <1>2, <1>3 DEF Decides
  <2>3. Accounts(action, verdict, TRUE)
    BY <1>1 DEF Accounts
  <2>4. Admits(action, verdict, TRUE)
    BY <1>1, <1>3 DEF Admits
  <2> QED BY <2>1, <2>2, <2>3, <2>4, ReapsKeeps
<1>7. CASE ~AllRetired
  <2>1. num' = num
    BY <1>4, <1>7 DEF KeepReaping, num, IInv, TypeInv, PrivType, TransferType,
       UrbType, UrbStatuses
  <2>2. \E u \in Urbs : u # reaped /\ urb[u].state \in {"pending", "done"}
    BY <1>2, <1>7, <2>1, RetiredAll
  <2>3. reaped # num - 1
    BY <2>2, NormalReap
  <2>4. reaped < num - 1
    BY <2>3, ReapFacts
  <2>5. Reaps(action, verdict, FALSE)
    BY <1>1, <1>3, <1>4, <1>7, <2>4, KeepReaps
  <2>6. Decides(action, verdict, FALSE)
    <3>1. holder' = "reapDiscard"
      BY <1>4, <1>7 DEF StartDiscard
    <3>2. action = "NORMAL" => gone \/ reaped + 1 = num - 1
      BY <2>4, ReapFacts
    <3> QED BY <2>2, <3>1, <3>2, <1>1, <1>2, <1>3, NormalReap DEF Decides
  <2>7. Accounts(action, verdict, FALSE)
    BY <1>1, AddsData DEF Accounts
  <2>8. Admits(action, verdict, FALSE)
    BY <1>1, <1>3 DEF Admits
  <2> QED BY <2>5, <2>6, <2>7, <2>8, ReapsKeeps
<1> QED BY <1>6, <1>7

(* one that goes well;                                                     *)
LEMMA ReapOkKeeps ==
  ASSUME IInv, ~EarlyStalls, ~UnplugInCancel, ReapOk
  PROVE  IInv'
<1>1. /\ Reapable /\ TakeUrb /\ Bulk /\ AddData /\ DataInPlace
      /\ UNCHANGED <<type, caps, status, cancelled>>
      /\ tpriv.reap_action = "NORMAL" /\ Normal
      /\ urb[reaped].status \in {"OK", "EREMOTEIO", "ENOENT", "ECONNRESET"}
  BY DEF ReapOk, Normal
<1>2. hole' = FALSE /\ tpriv.urbs /\ ~FailsFirst
  BY <1>1, InPlace, ReapFacts DEF FailsFirst
<1>3. /\ tpriv.reap_status \in Results /\ tpriv.reap_status # "CANCELLED"
      /\ type # "CONTROL" /\ type # "ISO"
  BY <1>1, <1>2, Verdicts
<1>4. CASE reaped = num - 1
  <2>1. Complete("NORMAL", tpriv.reap_status)
    BY <1>4 DEF ReapOk, num
  <2>2. Reaps("NORMAL", tpriv.reap_status, TRUE)
    BY <1>1, <1>2, <1>3, <2>1, CompleteReaps
  <2>3. Decides("NORMAL", tpriv.reap_status, TRUE)
    BY <1>1, <1>3, <1>4, NormalReap DEF Decides
  <2>4. Accounts("NORMAL", tpriv.reap_status, TRUE)
    BY <1>2 DEF Accounts
  <2>5. Admits("NORMAL", tpriv.reap_status, TRUE)
    BY <1>1, <1>2 DEF Admits
  <2> QED BY <2>2, <2>3, <2>4, <2>5, ReapsKeeps
<1>5. CASE reaped # num - 1 /\ Full
  <2>1. KeepReaping("NORMAL", tpriv.reap_status) /\ UNCHANGED <<holder, at, discarding>>
    BY <1>5 DEF ReapOk, num
  <2>2. Reaps("NORMAL", tpriv.reap_status, FALSE)
    BY <1>1, <1>2, <1>3, <2>1, KeepReaps
  <2>3. Decides("NORMAL", tpriv.reap_status, FALSE)
    <3>1. \E u \in Urbs : u # reaped /\ urb[u].state \in {"pending", "done"}
      BY <1>1, <1>5, NormalReap
    <3>2. holder' # "reapDiscard"
      BY <1>1, <2>1, ReapFacts
    <3> QED BY <3>1, <3>2, <1>1, <1>3 DEF Decides
  <2>4. Accounts("NORMAL", tpriv.reap_status, FALSE)
    BY <1>1, <1>2, <1>5, AddsData DEF Accounts, Full
  <2>5. Admits("NORMAL", tpriv.reap_status, FALSE)
    BY <1>1, <1>2 DEF Admits
  <2> QED BY <2>2, <2>3, <2>4, <2>5, ReapsKeeps
<1>6. CASE reaped # num - 1 /\ ~Full
  <2>1. CancelRemaining("COMPLETED_EARLY", tpriv.reap_status)
    BY <1>6 DEF ReapOk, num
  <2>2. length < UrbLength
    BY <1>1, <1>6, AddsData DEF Full
  <2> QED BY <1>1, <1>2, <1>3, <2>1, <2>2, CancelRemainingKeeps
<1> QED BY <1>4, <1>5, <1>6

(* one that fails;                                                         *)
LEMMA ReapFailedKeeps ==
  ASSUME IInv, ~EarlyStalls, ~UnplugInCancel, ReapFailed
  PROVE  IInv'
<1>1. /\ Reapable /\ TakeUrb /\ Bulk /\ AddData /\ DataInPlace
      /\ UNCHANGED <<type, caps, status, cancelled>>
      /\ tpriv.reap_action = "NORMAL" /\ Normal
  BY DEF ReapFailed, Normal
<1>2. hole' = FALSE /\ tpriv.urbs
  BY <1>1, InPlace, ReapFacts
<1>3. /\ tpriv.reap_status \in Results /\ tpriv.reap_status # "CANCELLED"
      /\ FirstVerdict("STALL") \in Results \ {"CANCELLED", "COMPLETED"}
      /\ FirstVerdict("OVERFLOW") \in Results \ {"CANCELLED", "COMPLETED"}
      /\ type # "CONTROL" /\ type # "ISO"
  BY <1>1, <1>2, Verdicts
<1>4. /\ urb[reaped].status = "ESHUTDOWN" => gone
      /\ urb[reaped].status = "EPIPE" => reaped + 2 >= num
      /\ urb[reaped].status = "EOVERFLOW" => reaped + 1 = num
  BY <1>1, ReapFacts DEF IInv, Statuses
<1>5. CASE urb[reaped].status = "ESHUTDOWN"
  <2>1. CancelRemaining("NORMAL", "NO_DEVICE") /\ Failed(reaped)
    BY <1>5 DEF ReapFailed, Failed
  <2> QED BY <2>1, <1>1, <1>4, <1>5, CancelRemainingKeeps DEF Results
<1>6. CASE urb[reaped].status = "EPIPE"
  <2>1. CancelRemaining("NORMAL", FirstVerdict("STALL")) /\ Failed(reaped)
    BY <1>6 DEF ReapFailed, Failed
  <2> QED BY <2>1, <1>1, <1>3, <1>4, <1>6, CancelRemainingKeeps
<1>7. CASE urb[reaped].status = "EPROTO"
  <2>1. CancelRemaining("ERROR", tpriv.reap_status)
    BY <1>7 DEF ReapFailed
  <2> QED BY <2>1, <1>1, <1>3, <1>7, CancelRemainingKeeps
<1>8. CASE urb[reaped].status = "EOVERFLOW"
  <2>1. Complete("NORMAL", FirstVerdict("OVERFLOW"))
    BY <1>8 DEF ReapFailed
  <2>2. Reaps("NORMAL", FirstVerdict("OVERFLOW"), TRUE)
    BY <1>1, <1>2, <1>3, <2>1, CompleteReaps
  <2>3. reaped = num - 1
    BY <1>1, <1>4, <1>8, ReapFacts
  <2>4. Decides("NORMAL", FirstVerdict("OVERFLOW"), TRUE)
    BY <1>1, <1>3, <2>3, NormalReap DEF Decides
  <2>5. Accounts("NORMAL", FirstVerdict("OVERFLOW"), TRUE)
    BY <1>2 DEF Accounts
  <2>6. Admits("NORMAL", FirstVerdict("OVERFLOW"), TRUE)
    BY <1>1, <1>3 DEF Admits
  <2> QED BY <2>2, <2>4, <2>5, <2>6, ReapsKeeps
<1> QED BY <1>5, <1>6, <1>7, <1>8 DEF ReapFailed

(* an isochronous one;                                                     *)
LEMMA ReapIsoKeeps ==
  ASSUME IInv, ~EarlyStalls, ~UnplugInCancel, ReapIso
  PROVE  IInv'
<1> DEFINE over == IF Normal THEN reaped = num - 1 ELSE AllRetired
           result == IF ~over THEN tpriv.reap_status ELSE IF Normal THEN IsoStatus ELSE "ERROR"
<1>1. /\ Reapable /\ TakeUrb /\ type = "ISO" /\ ~Bulk
      /\ UNCHANGED <<type, caps, status, cancelled>>
      /\ UNCHANGED <<holder, at, discarding>>
      /\ itransfer' = itransfer /\ PacketsCopied
      /\ completing' = over
      /\ tpriv' = [tpriv EXCEPT
              !.num_retired = Retired, !.iso_packet_offset = @ + 1,
              !.urbs = ~over, !.reap_status = result]
  BY DEF ReapIso, Bulk, Normal, num
<1>2. /\ result \in Results
      /\ over => result # "CANCELLED" /\ (tpriv.reap_action # "NORMAL" => result # "COMPLETED")
      /\ over \in BOOLEAN
  BY DEF Results, IsoStatus, Normal, IInv, TypeInv, PrivType, TransferType, UrbType,
     UrbStatuses, AllRetired
<1>3. num' = num
  BY <1>1 DEF num, IInv, TypeInv, PrivType, TransferType, UrbType, UrbStatuses
<1>4. /\ over => \A u \in Urbs : u # reaped => urb[u].state \notin {"pending", "done"}
      /\ ~over => \E u \in Urbs : u # reaped /\ urb[u].state \in {"pending", "done"}
  <2>1. CASE Normal
    BY <2>1, <1>1, NormalReap
  <2>2. CASE ~Normal
    BY <2>2, <1>1, <1>3, RetiredAll
  <2> QED BY <2>1, <2>2
<1> HIDE DEF over, result
<1>5. Reaps(tpriv.reap_action, result, over)
  <2>1. tpriv \in PrivType /\ Retired \in Nat /\ tpriv.iso_packet_offset + 1 \in Nat
    BY PrivTyped DEF IInv, PrivType, Retired
  <2> HIDE DEF Retired
  <2>2. tpriv' \in PrivType /\ tpriv'.urbs = ~over /\ tpriv'.reap_action = tpriv.reap_action
        /\ tpriv'.reap_status = result /\ tpriv'.num_retired = Retired
    BY <2>1, <1>1, <1>2 DEF PrivType
  <2>3. hole' \in BOOLEAN
    BY <1>1 DEF PacketsCopied, IInv, TypeInv, PrivType, TransferType, UrbType,
       UrbStatuses
  <2>4. itransfer' \in TransferType
    BY <1>1 DEF IInv, TypeInv, PrivType, TransferType, UrbType, UrbStatuses
  <2> QED BY <2>2, <2>3, <2>4, <1>1, <1>2, <1>3 DEF Reaps
<1>6. Decides(tpriv.reap_action, result, over)
  <2>1. tpriv.urbs /\ holder' = "none"
    BY <1>1, ReapFacts
  <2>2. tpriv.reap_action \notin {"ERROR", "COMPLETED_EARLY"}
    BY <1>1, <2>1 DEF IInv, Actions
  <2> QED BY <2>1, <2>2, <1>1, <1>2, <1>4 DEF Decides, Normal
<1>7. Accounts(tpriv.reap_action, result, over)
  BY <1>1 DEF Accounts
<1>8. Admits(tpriv.reap_action, result, over)
  <2>1. ~FailsFirst
    BY <1>1, ReapFacts DEF IInv, Statuses, FailsFirst
  <2> QED BY <2>1, <1>1 DEF Admits
<1> QED BY <1>5, <1>6, <1>7, <1>8, ReapsKeeps

(* a control one.                                                          *)
LEMMA ReapControlKeeps ==
  ASSUME IInv, ~EarlyStalls, ~UnplugInCancel, ReapControl
  PROVE  IInv'
<1>1. /\ Reapable /\ TakeUrb /\ type = "CONTROL" /\ ~Bulk /\ AddData
      /\ UNCHANGED <<type, caps, status, cancelled>>
      /\ UNCHANGED <<holder, at, discarding>>
      /\ hole' = hole /\ completing' = TRUE
      /\ tpriv' = [tpriv EXCEPT !.urbs = FALSE, !.reap_status = ControlStatus]
  BY DEF ReapControl, Bulk
<1>2. num = 1 /\ reaped = 0 /\ tpriv.urbs /\ itransfer.in_flight /\ holder = "none"
      /\ tpriv.reap_action \in {"NORMAL", "CANCELLED"}
  BY <1>1, ReapFacts DEF IInv, Actions
<1>3. /\ ControlStatus \in Results
      /\ ControlStatus = "CANCELLED" => cancelled
      /\ FailsFirst => ControlStatus # "COMPLETED"
  <2>1. urb[0].status = "ENOENT" => cancelled
    BY <1>1, <1>2 DEF IInv, Cancels
  <2>2. ControlStatus = "CANCELLED" => urb[reaped].status = "ENOENT"
    BY DEF ControlStatus
  <2> QED BY <2>1, <2>2, <1>2 DEF ControlStatus, FailsFirst, Results
<1>4. Reaps(tpriv.reap_action, ControlStatus, TRUE)
  <2>1. tpriv \in PrivType
    BY PrivTyped DEF IInv
  <2>2. tpriv' \in PrivType /\ tpriv'.urbs = ~TRUE /\ tpriv'.reap_action = tpriv.reap_action
        /\ tpriv'.reap_status = ControlStatus /\ num' = num
    BY <2>1, <1>1, <1>3 DEF PrivType, num
  <2>3. hole' \in BOOLEAN
    BY <1>1 DEF IInv, TypeInv, PrivType, TransferType, UrbType, UrbStatuses
  <2> QED BY <2>2, <2>3, <1>1, AddsData DEF Reaps
<1>5. Decides(tpriv.reap_action, ControlStatus, TRUE)
  <2>1. \A u \in Urbs : u # reaped => urb[u].state \notin {"pending", "done"}
    <3>1. \A u \in Urbs : u # reaped => u >= num
      BY <1>1, <1>2, ReapFacts
    <3> QED BY <3>1, <1>1, ReapFacts
  <2> QED BY <2>1, <1>1, <1>2, <1>3 DEF Decides, Normal
<1>6. Accounts(tpriv.reap_action, ControlStatus, TRUE)
  BY <1>1 DEF Accounts, IInv, NoHoles
<1>7. Admits(tpriv.reap_action, ControlStatus, TRUE)
  BY <1>1, <1>3 DEF Admits
<1> QED BY <1>4, <1>5, <1>6, <1>7, ReapsKeeps

-----------------------------------------------------------------------------
(* The invariant holds at first.                                           *)
LEMMA InitEstablishes == Init => IInv
<1> SUFFICES ASSUME Init PROVE IInv
  OBVIOUS
<1>1. /\ holder = "none" /\ completing = FALSE /\ finished = << >> /\ cut = FALSE /\ halted = FALSE
      /\ gone = FALSE /\ fd_removed = FALSE /\ status = "none" /\ cancelled = FALSE /\ hole = FALSE
      /\ tpriv = [urbs |-> FALSE, num_urbs |-> 1, num_retired |-> 0, iso_packet_offset |-> 0,
                  reap_action |-> "NORMAL", reap_status |-> "COMPLETED"]
      /\ itransfer = [in_flight |-> FALSE, cancelling |-> FALSE, transferred |-> 0]
  BY DEF Init
<1>2. /\ tpriv.urbs = FALSE /\ num = 1 /\ itransfer.in_flight = FALSE
      /\ tpriv.reap_action = "NORMAL"
  BY <1>1 DEF num
<1>3. \A u \in Urbs : urb[u].state = "none" /\ urb[u].status = "OK" /\ urb[u].actual_length = 0
  BY DEF Init, NoUrb
<1>4. TypeInv
  <2>1. 0 \in Urbs /\ 1 \in 1 .. MaxUrbs
    BY MaxUrbsAssumption DEF Urbs
  <2>2. urb \in [Urbs -> UrbType]
    BY UrbLengthAssumption DEF Init, NoUrb, UrbType, UrbStatuses
  <2>3. tpriv \in PrivType
    BY <2>1, <1>1 DEF PrivType, Results
  <2>4. itransfer \in TransferType
    BY <1>1 DEF TransferType
  <2>5. finished \in Seq(Urbs) /\ continuation \in BOOLEAN /\ reapsGone \in BOOLEAN
    BY ContinuationsAssumption DEF Init
  <2>6. at \in Urbs /\ first \in Urbs /\ last \in Urbs /\ ret = "SUCCESS" /\ type = "BULK"
    BY <2>1 DEF Init
  <2> QED BY <2>2, <2>3, <2>4, <2>5, <2>6, <1>1 DEF TypeInv, TransferType, UrbType,
     UrbStatuses, PrivType
<1>5. Phases /\ Actions /\ Ranges
  BY <1>1, <1>2 DEF Phases, Actions, Ranges, DiscardLoop
<1>6. States /\ Statuses /\ Queue /\ Order
  BY <1>1, <1>2, <1>3 DEF States, Statuses, Queue, Order, Back
<1>7. Discards /\ Counted /\ SomeLeft /\ NoUrbLeft
  BY <1>1, <1>2, <1>3 DEF Discards, Counted, SomeLeft, NoUrbLeft, Outstanding
<1>8. Cancels /\ CancelTruth /\ NoHoles
  BY <1>1, <1>2 DEF Cancels, CancelTruth, NoHoles
<1>9. Data /\ Honest /\ StatusHonest
  BY <1>1, <1>2, <1>3 DEF Data, Honest, StatusHonest
<1> QED BY <1>4, <1>5, <1>6, <1>7, <1>8, <1>9 DEF IInv

(* Every step keeps the invariant.                                         *)
LEMMA NextKeeps ==
  ASSUME ~EarlyStalls, ~UnplugInCancel, IInv, [Next]_vars
  PROVE  IInv'
<1>1. CASE Submit
  BY <1>1, Starting, SubmitUrbKeeps, SubmitFirstUrbFailsKeeps, Refusing,
     SubmittedKeeps DEF Submit
<1>2. CASE Discard
  BY <1>2, DiscardPendingKeeps, DiscardSkips DEF Discard
<1>3. CASE Cancel
  BY <1>3, CancelTransferKeeps, CancelDoneKeeps DEF Cancel
<1>4. CASE Reap
  BY <1>4, ReapAbnormalKeeps, ReapOkKeeps, ReapFailedKeeps, ReapIsoKeeps,
     ReapControlKeeps,
     ReportKeeps, HandleDisconnectKeeps DEF Reap
<1>5. CASE Kernel
  <2>1. CASE Unplug
    BY <2>1, UnplugKeeps
  <2>2. CASE ~Unplug
    <3>1. PICK u \in Urbs : \/ UrbFinishes(u) \/ UrbFinishesShort(u) \/ UrbFails(u)
                            \/ UrbOverflows(u) \/ UrbCut(u) \/ UrbGone(u)
      BY <1>5, <2>2 DEF Kernel
    <3> QED BY <3>1, KernelSteps
  <2> QED BY <2>1, <2>2
<1>6. CASE UNCHANGED vars
  <2>1. /\ holder' = holder /\ at' = at /\ first' = first /\ last' = last /\ ret' = ret
        /\ tpriv' = tpriv /\ itransfer' = itransfer /\ completing' = completing /\ type' = type
        /\ urb' = urb /\ finished' = finished /\ cut' = cut /\ halted' = halted /\ gone' = gone
        /\ fd_removed' = fd_removed /\ continuation' = continuation
        /\ reapsGone' = reapsGone /\ status' = status /\ cancelled' = cancelled /\ hole' = hole
        /\ num' = num /\ Bulk' = Bulk /\ Normal' = Normal
    BY <1>6 DEF vars, discarding, kernel, caps, history, num, Bulk, Normal
  <2>2. TypeInv'
    BY <2>1 DEF IInv, TypeInv, PrivType, TransferType, UrbType, UrbStatuses
  <2>3. Phases' /\ Actions' /\ Ranges' /\ States' /\ Statuses'
    BY <2>1 DEF IInv, Phases, Actions, Ranges, States, Statuses, DiscardLoop
  <2>4. Queue' /\ Order' /\ Discards'
    BY <2>1, UrbsAlone DEF IInv, Order, OutOfTurn, Discards
  <2>5. Counted' /\ SomeLeft' /\ NoUrbLeft'
    BY <2>1, UrbsAlone DEF IInv, Counted, SomeLeft, NoUrbLeft
  <2>6. Cancels' /\ CancelTruth' /\ NoHoles'
    BY <2>1 DEF IInv, Cancels, CancelTruth, NoHoles
  <2>7. Data' /\ Honest' /\ StatusHonest'
    BY <2>1, UrbsAlone DEF IInv, Data, Honest, StatusHonest
  <2> QED BY <2>2, <2>3, <2>4, <2>5, <2>6, <2>7 DEF IInv
<1> QED BY <1>1, <1>2, <1>3, <1>4, <1>5, <1>6 DEF Next

(* The invariant holds, for every MaxUrbs, UrbLength, Types, Failures and  *)
(* Continuations: URBs are where the handlers of linux_usbfs.c take them   *)
(* to be.                                                                  *)
THEOREM Invariant ==
  ASSUME ~EarlyStalls, ~UnplugInCancel
  PROVE  Safety => []IInv
<1>1. IInv /\ [Next]_vars => IInv'
  BY NextKeeps
<1> QED BY <1>1, InitEstablishes, PTL DEF Safety

(* The URBs are freed (free_iso_urbs, and free(tpriv->urbs) in the         *)
(* handlers of completion) only when the kernel has given all of them      *)
(* back.                                                                   *)
THEOREM NoUrbIsLeft ==
  ASSUME ~EarlyStalls, ~UnplugInCancel
  PROVE  Safety => []NoUrbLeft
<1>1. IInv => NoUrbLeft
  BY DEF IInv
<1> QED BY <1>1, Invariant, PTL

(* A transfer in flight always has an URB to come, a completion under way  *)
(* or a disconnection to be handled: handle_bulk_completion never waits    *)
(* for an URB that was reaped already or never submitted.                  *)
THEOREM NeverStuck ==
  ASSUME ~EarlyStalls, ~UnplugInCancel
  PROVE  Safety => []NotStuck
<1>1. IInv => NotStuck
  BY DEF IInv, NotStuck, Phases, SomeLeft, Outstanding
<1> QED BY <1>1, Invariant, PTL

(* A transfer is reported as cancelled only if libusb_cancel_transfer      *)
(* returned success for it (op_cancel_transfer, discard_urbs).             *)
THEOREM CancelTellsTruth ==
  ASSUME ~EarlyStalls, ~UnplugInCancel
  PROVE  Safety => []CancelTruth
<1>1. IInv => CancelTruth
  BY DEF IInv
<1> QED BY <1>1, Invariant, PTL

(* The data of a bulk transfer is what the device has sent, without a      *)
(* hole (handle_bulk_completion moves surplus data), however many URBs a   *)
(* cancellation retires out of turn.                                       *)
THEOREM DataHasNoHoles ==
  ASSUME ~EarlyStalls, ~UnplugInCancel
  PROVE  Safety => []NoHoles
<1>1. IInv => NoHoles
  BY DEF IInv
<1> QED BY <1>1, Invariant, PTL

(* A transfer of a device that is present is not reported COMPLETED when   *)
(* its data ended in a failure (handle_bulk_completion), without bulk      *)
(* continuation; with it, see StatusHonest.                                *)
THEOREM StatusIsHonest ==
  ASSUME ~EarlyStalls, ~UnplugInCancel
  PROVE  Safety => []StatusHonest
<1>1. IInv => StatusHonest
  BY DEF IInv
<1> QED BY <1>1, Invariant, PTL

-----------------------------------------------------------------------------
(* The bounds of the counters, on top of the invariant: every URB that is  *)
(* retired brings no more data than fits in it, and no packet is counted   *)
(* without its URB.                                                        *)
Bounds ==
  /\ tpriv.num_retired <= MaxUrbs
  /\ type # "CONTROL" => tpriv.num_retired <= num
  /\ tpriv.iso_packet_offset <= MaxUrbs
  /\ tpriv.urbs /\ type = "ISO" => tpriv.iso_packet_offset <= tpriv.num_retired
  /\ holder = "submit" => itransfer.transferred = 0
  /\ tpriv.urbs => IF type = "CONTROL" THEN itransfer.transferred = 0
                   ELSE itransfer.transferred <= tpriv.num_retired * UrbLength
  /\ itransfer.transferred <= num * UrbLength

(* An URB fails only as devices do.                                        *)
Reasons ==
  \A u \in Urbs : urb[u].status \in
    {"OK", "EREMOTEIO", "ENOENT", "ECONNRESET", "ESHUTDOWN"} \cup Failures

(* The counters' types, and more room for more URBs.                       *)
LEMMA CounterTypes ==
  ASSUME TypeInv
  PROVE  /\ tpriv \in PrivType /\ itransfer \in TransferType /\ num = tpriv.num_urbs
         /\ tpriv.num_retired \in Nat /\ tpriv.iso_packet_offset \in Nat
         /\ itransfer.transferred \in Nat /\ num \in Nat /\ num <= MaxUrbs
         /\ MaxUrbs \in Nat /\ UrbLength \in Nat
BY NumType, UrbLengthAssumption DEF TypeInv, PrivType, TransferType, num

LEMMA MoreRoom ==
  ASSUME NEW a \in Nat, NEW b \in Nat, a <= b, NEW c \in Nat
  PROVE  a * c <= b * c
<1>1. PICK d \in Nat : b = a + d
  <2>1. b - a \in Nat /\ b = a + (b - a)
    OBVIOUS
  <2> QED BY <2>1
<1>2. b * c = a * c + d * c
  BY <1>1
<1>3. a * c \in Nat /\ d * c \in Nat
  BY <1>1
<1> QED BY <1>2, <1>3

(* A step that leaves the counters alone.                                  *)
LEMMA CountersAlone ==
  ASSUME Bounds, UNCHANGED type,
         tpriv'.num_urbs = tpriv.num_urbs, tpriv'.num_retired = tpriv.num_retired,
         tpriv'.iso_packet_offset = tpriv.iso_packet_offset,
         itransfer'.transferred = itransfer.transferred,
         tpriv'.urbs => tpriv.urbs, holder' = "submit" => holder = "submit"
  PROVE  Bounds'
BY DEF Bounds, num

(* A new transfer has neither data nor URBs retired.                       *)
LEMMA StartsBounded ==
  ASSUME TypeInv, Bounds,
         \/ \E k \in 1 .. MaxUrbs :
              \/ \E ty \in {"BULK", "INTERRUPT"} : submit_bulk_transfer(k, ty)
              \/ submit_iso_transfer(k)
         \/ submit_control_transfer
  PROVE  Bounds'
<1>0. /\ tpriv \in PrivType /\ MaxUrbs \in Nat /\ UrbLength \in Nat
      /\ tpriv.num_retired <= MaxUrbs /\ tpriv.iso_packet_offset <= MaxUrbs
  BY CounterTypes DEF Bounds
<1>1. itransfer'.transferred = 0
  <2>1. \E ty : SubmitTransfer(ty)
    BY DEF submit_bulk_transfer, submit_iso_transfer, submit_control_transfer
  <2> QED BY <2>1 DEF SubmitTransfer
<1>2. ASSUME NEW k \in 1 .. MaxUrbs,
             \/ \E ty \in {"BULK", "INTERRUPT"} : submit_bulk_transfer(k, ty)
             \/ submit_iso_transfer(k)
      PROVE  Bounds'
  <2>1. /\ tpriv'.num_urbs = k /\ tpriv'.num_retired = 0
        /\ tpriv'.iso_packet_offset \in {0, tpriv.iso_packet_offset}
        /\ type' = "ISO" => tpriv'.iso_packet_offset = 0
    BY <1>0, <1>2 DEF submit_bulk_transfer, submit_iso_transfer, SubmitTransfer, PrivType
  <2>2. 0 <= k * UrbLength /\ 0 * UrbLength = 0
    BY <1>0
  <2> QED BY <2>1, <2>2, <1>0, <1>1 DEF Bounds, num
<1>3. CASE submit_control_transfer
  <2>1. /\ tpriv'.num_urbs = 1 /\ tpriv'.num_retired = tpriv.num_retired
        /\ tpriv'.iso_packet_offset = tpriv.iso_packet_offset /\ type' = "CONTROL"
    BY <1>0, <1>3 DEF submit_control_transfer, SubmitTransfer, PrivType
  <2>2. 0 <= 1 * UrbLength
    BY <1>0
  <2> QED BY <2>1, <2>2, <1>0, <1>1 DEF Bounds, num
<1> QED BY <1>2, <1>3

(* URBs that are refused count as retired.                                 *)
LEMMA RefusalsBounded ==
  ASSUME IInv, Bounds, SubmitCutShort \/ SubmitLaterUrbFails \/ SubmitIsoUrbFails
  PROVE  Bounds'
<1>0. /\ tpriv \in PrivType /\ MaxUrbs \in Nat /\ UrbLength \in Nat /\ num = tpriv.num_urbs
      /\ num \in Nat /\ num <= MaxUrbs /\ tpriv.iso_packet_offset \in Nat
  BY CounterTypes DEF IInv
<1>1. holder = "submit" /\ type # "CONTROL" /\ itransfer' = itransfer /\ type' = type
      /\ holder' # "submit"
  BY DEF IInv, Actions, SubmitCutShort, SubmitLaterUrbFails, SubmitIsoUrbFails, Bulk,
     StartDiscard
<1>2. /\ tpriv.num_retired = 0 /\ itransfer.transferred = 0
      /\ at \in Nat /\ at < num /\ tpriv.urbs
  BY <1>1 DEF IInv, TypeInv, Urbs, Phases, Ranges, Counted, Bounds
<1>3. /\ tpriv'.num_retired = num - at /\ tpriv'.num_urbs = num
      /\ tpriv'.iso_packet_offset = tpriv.iso_packet_offset /\ tpriv'.urbs = tpriv.urbs
  <2>1. tpriv.num_retired + (tpriv.num_urbs - at) = num - at /\ tpriv.num_urbs - at = num - at
    BY <1>0, <1>2
  <2>2. CASE SubmitIsoUrbFails
    BY <1>0, <2>1, <2>2 DEF SubmitIsoUrbFails, PrivType
  <2>3. CASE SubmitCutShort \/ SubmitLaterUrbFails
    <3>1. \E action : SubmitUrbFails(action)
      BY <2>3 DEF SubmitCutShort, SubmitLaterUrbFails
    <3> QED BY <1>0, <2>1, <3>1 DEF SubmitUrbFails, PrivType
  <2> QED BY <2>2, <2>3
<1>4. num - at \in Nat /\ num - at <= num /\ num' = num
  BY <1>0, <1>2, <1>3 DEF num
<1>5. 0 <= (num - at) * UrbLength /\ 0 <= num * UrbLength
  BY <1>0, <1>4
<1>6. type = "ISO" => tpriv.iso_packet_offset = 0
  BY <1>0, <1>2 DEF Bounds
<1>7. tpriv.iso_packet_offset <= MaxUrbs
  BY DEF Bounds
<1> QED BY <1>0, <1>1, <1>2, <1>3, <1>4, <1>5, <1>6, <1>7 DEF Bounds

(* There is room for the URB that is reaped, and for its data.             *)
LEMMA RoomForUrb ==
  ASSUME IInv, Bounds, ~EarlyStalls, ~UnplugInCancel, Reapable, TakeUrb
  PROVE  /\ length \in Nat /\ length <= UrbLength
         /\ tpriv.urbs
         /\ type # "CONTROL" =>
              /\ Retired \in Nat /\ Retired <= num
              /\ itransfer.transferred + length <= Retired * UrbLength
              /\ Retired * UrbLength <= num * UrbLength
         /\ type = "CONTROL" => itransfer.transferred + length <= num * UrbLength
<1>0. /\ tpriv \in PrivType /\ MaxUrbs \in Nat /\ UrbLength \in Nat /\ num = tpriv.num_urbs
      /\ num \in Nat /\ num > 0 /\ num <= MaxUrbs /\ tpriv.num_retired \in Nat
      /\ itransfer.transferred \in Nat
  BY CounterTypes, NumType DEF IInv
<1>1. length \in Nat /\ length <= UrbLength
  BY ReapFacts, <1>0 DEF IInv, TypeInv, UrbType, length
<1>2. tpriv.urbs
  BY ReapFacts
<1>3. ASSUME type # "CONTROL"
      PROVE  /\ Retired \in Nat /\ Retired <= num
             /\ itransfer.transferred + length <= Retired * UrbLength
             /\ Retired * UrbLength <= num * UrbLength
  <2>0. finished # << >> /\ reaped < num /\ TypeInv /\ Queue
        /\ tpriv.num_retired = Cardinality(RetiredUrbs)
    BY <1>3, ReapFacts
  <2>1. PICK S \in SUBSET (0 .. num - 1) : Cardinality(S) = tpriv.num_retired + 1
    <3> DEFINE S == RetiredUrbs \cup {reaped}
    <3>1. reaped \in 0 .. num - 1 /\ reaped \notin RetiredUrbs
          /\ RetiredUrbs \in SUBSET (0 .. num - 1)
      BY <2>0, ReapFacts, <1>0 DEF RetiredUrbs
    <3>2. IsFiniteSet(RetiredUrbs)
      BY <3>1, <1>0, CountLemma
    <3>3. Cardinality(S) = tpriv.num_retired + 1
      BY <3>1, <3>2, <2>0, FS_AddElement
    <3>4. S \in SUBSET (0 .. num - 1)
      BY <3>1
    <3> QED BY <3>3, <3>4
  <2>2. Retired \in Nat /\ Retired <= num
    BY <2>1, <1>0, CountLemma DEF Retired
  <2>3. Retired * UrbLength = tpriv.num_retired * UrbLength + UrbLength
    BY <1>0 DEF Retired
  <2>4. itransfer.transferred <= tpriv.num_retired * UrbLength
        /\ tpriv.num_retired * UrbLength \in Nat
    BY <1>0, <1>2, <1>3 DEF Bounds
  <2>5. Retired * UrbLength <= num * UrbLength
    BY <2>2, <1>0, MoreRoom
  <2> HIDE DEF Retired
  <2>6. itransfer.transferred + length <= Retired * UrbLength
    BY <2>3, <2>4, <1>0, <1>1
  <2> QED BY <2>2, <2>5, <2>6
<1>4. ASSUME type = "CONTROL"
      PROVE  itransfer.transferred + length <= num * UrbLength
  <2>1. itransfer.transferred = 0
    BY <1>2, <1>4 DEF Bounds
  <2>2. 1 * UrbLength <= num * UrbLength /\ 1 * UrbLength = UrbLength
    BY <1>0, MoreRoom
  <2>3. num * UrbLength \in Nat
    BY <1>0
  <2> QED BY <2>1, <2>2, <2>3, <1>0, <1>1
<1> QED BY <1>1, <1>2, <1>3, <1>4

(* Reaping counts the URB once, and its data once.                         *)
LEMMA ReapsBounded ==
  ASSUME IInv, Bounds, ~EarlyStalls, ~UnplugInCancel,
         ReapAbnormal \/ ReapOk \/ ReapFailed
  PROVE  Bounds'
<1>0. Reapable /\ TakeUrb /\ AddData /\ type' = type /\ type # "CONTROL" /\ type # "ISO"
  BY DEF ReapAbnormal, ReapOk, ReapFailed, Bulk
<1>1. /\ tpriv \in PrivType /\ itransfer \in TransferType
      /\ tpriv.iso_packet_offset \in Nat /\ UrbLength \in Nat /\ MaxUrbs \in Nat
      /\ num \in Nat /\ num <= MaxUrbs /\ num = tpriv.num_urbs
      /\ itransfer.transferred \in Nat
  BY CounterTypes DEF IInv
<1>2. /\ length \in Nat /\ length <= UrbLength /\ Retired \in Nat /\ Retired <= num
      /\ itransfer.transferred + length <= Retired * UrbLength
      /\ Retired * UrbLength <= num * UrbLength
  BY <1>0, RoomForUrb
<1>3. \E action, result : Complete(action, result) \/ KeepReaping(action, result)
  BY DEF ReapAbnormal, ReapOk, ReapFailed, CancelRemaining
<1>4. /\ tpriv'.num_retired = Retired /\ tpriv'.num_urbs = num
      /\ tpriv'.iso_packet_offset = tpriv.iso_packet_offset
  <2> HIDE DEF Retired
  <2> QED BY <1>1, <1>3 DEF Complete, KeepReaping, PrivType
<1>5. itransfer'.transferred = itransfer.transferred + length
  BY <1>0, <1>1 DEF AddData, TransferType
<1>6. holder' # "submit"
  BY <1>0 DEF ReapAbnormal, ReapOk, ReapFailed, CancelRemaining, Complete,
     StartDiscard, Reapable, KeepReaping
<1>7. num' = num /\ tpriv.iso_packet_offset <= MaxUrbs
  BY <1>1, <1>4 DEF num, Bounds
<1> HIDE DEF Retired
<1>8. Retired <= MaxUrbs /\ Retired * UrbLength \in Nat /\ num * UrbLength \in Nat
  BY <1>1, <1>2
<1>9. itransfer.transferred + length <= num * UrbLength
  BY <1>1, <1>2, <1>8
<1> QED BY <1>0, <1>2, <1>4, <1>5, <1>6, <1>7, <1>8, <1>9 DEF Bounds

(* So does the handler of isochronous URBs, which counts packets instead.  *)
LEMMA ReapIsoBounded ==
  ASSUME IInv, Bounds, ~EarlyStalls, ~UnplugInCancel, ReapIso
  PROVE  Bounds'
<1>0. Reapable /\ TakeUrb /\ type' = type /\ type = "ISO" /\ itransfer' = itransfer
      /\ holder' = holder /\ holder = "none"
  BY DEF ReapIso, Reapable
<1>1. /\ tpriv \in PrivType /\ tpriv.iso_packet_offset \in Nat /\ tpriv.num_retired \in Nat
      /\ UrbLength \in Nat /\ MaxUrbs \in Nat /\ itransfer.transferred \in Nat
      /\ num \in Nat /\ num <= MaxUrbs /\ num = tpriv.num_urbs
  BY CounterTypes DEF IInv
<1>2. /\ length \in Nat /\ Retired \in Nat /\ Retired <= num /\ tpriv.urbs
      /\ itransfer.transferred + length <= Retired * UrbLength
  BY <1>0, RoomForUrb
<1>3. /\ tpriv'.num_retired = Retired /\ tpriv'.num_urbs = num
      /\ tpriv'.iso_packet_offset = tpriv.iso_packet_offset + 1
  <2> HIDE DEF Retired
  <2> QED BY <1>1 DEF ReapIso, PrivType
<1>4. num' = num /\ tpriv.iso_packet_offset <= tpriv.num_retired
      /\ itransfer.transferred <= num * UrbLength
  BY <1>0, <1>1, <1>2, <1>3 DEF num, Bounds
<1>5. tpriv.iso_packet_offset + 1 <= Retired
  BY <1>1, <1>4 DEF Retired
<1> HIDE DEF Retired
<1>6. Retired <= MaxUrbs /\ Retired * UrbLength \in Nat /\ tpriv.iso_packet_offset + 1 <= MaxUrbs
  BY <1>1, <1>2, <1>5
<1>7. itransfer.transferred <= Retired * UrbLength
  BY <1>1, <1>2, <1>6
<1> QED BY <1>0, <1>2, <1>3, <1>4, <1>5, <1>6, <1>7 DEF Bounds

(* A control transfer has one URB.                                         *)
LEMMA ReapControlBounded ==
  ASSUME IInv, Bounds, ~EarlyStalls, ~UnplugInCancel, ReapControl
  PROVE  Bounds'
<1>0. Reapable /\ TakeUrb /\ AddData /\ type' = type /\ type = "CONTROL"
      /\ holder' = holder /\ holder = "none"
  BY DEF ReapControl, Reapable
<1>1. tpriv \in PrivType /\ itransfer \in TransferType
  BY CounterTypes DEF IInv
<1>2. /\ tpriv'.urbs = FALSE /\ tpriv'.num_urbs = tpriv.num_urbs
      /\ tpriv'.num_retired = tpriv.num_retired
      /\ tpriv'.iso_packet_offset = tpriv.iso_packet_offset
  BY <1>1 DEF ReapControl, PrivType
<1>3. itransfer'.transferred = itransfer.transferred + length
  BY <1>0, <1>1 DEF AddData, TransferType
<1>4. itransfer.transferred + length <= num * UrbLength
  BY <1>0, RoomForUrb
<1> QED BY <1>0, <1>2, <1>3, <1>4 DEF Bounds, num

(* Every step keeps the bounds.                                            *)
LEMMA BoundsKept ==
  ASSUME ~EarlyStalls, ~UnplugInCancel, IInv, Bounds, [Next]_vars
  PROVE  Bounds'
<1>0. TypeInv /\ tpriv \in PrivType /\ itransfer \in TransferType
  BY CounterTypes DEF IInv
<1>1. CASE SubmitUrb \/ SubmitFirstUrbFails \/ Submitted
  <2>1. /\ type' = type /\ tpriv'.num_urbs = tpriv.num_urbs
        /\ tpriv'.num_retired = tpriv.num_retired
        /\ tpriv'.iso_packet_offset = tpriv.iso_packet_offset
        /\ itransfer'.transferred = itransfer.transferred
        /\ tpriv'.urbs => tpriv.urbs
        /\ holder' = "submit" => holder = "submit"
    BY <1>0, <1>1 DEF SubmitUrb, SubmitFirstUrbFails, Submitted, PrivType, TransferType
  <2> QED BY <2>1, CountersAlone
<1>2. CASE Discard \/ Cancel
  <2>1. /\ type' = type /\ tpriv'.num_urbs = tpriv.num_urbs
        /\ tpriv'.num_retired = tpriv.num_retired
        /\ tpriv'.iso_packet_offset = tpriv.iso_packet_offset
        /\ itransfer'.transferred = itransfer.transferred
        /\ tpriv'.urbs => tpriv.urbs
    BY <1>0, <1>2 DEF Discard, DiscardPending, DiscardNotFound, DiscardNoDevice, Cancel,
       CancelTransfer, CancelDone, PrivType, TransferType
  <2>2. holder' = "submit" => holder = "submit"
    BY <1>2 DEF Discard, DiscardPending, DiscardNotFound, DiscardNoDevice, Cancel,
       CancelTransfer, CancelDone, StartDiscard, NextDiscard, AfterDiscard, DiscardLoop
  <2> QED BY <2>1, <2>2, CountersAlone
<1>3. CASE Report \/ HandleDisconnect
  <2>1. /\ type' = type /\ tpriv'.num_urbs = tpriv.num_urbs
        /\ tpriv'.num_retired = tpriv.num_retired
        /\ tpriv'.iso_packet_offset = tpriv.iso_packet_offset
        /\ itransfer'.transferred = itransfer.transferred
        /\ tpriv'.urbs => tpriv.urbs
        /\ holder' = "submit" => holder = "submit"
    BY <1>0, <1>3 DEF Report, HandleDisconnect, PrivType, TransferType
  <2> QED BY <2>1, CountersAlone
<1>4. CASE Kernel \/ UNCHANGED vars
  <2>1. type' = type /\ tpriv' = tpriv /\ itransfer' = itransfer /\ holder' = holder
    BY <1>4 DEF Kernel, Unplug, UrbFinishes, UrbFinishesShort, UrbFails, UrbOverflows,
       UrbCut, UrbGone, vars
  <2> QED BY <2>1, CountersAlone
<1>5. CASE Submit
  BY <1>0, <1>1, <1>5, StartsBounded, RefusalsBounded DEF Submit
<1>6. CASE Reap
  BY <1>3, <1>6, ReapsBounded, ReapIsoBounded, ReapControlBounded DEF Reap
<1> QED BY <1>2, <1>4, <1>5, <1>6 DEF Next

(* A step that retires an URB gives a reason that is known; the others     *)
(* leave the reasons alone.                                                *)
LEMMA ReasonsKept ==
  ASSUME IInv, Reasons, [Next]_vars
  PROVE  Reasons'
<1> DEFINE Known == {"OK", "EREMOTEIO", "ENOENT", "ECONNRESET", "ESHUTDOWN"} \cup Failures
<1>0. urb \in [Urbs -> UrbType] /\ finished \in Seq(Urbs)
  BY DEF IInv, TypeInv
<1>1. ASSUME urb' = urb PROVE Reasons'
  BY <1>1 DEF Reasons
<1>2. ASSUME urb' = [u \in Urbs |-> NoUrb] PROVE Reasons'
  BY <1>2 DEF Reasons, NoUrb
<1>3. ASSUME NEW u \in Urbs, NEW why \in Known, NEW k, Retire(u, why, k)
      PROVE  Reasons'
  BY <1>0, <1>3 DEF Reasons, Retire
<1>4. ASSUME NEW u, NEW s, urb' = [urb EXCEPT ![u].state = s]
      PROVE  Reasons'
  BY <1>0, <1>4 DEF Reasons, UrbType
<1>5. CASE Submit
  <2>1. CASE SubmitUrb
    BY <2>1, <1>4 DEF SubmitUrb
  <2>2. CASE ~SubmitUrb
    BY <1>5, <2>2, <1>1, <1>2 DEF Submit, submit_bulk_transfer, submit_iso_transfer,
       submit_control_transfer, SubmitTransfer, SubmitFirstUrbFails, SubmitCutShort,
       SubmitLaterUrbFails, SubmitIsoUrbFails, Submitted, kernel
  <2> QED BY <2>1, <2>2
<1>6. CASE Discard
  <2>1. CASE DiscardPending
    <3>1. PICK n \in PartialLengths(at) : Retire(at, "ENOENT", n)
      BY <2>1 DEF DiscardPending
    <3>2. at \in Urbs
      BY DEF IInv, TypeInv
    <3> QED BY <3>1, <3>2, <1>3
  <2>2. CASE DiscardNotFound \/ DiscardNoDevice
    BY <2>2, <1>1 DEF DiscardNotFound, DiscardNoDevice, kernel
  <2> QED BY <1>6, <2>1, <2>2 DEF Discard
<1>7. CASE Cancel
  BY <1>7, <1>1 DEF Cancel, CancelTransfer, CancelDone, kernel
<1>8. CASE Reap
  <2>1. CASE TakeUrb
    BY <2>1, <1>4 DEF TakeUrb
  <2>2. CASE ~TakeUrb
    BY <1>8, <2>2, <1>1 DEF Reap, ReapAbnormal, ReapOk, ReapFailed, ReapIso, ReapControl,
       Report, HandleDisconnect, kernel
  <2> QED BY <2>1, <2>2
<1>9. CASE Kernel
  <2>1. CASE Unplug
    BY <2>1, <1>1 DEF Unplug
  <2>2. CASE ~Unplug
    <3>1. PICK u \in Urbs : \E why \in Known : \E k : Retire(u, why, k)
      BY <1>9, <2>2 DEF Kernel, UrbFinishes, UrbFinishesShort, UrbFails, UrbOverflows,
         UrbCut, UrbGone
    <3> QED BY <3>1, <1>3
  <2> QED BY <2>1, <2>2
<1>10. CASE UNCHANGED vars
  BY <1>10, <1>1 DEF vars, kernel
<1> QED BY <1>5, <1>6, <1>7, <1>8, <1>9, <1>10 DEF Next

(* The queue holds each URB once, so it has no more than there are.        *)
LEMMA QueueBounded ==
  ASSUME TypeInv, Queue
  PROVE  Len(finished) <= MaxUrbs
<1> DEFINE l == Len(finished)
<1>0. l \in Nat /\ MaxUrbs \in Nat /\ finished \in [1 .. l -> Urbs]
  BY MaxUrbsAssumption DEF TypeInv
<1>1. \A i, j \in 1 .. l : finished[i] = finished[j] => i = j
  BY DEF Queue
<1>2. IsInjective(finished) /\ finished \in Injection(1 .. l, Urbs)
  BY <1>0, <1>1 DEF Injection, IsInjective
<1>3. /\ IsFiniteSet(1 .. l) /\ Cardinality(1 .. l) = l
      /\ IsFiniteSet(Urbs) /\ Cardinality(Urbs) = MaxUrbs
  <2>1. /\ IsFiniteSet(1 .. l) /\ Cardinality(1 .. l) = IF 1 > l THEN 0 ELSE l - 1 + 1
        /\ IsFiniteSet(Urbs)
        /\ Cardinality(Urbs) = IF 0 > MaxUrbs - 1 THEN 0 ELSE MaxUrbs - 1 - 0 + 1
    BY <1>0, FS_Interval DEF Urbs
  <2> QED BY <2>1, <1>0, MaxUrbsAssumption
<1>4. Cardinality(1 .. l) <= Cardinality(Urbs)
  BY <1>2, <1>3, FS_Injection
<1> QED BY <1>3, <1>4

(* The invariant with the bounds and the reasons has the types.            *)
LEMMA TypesFollow ==
  ASSUME IInv, Bounds, Reasons
  PROVE  TypeOK
<1>1. TypeInv /\ Queue
  BY DEF IInv
<1>2. /\ tpriv \in PrivType /\ itransfer \in TransferType /\ num = tpriv.num_urbs
      /\ tpriv.num_retired \in Nat /\ tpriv.iso_packet_offset \in Nat
      /\ itransfer.transferred \in Nat /\ num \in Nat /\ num <= MaxUrbs
      /\ MaxUrbs \in Nat /\ UrbLength \in Nat
  BY <1>1, CounterTypes
<1>3. tpriv.num_retired \in 0 .. MaxUrbs /\ tpriv.iso_packet_offset \in 0 .. MaxUrbs
      /\ (type # "CONTROL" => tpriv.num_retired <= tpriv.num_urbs)
  BY <1>2 DEF Bounds
<1>4. /\ itransfer.transferred <= tpriv.num_urbs * UrbLength
      /\ itransfer.transferred \in 0 .. MaxUrbs * UrbLength
  <2>1. num * UrbLength <= MaxUrbs * UrbLength /\ num * UrbLength \in Nat
        /\ MaxUrbs * UrbLength \in Nat
    BY <1>2, MoreRoom
  <2> QED BY <2>1, <1>2 DEF Bounds
<1>5. tpriv \in [urbs : BOOLEAN, num_urbs : 1 .. MaxUrbs, num_retired : 0 .. MaxUrbs,
                 iso_packet_offset : 0 .. MaxUrbs,
                 reap_action : {"NORMAL", "SUBMIT_FAILED", "CANCELLED",
                                "COMPLETED_EARLY", "ERROR"},
                 reap_status : Results]
  BY <1>2, <1>3 DEF PrivType
<1>6. itransfer \in [in_flight : BOOLEAN, cancelling : BOOLEAN,
                     transferred : 0 .. MaxUrbs * UrbLength]
  BY <1>2, <1>4 DEF TransferType
<1>7. urb \in [Urbs -> [state : {"none", "pending", "done", "reaped"},
                        status : {"OK", "EREMOTEIO", "ENOENT", "ECONNRESET",
                                  "ESHUTDOWN"} \cup Failures,
                        actual_length : 0 .. UrbLength]]
  BY <1>1 DEF TypeInv, UrbType, Reasons
<1>8. finished \in Seq(Urbs) /\ Len(finished) <= MaxUrbs
  BY <1>1, QueueBounded DEF TypeInv
<1> QED BY <1>1, <1>3, <1>4, <1>5, <1>6, <1>7, <1>8 DEF TypeOK, TypeInv

(* What the counters of struct linux_transfer_priv and the length reported *)
(* may be: num_retired never passes num_urbs, and `transferred' never      *)
(* passes the buffer of the transfer.                                      *)
THEOREM AlwaysTyped ==
  ASSUME ~EarlyStalls, ~UnplugInCancel
  PROVE  Safety => []TypeOK
<1>1. Init => IInv /\ Bounds /\ Reasons
  <2>1. Init => Bounds /\ Reasons
    BY MaxUrbsAssumption, UrbLengthAssumption DEF Init, Bounds, Reasons, num, NoUrb
  <2> QED BY <2>1, InitEstablishes
<1>2. (IInv /\ Bounds /\ Reasons) /\ [Next]_vars => (IInv /\ Bounds /\ Reasons)'
  BY NextKeeps, BoundsKept, ReasonsKept
<1>3. IInv /\ Bounds /\ Reasons => TypeOK
  BY TypesFollow
<1> QED BY <1>1, <1>2, <1>3, PTL DEF Safety

-----------------------------------------------------------------------------
(* The initial states are those of AsyncTransfer.                          *)
LEMMA InitMaps == Init => Transfer!Init
BY DEF Init, Transfer!Init

(* A step of the backend is a step of AsyncTransfer or none: what was      *)
(* accepted is reported once, and after it was accepted.                   *)
LEMMA NextMaps ==
  ASSUME ~EarlyStalls, ~UnplugInCancel, IInv, [Next]_vars
  PROVE  [Transfer!Next]_(Transfer!vars)
<1> DEFINE Same == itransfer'.in_flight = itransfer.in_flight /\ UNCHANGED <<cancelled, status>>
<1>0. Same => UNCHANGED Transfer!vars
  BY DEF Transfer!vars
<1>t. itransfer \in TransferType
      /\ cancelled \in BOOLEAN
  BY DEF IInv, TypeInv, PrivType, TransferType, UrbType, UrbStatuses
<1>1. CASE Submit
  <2>1. CASE Submitted
    <3>1. ~itransfer.in_flight /\ itransfer'.in_flight = TRUE /\ cancelled' = FALSE /\ status' = "none"
      BY <2>1, <1>t DEF Submitted, IInv, Phases
    <3> QED BY <3>1 DEF Transfer!Next, Transfer!Submit
  <2>2. CASE ~Submitted
    <3>1. Same
      <4>1. ASSUME NEW ty, SubmitTransfer(ty) PROVE Same
        BY <4>1, <1>t DEF SubmitTransfer, TransferType
      <4>2. CASE SubmitUrb \/ SubmitFirstUrbFails \/ SubmitCutShort
                 \/ SubmitLaterUrbFails \/ SubmitIsoUrbFails
        BY <4>2 DEF SubmitUrb, SubmitFirstUrbFails, SubmitCutShort, SubmitLaterUrbFails,
           SubmitIsoUrbFails, history
      <4>3. CASE \E k \in 1 .. MaxUrbs :
                   \/ \E ty \in {"BULK", "INTERRUPT"} : submit_bulk_transfer(k, ty)
                   \/ submit_iso_transfer(k)
        BY <4>1, <4>3 DEF submit_bulk_transfer, submit_iso_transfer
      <4>4. CASE submit_control_transfer
        BY <4>1, <4>4 DEF submit_control_transfer
      <4> QED BY <4>2, <4>3, <4>4, <1>1, <2>2 DEF Submit
    <3> QED BY <3>1, <1>0
  <2> QED BY <2>1, <2>2
<1>2. CASE Discard
  BY <1>2, <1>0 DEF Discard, DiscardPending, DiscardNotFound, DiscardNoDevice, history
<1>3. CASE Cancel
  <2>1. CASE CancelTransfer
    BY <2>1, <1>0, <1>t DEF CancelTransfer, history, TransferType
  <2>2. CASE CancelDone
    <3>1. itransfer.in_flight /\ ~cancelled /\ itransfer' = itransfer /\ status' = status
      BY <2>2 DEF CancelDone, IInv, Phases
    <3>2. cancelled' = TRUE \/ cancelled' = cancelled
      BY <2>2 DEF CancelDone
    <3>3. CASE cancelled' = TRUE
      BY <3>1, <3>3 DEF Transfer!Next, Transfer!Cancel
    <3>4. CASE cancelled' = cancelled
      BY <3>1, <3>4, <1>0
    <3> QED BY <3>2, <3>3, <3>4
  <2> QED BY <1>3, <2>1, <2>2 DEF Cancel
<1>4. CASE Reap
  <2>1. CASE Report
    <3>1. itransfer.in_flight /\ itransfer'.in_flight = FALSE /\ cancelled' = cancelled
          /\ status' = IF tpriv.reap_action = "CANCELLED" THEN "CANCELLED" ELSE tpriv.reap_status
      BY <2>1, <1>t DEF Report, IInv, Phases
    <3>2. status' \in Transfer!Statuses /\ (cancelled <=> status' = "CANCELLED")
          /\ status' # "TIMED_OUT"
      BY <2>1, <3>1 DEF Report, IInv, Cancels, TypeInv, PrivType, TransferType,
         UrbType, UrbStatuses, Results, Transfer!Statuses
    <3>3. Transfer!Report(status')
      BY <3>1, <3>2 DEF Transfer!Report
    <3> QED BY <3>2, <3>3 DEF Transfer!Next
  <2>2. CASE HandleDisconnect
    <3>1. CASE itransfer.in_flight
      <4>1. itransfer'.in_flight = FALSE /\ cancelled' = cancelled /\ status' = "NO_DEVICE"
        BY <2>2, <3>1, <1>t DEF HandleDisconnect, TransferType
      <4>2. Transfer!Report("NO_DEVICE")
        BY <3>1, <4>1 DEF Transfer!Report
      <4> QED BY <4>2 DEF Transfer!Next, Transfer!Statuses
    <3>2. CASE ~itransfer.in_flight
      BY <2>2, <3>2, <1>0 DEF HandleDisconnect
    <3> QED BY <3>1, <3>2
  <2>3. CASE ~Report /\ ~HandleDisconnect
    BY <1>4, <2>3, <1>0, <1>t DEF Reap, ReapAbnormal, ReapOk, ReapFailed, ReapIso,
       ReapControl, AddData, TransferType
  <2> QED BY <2>1, <2>2, <2>3
<1>5. CASE Kernel
  BY <1>5, <1>0 DEF Kernel, Unplug, UrbFinishes, UrbFinishesShort, UrbFails,
     UrbOverflows, UrbCut,
     UrbGone, history
<1>6. CASE UNCHANGED vars
  BY <1>6, <1>0 DEF vars, history
<1> QED BY <1>1, <1>2, <1>3, <1>4, <1>5, <1>6 DEF Next

(* The Linux backend implements AsyncTransfer: a submission that succeeds  *)
(* leads to one callback, whose status says cancelled only if the          *)
(* cancellation was granted (op_submit_transfer, op_cancel_transfer,       *)
(* usbi_handle_transfer_completion).                                       *)
THEOREM TransferImplemented ==
  ASSUME ~EarlyStalls, ~UnplugInCancel
  PROVE  Safety => ImplementsTransfer
<1>1. IInv /\ [Next]_vars => [Transfer!Next]_(Transfer!vars)
  BY NextMaps
<1> QED BY <1>1, InitMaps, Invariant, PTL DEF Safety, ImplementsTransfer, Transfer!Spec
=============================================================================

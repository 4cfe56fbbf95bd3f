---------------------------- MODULE DevicesProofs ---------------------------
(***************************************************************************)
(* Theorems about Devices, for any ports, devices, threads and callbacks.  *)
(*                                                                         *)
(* Core is about the devices.  hotplug_lock orders what is done to the     *)
(* list (Lock, Stages); a departure is in one place only, so that the      *)
(* reference of the list is handed on to one message (Once); an arrival    *)
(* that is queued is of a device that is listed or whose departure is      *)
(* queued behind it (Arrived); and each action gains, loses or moves one   *)
(* reference of a device at most.                                          *)
(*                                                                         *)
(* Talk is about the callbacks: what is registered, and that each callback *)
(* knows of a device, or will hear of it, exactly if the list has it.  It  *)
(* supposes that callbacks are registered by the thread that handles       *)
(* events (OneLoop): another one uses the new callback without a lock in   *)
(* libusb_hotplug_register_callback.                                       *)
(*                                                                         *)
(* Account is about the list and the ports: what is plugged in is listed,  *)
(* or on its way to the list - in a uevent, in the scan, to be enumerated  *)
(* - or missed; and what is listed is plugged in, or its removal is on its *)
(* way, or missed.                                                         *)
(***************************************************************************)
EXTENDS Devices, FiniteSetTheorems, TLAPS

(* What may be in a message; the last is that of a deregistration.         *)
Messages == [event : {"ARRIVED", "LEFT"}, device : Devs] \cup {Message("none", None)}

(* What each variable may be.                                              *)
Types ==
  /\ refcnt \in [Devs -> Nat] /\ alive \subseteq Devs /\ usb_devs \subseteq Devs
  /\ parent_dev \in [Devs -> Devs \cup {None}]
  /\ fresh \in Devs \cup {None} /\ leaving \in Devs \cup {None}
  /\ leave \in {"none", "found", "unlisted"}
  /\ hotplug_lock \in Actors \cup {None} /\ monitor \in {"off", "poll", "reading", "ended"}
  /\ ctx \in {"new", "active", "scanning", "scanned", "ready", "exiting", "gone"}
  /\ pc \in [Threads -> {"idle", "init", "exit", "poll", "polling", "copy", "enumerate",
                         "openGone", "openFails", "events"}]
  /\ held \in [Threads -> SUBSET Devs] /\ handle \in [Threads -> Devs \cup {None}]
  /\ drop \in [Actors -> Devs \cup {None}]
  /\ new_callback \in [Threads -> Callbacks \cup {None}]
  /\ handler \in Threads \cup {None} /\ message \in Messages \cup {None}
  /\ hotplug_msgs \in Seq(Messages)
  /\ visit \subseteq Callbacks /\ needs_free \subseteq Callbacks
  /\ cb \in [Callbacks -> {"unused", "listed", "freed"}]
  /\ told \in [Callbacks -> SUBSET Devs] /\ unannounced \subseteq Devs

(* libusb_init and libusb_exit.                                            *)
Starting == ctx \in {"new", "active", "scanning", "scanned"}
Ending   == ctx \in {"exiting", "gone"}

(* Who holds linux_hotplug_lock, and what is done under it: the message    *)
(* under way is read by its holder, and a device leaves when nothing else  *)
(* is under way.                                                           *)
Lock ==
  /\ Busy => hotplug_lock # None
  /\ hotplug_lock = Monitor <=> monitor = "reading"
  /\ \A t \in Threads : hotplug_lock = t <=>
       pc[t] \in {"polling", "openFails"} \/ (pc[t] = "init" /\ ctx = "scanning")
  /\ leaving # None <=> leave # "none"
  /\ leaving # None => jobs = <<>> /\ fresh = None /\ drop[hotplug_lock] = None
  /\ leave = "found" => leaving \in usb_devs
  /\ fresh # None => fresh \in usb_devs

(* What can happen while the context starts and ends: one thread           *)
(* initialises it, nobody has registered a callback, and when it ends the  *)
(* monitor and the scan are over.                                          *)
Stages ==
  /\ Starting => /\ hotplug_msgs = <<>> /\ message = None
                 /\ \A t \in Threads : pc[t] \in {"idle", "init"}
                 /\ \A k \in Callbacks : cb[k] = "unused"
  /\ Ending => /\ ~Busy
               /\ \A t \in Threads : pc[t] \in {"idle", "exit"}
               /\ \A k \in Callbacks : cb[k] # "listed"
  /\ ctx = "new" => \A t \in Threads : pc[t] # "init"
  /\ ctx = "new" => monitor = "off"
  /\ \A t \in Threads : pc[t] = "init" => Starting
  /\ \A t \in Threads : pc[t] = "exit" => Ending
  /\ \A t, u \in Threads : pc[t] = "init" /\ pc[u] = "init" => t = u

(* When a thread is about to give up a reference or has a list of          *)
(* devices, and which thread handles the message.                          *)
Steps ==
  /\ monitor # "reading" => drop[Monitor] = None
  /\ \A t \in Threads :
       pc[t] \in {"poll", "copy", "enumerate", "openGone", "events"} => drop[t] = None
  /\ \A t \in Threads : pc[t] \in {"poll", "polling", "copy"} => held[t] = {}
  /\ handler = None <=> message = None
  /\ \A t \in Threads : handler = t <=> pc[t] = "events"

(* Short names: a message of the queue, and a device that is off the list  *)
(* and not announced.                                                      *)
Msg(i) == hotplug_msgs[i]
Queued(e, d) == \E i \in 1 .. Len(hotplug_msgs) : Msg(i) = Message(e, d)
Unlisted(d) == d = leaving /\ leave = "unlisted"

(* A departure is in one place only: being announced, queued, told, or     *)
(* never to be told; and a device on the list has not departed.            *)
Once ==
  \A d \in Devs :
    /\ d \in usb_devs => ~Departed(d)
    /\ Unlisted(d) => ~Queued("LEFT", d) /\ message # Message("LEFT", d) /\ d \notin unannounced
    /\ Queued("LEFT", d) => message # Message("LEFT", d) /\ d \notin unannounced
    /\ message = Message("LEFT", d) => d \notin unannounced
    /\ \A i, j \in 1 .. Len(hotplug_msgs) :
         Msg(i) = Message("LEFT", d) /\ Msg(j) = Message("LEFT", d) => i = j

(* An arrival that is queued is of a device that is on the list, or        *)
(* leaves it now, or whose departure is queued behind it.                  *)
Arrived ==
  \A d \in Devs :
    /\ \A i \in 1 .. Len(hotplug_msgs) : Msg(i) = Message("ARRIVED", d) =>
         \/ d \in usb_devs \/ Unlisted(d)
         \/ \E j \in i + 1 .. Len(hotplug_msgs) : Msg(j) = Message("LEFT", d)
    /\ message = Message("ARRIVED", d) => d \in usb_devs \/ Unlisted(d) \/ Queued("LEFT", d)

(* A callback being registered is listed, nobody else registers it, and    *)
(* it has been told of nothing.                                            *)
Registration ==
  /\ \A t \in Threads : new_callback[t] # None =>
       /\ t \in Registrars /\ pc[t] \in {"poll", "polling", "copy", "enumerate"}
       /\ cb[new_callback[t]] = "listed" /\ new_callback[t] \notin needs_free
       /\ told[new_callback[t]] = {}
  /\ \A t \in Threads : pc[t] = "enumerate" => new_callback[t] # None
  /\ \A t \in Threads : pc[t] = "events" => t \in EventThreads
  /\ \A t, u \in Threads : new_callback[t] = new_callback[u] /\ new_callback[t] # None => t = u
  /\ \A k \in Callbacks : cb[k] = "unused" => k \notin needs_free /\ told[k] = {}
  /\ \A k \in visit : cb[k] # "unused"

(* The callback is to hear of the arrival of the device, of its            *)
(* departure.                                                              *)
Coming(k, d) == \/ Queued("ARRIVED", d) \/ fresh = d
                \/ message = Message("ARRIVED", d) /\ k \in visit
Going(k, d)  == \/ Queued("LEFT", d) \/ Unlisted(d)
                \/ message = Message("LEFT", d) /\ k \in visit

(* The callback is registered, and has been told of all that was there.    *)
Listens(k) == cb[k] = "listed" /\ k \notin needs_free /\ ~Registering(k)

(* What a callback was told of is on the list or on its way out; one that  *)
(* enumerates was told of all that is listed or will be.                   *)
Knows ==
  /\ \A k \in Callbacks : Listens(k) =>
       /\ \A d \in told[k] : d \in usb_devs \/ Going(k, d)
       /\ k \in Enumerating /\ ctx = "ready" =>
            \A d \in usb_devs : d \in told[k] \/ Coming(k, d)
  /\ \A t \in Threads : pc[t] = "enumerate" =>
       /\ \A d \in held[t] : d \in usb_devs \/ Queued("LEFT", d) \/ Unlisted(d)
       /\ \A d \in usb_devs : d \in held[t] \/ Queued("ARRIVED", d) \/ fresh = d

(* The reference a device is made with: of the list or of a message.       *)
Initial(d) == d \in usb_devs \/ Departed(d)

(* The invariant of the devices, and that of the callbacks.                *)
Core == Types /\ Lock /\ Stages /\ Steps /\ Once /\ Arrived /\ CountsMatchReferences

(* Callbacks are registered by the thread that handles events.             *)
OneLoop == \A t \in EventThreads, u \in Registrars : t = u
Talk == Registration /\ Knows

-----------------------------------------------------------------------------
(* The references to a device, one kind at a time.                         *)
LEMMA Referenced ==
  ASSUME NEW d, NEW z
  PROVE  z \in References(d) <=>
           \/ z = <<"initial", None>> /\ Initial(d)
           \/ z = <<"leaving", None>> /\ d = leaving
           \/ \E t \in Threads : z = <<"held", t>> /\ d \in held[t]
           \/ \E t \in Threads : z = <<"handle", t>> /\ d = handle[t]
           \/ \E a \in Actors : z = <<"drop", a>> /\ d = drop[a]
           \/ \E c \in alive : z = <<"child", c>> /\ d = parent_dev[c]
<1> QED BY DEF References, Initial

(* The same after a step.                                                  *)
LEMMA ReferencedNext ==
  ASSUME NEW d, NEW z
  PROVE  z \in References(d)' <=>
           \/ z = <<"initial", None>> /\ Initial(d)'
           \/ z = <<"leaving", None>> /\ d = leaving'
           \/ \E t \in Threads : z = <<"held", t>> /\ d \in held'[t]
           \/ \E t \in Threads : z = <<"handle", t>> /\ d = handle'[t]
           \/ \E a \in Actors : z = <<"drop", a>> /\ d = drop'[a]
           \/ \E c \in alive' : z = <<"child", c>> /\ d = parent_dev'[c]
<1> QED BY DEF References, Initial

(* They can be counted.                                                    *)
LEMMA FiniteReferences ==
  ASSUME alive \subseteq Devs, NEW d
  PROVE  IsFiniteSet(References(d))
<1>1. IsFiniteSet(Threads) /\ IsFiniteSet(Actors) /\ IsFiniteSet(alive)
  BY FiniteAssumption, FS_AddElement, FS_Subset, FS_Singleton, FS_Union DEF Actors
<1> DEFINE A == {<<"initial", None>> : x \in {y \in {d} : d \in usb_devs \/ Departed(d)}}
           B == {<<"leaving", None>> : x \in {y \in {d} : d = leaving}}
           C == {<<"held", t>> : t \in {u \in Threads : d \in held[u]}}
           D == {<<"handle", t>> : t \in {u \in Threads : d = handle[u]}}
           E == {<<"drop", a>> : a \in {b \in Actors : d = drop[b]}}
           F == {<<"child", c>> : c \in {e \in alive : d = parent_dev[e]}}
<1>2. IsFiniteSet(A) /\ IsFiniteSet(B)
  <2>1. A \subseteq {<<"initial", None>>} /\ B \subseteq {<<"leaving", None>>}
    OBVIOUS
  <2> HIDE DEF A, B
  <2> QED BY <2>1, FS_Singleton, FS_Subset
<1>3. IsFiniteSet(C) /\ IsFiniteSet(D)
  <2>1. C \subseteq {"held"} \X Threads /\ D \subseteq {"handle"} \X Threads
    OBVIOUS
  <2> HIDE DEF C, D
  <2> QED BY <2>1, <1>1, FS_Singleton, FS_Product, FS_Subset
<1>4. IsFiniteSet(E) /\ IsFiniteSet(F)
  <2>1. E \subseteq {"drop"} \X Actors /\ F \subseteq {"child"} \X alive
    OBVIOUS
  <2> HIDE DEF E, F
  <2> QED BY <2>1, <1>1, FS_Singleton, FS_Product, FS_Subset
<1>5. References(d) = A \cup B \cup C \cup D \cup E \cup F
  BY DEF References
<1> HIDE DEF A, B, C, D, E, F
<1> QED BY <1>2, <1>3, <1>4, <1>5, FS_Union

(* Nothing refers to the device that did not, and all that did does.       *)
Same(d) == /\ Initial(d)' <=> Initial(d)
           /\ d = leaving' <=> d = leaving
           /\ \A t \in Threads : d \in held'[t] <=> d \in held[t]
           /\ \A t \in Threads : d = handle'[t] <=> d = handle[t]
           /\ \A a \in Actors : d = drop'[a] <=> d = drop[a]
           /\ \A c \in Devs :
                c \in alive' /\ d = parent_dev'[c] <=> c \in alive /\ d = parent_dev[c]

(* Then the references are the same.                                       *)
LEMMA SameReferences ==
  ASSUME alive \subseteq Devs, alive' \subseteq Devs, NEW d, Same(d)
  PROVE  References(d)' = References(d)
<1>1. ASSUME NEW z PROVE z \in References(d)' <=> z \in References(d)
  BY Referenced, ReferencedNext DEF Same
<1> QED BY <1>1

(* One more reference counts one more,                                     *)
LEMMA Gained ==
  ASSUME alive \subseteq Devs, NEW d, NEW x, x \notin References(d),
         References(d)' = References(d) \cup {x}
  PROVE  /\ Cardinality(References(d))' = Cardinality(References(d)) + 1
         /\ Cardinality(References(d)) \in Nat
<1> QED BY FiniteReferences, FS_AddElement, FS_CardinalityType

(* one that is gone one less,                                              *)
LEMMA Lost ==
  ASSUME alive \subseteq Devs, NEW d, NEW x, x \in References(d),
         References(d)' = References(d) \ {x}
  PROVE  /\ Cardinality(References(d))' = Cardinality(References(d)) - 1
         /\ Cardinality(References(d)) \in Nat
<1> QED BY FiniteReferences, FS_RemoveElement, FS_CardinalityType

(* and one handed on is still one.                                         *)
LEMMA Moved ==
  ASSUME alive \subseteq Devs, NEW d, NEW x, NEW y,
         x \in References(d), y \notin References(d),
         References(d)' = (References(d) \ {x}) \cup {y}
  PROVE  Cardinality(References(d))' = Cardinality(References(d))
<1>1. /\ IsFiniteSet(References(d)) /\ IsFiniteSet(References(d) \ {x})
      /\ Cardinality(References(d)) \in Nat
      /\ Cardinality(References(d) \ {x}) = Cardinality(References(d)) - 1
  BY FiniteReferences, FS_RemoveElement, FS_CardinalityType
<1>2. y \notin References(d) \ {x}
  OBVIOUS
<1>3. Cardinality((References(d) \ {x}) \cup {y}) = Cardinality(References(d) \ {x}) + 1
  BY <1>1, <1>2, FS_AddElement
<1> QED BY <1>1, <1>3

(* A step that is not about references leaves the counts right.            *)
LEMMA CountsAlone ==
  ASSUME CountsMatchReferences, alive \subseteq Devs, UNCHANGED <<alive, refcnt>>,
         \A d \in Devs : Same(d)
  PROVE  CountsMatchReferences'
<1>1. \A d \in Devs : References(d)' = References(d)
  BY SameReferences
<1> QED BY <1>1 DEF CountsMatchReferences

-----------------------------------------------------------------------------
(* A device has departed in one of four ways.                              *)
LEMMA DepartedIs ==
  ASSUME Types, NEW d
  PROVE  Departed(d) <=> \/ Unlisted(d) \/ Queued("LEFT", d)
                         \/ message = Message("LEFT", d) \/ d \in unannounced
<1> QED BY DEF Types, Departed, Unlisted, Queued, Msg

(* What leaves the parts of the invariant alone.                           *)
LEMMA OnceAlone ==
  ASSUME Once, UNCHANGED <<usb_devs, leaving, leave, hotplug_msgs, message,
  unannounced>>
  PROVE  Once'
<1> QED BY DEF Once, Departed, Unlisted, Queued, Msg

(* The same for the arrivals,                                              *)
LEMMA ArrivedAlone ==
  ASSUME Arrived, UNCHANGED <<usb_devs, leaving, leave, hotplug_msgs, message>>
  PROVE  Arrived'
<1> QED BY DEF Arrived, Unlisted, Queued, Msg

(* for the reference of the list,                                          *)
LEMMA InitialAlone ==
  ASSUME UNCHANGED <<usb_devs, leaving, leave, hotplug_msgs, message, unannounced>>
  PROVE  \A d : Initial(d)' <=> Initial(d)
<1> QED BY DEF Initial, Departed

(* for all references,                                                     *)
LEMMA ReferencesAlone ==
  ASSUME CountsMatchReferences, alive \subseteq Devs,
         UNCHANGED <<alive, refcnt, usb_devs, leaving, leave, hotplug_msgs, message,
         unannounced,
                     held, handle, drop, parent_dev>>
  PROVE  CountsMatchReferences'
<1>1. \A d : Initial(d)' <=> Initial(d)
  BY InitialAlone
<1> QED BY <1>1, CountsAlone DEF Same

(* for the registrations,                                                  *)
LEMMA RegistrationAlone ==
  ASSUME Registration, UNCHANGED <<new_callback, pc, cb, needs_free, told, visit>>
  PROVE  Registration'
<1> QED BY DEF Registration

(* and for what callbacks know,                                            *)
LEMMA KnowsAlone ==
  ASSUME Knows, UNCHANGED <<usb_devs, hotplug_msgs, message, fresh, visit, cb,
  needs_free,
                            new_callback, told>>,
         \A d : Unlisted(d)' <=> Unlisted(d),
         ctx' = "ready" => ctx = "ready",
         \A t \in Threads : pc'[t] = "enumerate" => pc[t] = "enumerate" /\ held'[t] = held[t]
  PROVE  Knows'
<1>1. /\ \A k : Listens(k)' <=> Listens(k)
      /\ \A e, d : Queued(e, d)' <=> Queued(e, d)
  BY DEF Listens, Registering, Queued, Msg, Message
<1>2. \A k, d : (Coming(k, d)' <=> Coming(k, d)) /\ (Going(k, d)' <=> Going(k, d))
  BY <1>1 DEF Coming, Going, Message
<1> QED BY <1>1, <1>2 DEF Knows

(* also if no device is leaving the list,                                  *)
LEMMA KnowsAsIs ==
  ASSUME Knows, UNCHANGED <<usb_devs, hotplug_msgs, message, fresh, leaving, leave,
  visit, cb,
                            needs_free, new_callback, told>>,
         ctx' = "ready" => ctx = "ready",
         \A t \in Threads : pc'[t] = "enumerate" => pc[t] = "enumerate" /\ held'[t] = held[t]
  PROVE  Knows'
<1>1. \A d : Unlisted(d)' <=> Unlisted(d)
  BY DEF Unlisted
<1> QED BY <1>1, KnowsAlone

(* and for both if no thread moves.                                        *)
LEMMA TalkAlone ==
  ASSUME Talk, UNCHANGED <<usb_devs, hotplug_msgs, message, fresh, leaving, leave,
  visit, cb,
                           needs_free, new_callback, told, pc>>,
         ctx' = "ready" => ctx = "ready",
         \A t \in Threads : pc[t] = "enumerate" => held'[t] = held[t]
  PROVE  Talk'
<1>1. Registration'
  BY RegistrationAlone DEF Talk
<1>2. Knows'
  BY KnowsAsIs DEF Talk
<1> QED BY <1>1, <1>2 DEF Talk

(* usbi_hotplug_notification: one message more at the end.                 *)
LEMMA Appended ==
  ASSUME Types, NEW m \in Messages, hotplug_msgs' = Append(hotplug_msgs, m)
  PROVE  /\ hotplug_msgs' \in Seq(Messages) /\ Len(hotplug_msgs') = Len(hotplug_msgs) + 1
         /\ Len(hotplug_msgs) \in Nat
         /\ \A i \in 1 .. Len(hotplug_msgs) : i \in 1 .. Len(hotplug_msgs') /\ Msg(i)' = Msg(i)
         /\ hotplug_msgs'[Len(hotplug_msgs')] = m
         /\ \A i \in 1 .. Len(hotplug_msgs') : i \in 1 .. Len(hotplug_msgs) \/ i = Len(hotplug_msgs')
         /\ \A e, d : Queued(e, d)' <=> Queued(e, d) \/ m = Message(e, d)
<1>1. /\ hotplug_msgs \in Seq(Messages) /\ hotplug_msgs' \in Seq(Messages)
      /\ Len(hotplug_msgs') = Len(hotplug_msgs) + 1 /\ Len(hotplug_msgs) \in Nat
      /\ \A i \in 1 .. Len(hotplug_msgs) : hotplug_msgs'[i] = hotplug_msgs[i]
      /\ hotplug_msgs'[Len(hotplug_msgs) + 1] = m
  BY DEF Types
<1>2. \A i \in 1 .. Len(hotplug_msgs') : i \in 1 .. Len(hotplug_msgs) \/ i = Len(hotplug_msgs')
  BY <1>1
<1>3. \A i \in 1 .. Len(hotplug_msgs) : i \in 1 .. Len(hotplug_msgs')
  BY <1>1
<1>4. Len(hotplug_msgs') \in 1 .. Len(hotplug_msgs') /\ hotplug_msgs'[Len(hotplug_msgs')] = m
  BY <1>1
<1>5. ASSUME NEW e, NEW d PROVE Queued(e, d)' <=> Queued(e, d) \/ m = Message(e, d)
  BY <1>1, <1>2, <1>3, <1>4 DEF Queued, Msg, Message
<1>6. \A e, d : Queued(e, d)' <=> Queued(e, d) \/ m = Message(e, d)
  BY <1>5
<1>7. /\ \A i \in 1 .. Len(hotplug_msgs) : i \in 1 .. Len(hotplug_msgs') /\ Msg(i)' = Msg(i)
      /\ hotplug_msgs'[Len(hotplug_msgs')] = m
  BY <1>1, <1>3, <1>4 DEF Msg
<1> QED BY <1>1, <1>2, <1>6, <1>7

(* The first message taken: the others move up.                            *)
LEMMA HeadTaken ==
  ASSUME Types, hotplug_msgs # << >>, hotplug_msgs' = Tail(hotplug_msgs)
  PROVE  /\ Head(hotplug_msgs) \in Messages /\ Head(hotplug_msgs) = Msg(1)
         /\ hotplug_msgs' \in Seq(Messages) /\ Len(hotplug_msgs') = Len(hotplug_msgs) - 1
         /\ Len(hotplug_msgs) \in Nat
         /\ \A i \in 1 .. Len(hotplug_msgs') : i + 1 \in 1 .. Len(hotplug_msgs) /\ Msg(i)' = Msg(i + 1)
         /\ \A i \in 1 .. Len(hotplug_msgs) :
              i = 1 \/ (i - 1 \in 1 .. Len(hotplug_msgs') /\ Msg(i) = Msg(i - 1)')
         /\ \A e, d : Queued(e, d) <=> Head(hotplug_msgs) = Message(e, d) \/ Queued(e, d)'
<1>1. /\ hotplug_msgs \in Seq(Messages) /\ hotplug_msgs' \in Seq(Messages)
      /\ Len(hotplug_msgs') = Len(hotplug_msgs) - 1 /\ Len(hotplug_msgs) \in Nat
      /\ Len(hotplug_msgs) > 0
      /\ Head(hotplug_msgs) \in Messages /\ Head(hotplug_msgs) = hotplug_msgs[1]
      /\ \A i \in 1 .. Len(hotplug_msgs') : hotplug_msgs'[i] = hotplug_msgs[i + 1]
  BY DEF Types
<1>2. \A i \in 1 .. Len(hotplug_msgs') : i + 1 \in 1 .. Len(hotplug_msgs)
  BY <1>1
<1>3. \A i \in 1 .. Len(hotplug_msgs) :
        i = 1 \/ (i - 1 \in 1 .. Len(hotplug_msgs') /\ hotplug_msgs[i] = hotplug_msgs'[i - 1])
  <2> SUFFICES ASSUME NEW i \in 1 .. Len(hotplug_msgs), i # 1
               PROVE  i - 1 \in 1 .. Len(hotplug_msgs') /\ hotplug_msgs[i] = hotplug_msgs'[i - 1]
    OBVIOUS
  <2>1. i - 1 \in 1 .. Len(hotplug_msgs') /\ i - 1 + 1 = i
    BY <1>1
  <2> QED BY <2>1, <1>1
<1>4. ASSUME NEW e, NEW d PROVE Queued(e, d) <=> Head(hotplug_msgs) = Message(e, d) \/ Queued(e, d)'
  <2>1. 1 \in 1 .. Len(hotplug_msgs)
    BY <1>1
  <2>2. ASSUME Queued(e, d) PROVE Head(hotplug_msgs) = Message(e, d) \/ Queued(e, d)'
    <3>1. PICK i \in 1 .. Len(hotplug_msgs) : hotplug_msgs[i] = Message(e, d)
      BY <2>2 DEF Queued, Msg
    <3> QED BY <3>1, <1>1, <1>3 DEF Queued, Msg, Message
  <2>3. ASSUME Queued(e, d)' PROVE Queued(e, d)
    <3>1. PICK i \in 1 .. Len(hotplug_msgs') : hotplug_msgs'[i] = Message(e, d)
      BY <2>3 DEF Queued, Msg, Message
    <3> QED BY <3>1, <1>1, <1>2 DEF Queued, Msg
  <2> QED BY <1>1, <2>1, <2>2, <2>3 DEF Queued, Msg
<1> QED BY <1>1, <1>2, <1>3, <1>4 DEF Msg

(* Enumerate, for the device and the hub it finds.                         *)
Enumerates(h, d, hub) ==
  /\ hotplug_lock = h /\ fresh = None /\ jobs # <<>>
  /\ alive' = alive \cup {d} /\ usb_devs' = usb_devs \cup {d} /\ fresh' = d
  /\ parent_dev' = [parent_dev EXCEPT ![d] = hub] /\ Ref({d, hub} \ {None})
  /\ UNCHANGED <<hotplug_lock, leaving, leave, monitor, context, hotplug_msgs, threads,
                 drop, events, unannounced>>

(* StartDisconnect, for a device that is listed or for none.               *)
Disconnects ==
  \/ UNCHANGED <<leaving, leave, refcnt>>
  \/ ctx \notin {"new", "exiting", "gone"} /\ leaving' \in usb_devs /\ leave' = "found"
     /\ Ref({leaving'})

(* ReadMessage: a port to enumerate, or a device to disconnect, or neither. *)
Reads ==
  \/ jobs' = jobs /\ Disconnects
  \/ /\ ctx \notin {"new", "exiting", "gone"} /\ jobs' # <<>>
     /\ UNCHANGED <<leaving, leave, refcnt>>

(* The actions that are composed of others, as one of these:               *)
(* linux_enumerate_device,                                                 *)
LEMMA EnumerateIs ==
  ASSUME NEW h, Enumerate(h)
  PROVE  \E d \in Devs \ alive, hub \in usb_devs \cup {None} : Enumerates(h, d, hub)
<1> QED BY DEF Enumerate, Enumerates, Hubs

(* linux_device_disconnected,                                              *)
LEMMA StartDisconnectIs ==
  ASSUME NEW x, StartDisconnect(x)
  PROVE  Disconnects
<1> QED BY DEF StartDisconnect, Disconnects, Found, Active

(* and linux_netlink_read_message.                                         *)
LEMMA ReadMessageIs ==
  ASSUME ReadMessage
  PROVE  Reads
<1>1. CASE Head(uevents).action = "add"
  <2>1. UNCHANGED <<leaving, leave, refcnt>>
    BY <1>1 DEF ReadMessage
  <2>2. CASE Active
    <3>1. jobs' = <<Job(Head(uevents).port, Head(uevents).address)>>
      BY <1>1, <2>2 DEF ReadMessage
    <3> QED BY <2>1, <2>2, <3>1 DEF Reads, Active
  <2>3. CASE ~Active
    BY <1>1, <2>1, <2>3 DEF ReadMessage, Reads, Disconnects
  <2> QED BY <2>2, <2>3
<1>2. CASE Head(uevents).action = "remove"
  BY <1>2, StartDisconnectIs DEF ReadMessage, Reads, Disconnects
<1>3. CASE Head(uevents).action \notin {"add", "remove"}
  BY <1>3 DEF ReadMessage, Reads, Disconnects
<1> QED BY <1>1, <1>2, <1>3

(* What is referred to is alive.                                           *)
LEMMA ReferredIsAlive ==
  ASSUME Types, CountsMatchReferences, NEW d \in Devs, NEW x \in References(d)
  PROVE  d \in alive /\ refcnt[d] > 0
<1>1. IsFiniteSet(References(d)) /\ References(d) # {}
  BY FiniteReferences DEF Types
<1>2. Cardinality(References(d)) # 0 /\ Cardinality(References(d)) \in Nat
  BY <1>1, FS_EmptySet, FS_CardinalityType
<1> QED BY <1>2 DEF CountsMatchReferences

(* So a device on the list or in a message is alive,                       *)
LEMMA InitialIsAlive ==
  ASSUME Types, CountsMatchReferences, NEW d \in Devs, Initial(d)
  PROVE  d \in alive
<1>1. <<"initial", None>> \in References(d)
  BY Referenced
<1> QED BY <1>1, ReferredIsAlive

(* and one that was freed has no references.                               *)
LEMMA DeadIsNotReferred ==
  ASSUME Types, CountsMatchReferences, NEW d \in Devs, d \notin alive
  PROVE  References(d) = {} /\ refcnt[d] = 0
<1>1. \A x \in References(d) : FALSE
  BY ReferredIsAlive
<1> QED BY <1>1 DEF CountsMatchReferences, Types

(* DepartedIs after a step.                                                *)
LEMMA DepartedIsNext ==
  ASSUME hotplug_msgs' \in Seq(Messages), NEW d
  PROVE  Departed(d)' <=> \/ Unlisted(d)' \/ Queued("LEFT", d)'
                          \/ message' = Message("LEFT", d) \/ d \in unannounced'
<1>1. DOMAIN hotplug_msgs' = 1 .. Len(hotplug_msgs')
  OBVIOUS
<1>2. Queued("LEFT", d)' <=> \E i \in 1 .. Len(hotplug_msgs') : hotplug_msgs'[i] = Message("LEFT", d)
  BY DEF Queued, Msg, Message
<1>3. Departed(d)' <=> \/ Unlisted(d)'
                       \/ \E i \in DOMAIN hotplug_msgs' : hotplug_msgs'[i] = Message("LEFT", d)
                       \/ message' = Message("LEFT", d) \/ d \in unannounced'
  BY DEF Departed, Unlisted, Message
<1> QED BY <1>1, <1>2, <1>3

(* A message tells its event and its device.                               *)
LEMMA MessagesDiffer ==
  ASSUME NEW e, NEW d, NEW g, NEW c
  PROVE  /\ Message(e, d) = Message(g, c) <=> e = g /\ d = c
         /\ Message(e, d).event = e /\ Message(e, d).device = d
<1> QED BY DEF Message

(* None is no message, and the messages are those of Messages.             *)
LEMMA NoMessage ==
  /\ \A e \in {"ARRIVED", "LEFT", "none"}, d \in Devs \cup {None} : Message(e, d) # None
  /\ None \notin Messages
  /\ \A m \in Messages : m = Message(m.event, m.device)
  /\ \A m \in Messages : \/ m.event \in {"ARRIVED", "LEFT"} /\ m.device \in Devs
                         \/ m.event = "none" /\ m.device = None
  /\ \A d \in Devs : Message("ARRIVED", d) \in Messages /\ Message("LEFT", d) \in Messages
  /\ Message("none", None) \in Messages
<1>1. \A e \in {"ARRIVED", "LEFT", "none"}, d \in Devs \cup {None} : Message(e, d) # None
  BY NoneAssumption DEF Message
<1>2. None \notin Messages
  <2>1. \A m \in Messages : m \in [event : {"ARRIVED", "LEFT", "none"}, device : Devs \cup {None}]
    BY DEF Messages, Message
  <2> QED BY <2>1, NoneAssumption
<1>3. \A m \in Messages : m = Message(m.event, m.device)
  BY DEF Messages, Message
<1>4. \A m \in Messages : \/ m.event \in {"ARRIVED", "LEFT"} /\ m.device \in Devs
                          \/ m.event = "none" /\ m.device = None
  <2> TAKE m \in Messages
  <2>1. CASE m \in [event : {"ARRIVED", "LEFT"}, device : Devs]
    BY <2>1
  <2>2. CASE m = Message("none", None)
    BY <2>2 DEF Message
  <2> QED BY <2>1, <2>2 DEF Messages
<1>5. /\ \A d \in Devs : Message("ARRIVED", d) \in Messages /\ Message("LEFT", d) \in Messages
      /\ Message("none", None) \in Messages
  BY DEF Messages, Message
<1> QED BY <1>1, <1>2, <1>3, <1>4, <1>5

-----------------------------------------------------------------------------
(* How the references to a device change in a step.                        *)
Kept(d)     == /\ \A z : z \in References(d)' <=> z \in References(d)
               /\ refcnt'[d] = refcnt[d] /\ (d \in alive' <=> d \in alive)
Gains(d, x) == /\ x \notin References(d)
               /\ \A z : z \in References(d)' <=> z \in References(d) \/ z = x
               /\ refcnt'[d] = refcnt[d] + 1 /\ d \in alive'
Loses(d, x) == /\ x \in References(d)
               /\ \A z : z \in References(d)' <=> z \in References(d) /\ z # x
               /\ refcnt'[d] = refcnt[d] - 1 /\ (d \in alive' <=> refcnt[d] # 1)
Moves(d, x, y) == /\ x \in References(d) /\ y \notin References(d)
                  /\ \A z : z \in References(d)' <=> (z \in References(d) /\ z # x) \/ z = y
                  /\ refcnt'[d] = refcnt[d] /\ (d \in alive' <=> d \in alive)

(* If each device gains, loses or moves one reference, or keeps all, and   *)
(* its count follows, the counts are right.                                *)
LEMMA CountsChange ==
  ASSUME Types, CountsMatchReferences,
         \A d \in Devs : \/ Kept(d) \/ \E x : Gains(d, x) \/ Loses(d, x)
                         \/ \E x, y : Moves(d, x, y)
  PROVE  CountsMatchReferences'
<1> SUFFICES ASSUME NEW d \in Devs
             PROVE  refcnt'[d] = Cardinality(References(d)') /\ (d \in alive' <=> refcnt'[d] > 0)
  BY DEF CountsMatchReferences
<1>1. /\ refcnt[d] = Cardinality(References(d)) /\ (d \in alive <=> refcnt[d] > 0)
      /\ refcnt[d] \in Nat /\ alive \subseteq Devs
  BY DEF CountsMatchReferences, Types
<1>2. CASE Kept(d)
  <2>1. References(d)' = References(d)
    BY <1>2 DEF Kept
  <2> QED BY <2>1, <1>1, <1>2 DEF Kept
<1>3. ASSUME NEW x, Gains(d, x) PROVE refcnt'[d] = Cardinality(References(d)') /\ refcnt'[d] > 0
  <2>1. References(d)' = References(d) \cup {x}
    BY <1>3 DEF Gains
  <2>2. Cardinality(References(d)') = Cardinality(References(d)) + 1
    BY <2>1, <1>1, <1>3, Gained DEF Gains
  <2> QED BY <2>2, <1>1, <1>3 DEF Gains
<1>4. ASSUME NEW x, Loses(d, x)
      PROVE  refcnt'[d] = Cardinality(References(d)') /\ (d \in alive' <=> refcnt'[d] > 0)
  <2>1. References(d)' = References(d) \ {x}
    BY <1>4 DEF Loses
  <2>2. Cardinality(References(d)') = Cardinality(References(d)) - 1
    BY <2>1, <1>1, <1>4, Lost DEF Loses
  <2>3. refcnt[d] > 0
    BY <1>4, ReferredIsAlive DEF Loses
  <2> QED BY <2>2, <2>3, <1>1, <1>4 DEF Loses
<1>5. ASSUME NEW x, NEW y, Moves(d, x, y)
      PROVE  refcnt'[d] = Cardinality(References(d)') /\ (d \in alive' <=> refcnt'[d] > 0)
  <2>1. References(d)' = (References(d) \ {x}) \cup {y}
    BY <1>5 DEF Moves
  <2>2. Cardinality(References(d)') = Cardinality(References(d))
    BY <2>1, <1>1, <1>5, Moved DEF Moves
  <2> QED BY <2>2, <1>1, <1>5 DEF Moves
<1> QED BY <1>2, <1>3, <1>4, <1>5 DEF Gains

(* A device nothing is different for.                                      *)
LEMMA KeptIfSame ==
  ASSUME NEW d, Same(d), alive \subseteq Devs, alive' \subseteq Devs,
         refcnt'[d] = refcnt[d], d \in alive' <=> d \in alive
  PROVE  Kept(d)
<1> QED BY SameReferences DEF Kept

(* libusb_ref_device adds one to each count.                               *)
LEMMA RefIs ==
  ASSUME Types, NEW ds, Ref(ds)
  PROVE  /\ refcnt' \in [Devs -> Nat]
         /\ \A d \in Devs : refcnt'[d] = IF d \in ds THEN refcnt[d] + 1 ELSE refcnt[d]
<1> QED BY DEF Types, Ref

(* A disconnection under way has a reference of its own.                   *)
LEMMA LeavingSet ==
  ASSUME Core, leaving = None, Disconnects,
         UNCHANGED <<alive, usb_devs, hotplug_msgs, message, unannounced, held,
         handle, drop,
                     parent_dev>>
  PROVE  /\ leaving' \in Devs \cup {None} /\ leave' \in {"none", "found"}
         /\ refcnt' \in [Devs -> Nat]
         /\ (leaving' # None <=> leave' = "found") /\ (leave' = "found" => leaving' \in usb_devs)
         /\ leaving' # None => ctx \notin {"new", "exiting", "gone"}
         /\ \A d : ~Unlisted(d) /\ ~Unlisted(d)'
         /\ Once' /\ Arrived' /\ CountsMatchReferences'
<1>1. Types /\ leave = "none" /\ usb_devs \subseteq Devs /\ None \notin usb_devs
  BY NoneAssumption DEF Core, Types, Lock
<1>2. CASE UNCHANGED <<leaving, leave, refcnt>>
  <2>1. Once' /\ Arrived' /\ CountsMatchReferences'
    BY <1>1, <1>2, OnceAlone, ArrivedAlone, ReferencesAlone DEF Core, Types
  <2> QED BY <2>1, <1>1, <1>2 DEF Types, Unlisted
<1>3. CASE /\ ctx \notin {"new", "exiting", "gone"} /\ leaving' \in usb_devs /\ leave' = "found"
           /\ Ref({leaving'})
  <2>1. /\ refcnt' \in [Devs -> Nat] /\ leaving' \in Devs
        /\ \A d \in Devs : refcnt'[d] = IF d = leaving' THEN refcnt[d] + 1 ELSE refcnt[d]
    BY <1>1, <1>3, RefIs
  <2>2. \A d : ~Unlisted(d) /\ ~Unlisted(d)' /\ (Departed(d)' <=> Departed(d))
    BY <1>1, <1>3 DEF Unlisted, Departed, Message
  <2>3. Once'
    BY <2>2, <1>1 DEF Core, Once, Queued, Msg, Message
  <2>4. Arrived'
    BY <2>2, <1>1 DEF Core, Arrived, Queued, Msg, Message
  <2>5. \A d : Initial(d)' <=> Initial(d)
    BY <2>2 DEF Initial
  <2>6. ASSUME NEW d \in Devs, d # leaving' PROVE Kept(d)
    <3>1. Same(d)
      BY <2>5, <2>6, <1>1, NoneAssumption DEF Same, Types
    <3> QED BY <3>1, <1>1, <2>1, <2>6, KeptIfSame DEF Types
  <2>7. ASSUME NEW d \in Devs, d = leaving' PROVE Gains(d, <<"leaving", None>>)
    <3>1. <<"leaving", None>> \notin References(d)
      BY NoneAssumption, Referenced
    <3>2. \A z : z \in References(d)' <=> z \in References(d) \/ z = <<"leaving", None>>
      BY <2>5, <2>7, NoneAssumption, Referenced, ReferencedNext
    <3>3. d \in alive
      BY <1>1, <1>3, <2>7, InitialIsAlive DEF Initial, Core
    <3> QED BY <3>1, <3>2, <3>3, <2>1, <2>7 DEF Gains
  <2>8. CountsMatchReferences'
    BY <2>6, <2>7, <1>1, CountsChange DEF Core
  <2> QED BY <2>1, <2>2, <2>3, <2>4, <2>8, <1>1, <1>3, NoneAssumption
<1> QED BY <1>2, <1>3 DEF Disconnects

(* Reading a uevent starts a scan of a port or a disconnection.            *)
LEMMA ReadsDisconnects ==
  ASSUME Reads
  PROVE  /\ Disconnects
         /\ jobs' # jobs /\ jobs' # <<>> => ctx \notin {"new", "exiting", "gone"}
         /\ jobs' # jobs => leaving' = leaving
<1> QED BY DEF Reads, Disconnects

(* A message that is not about a departure.                                *)
LEMMA SentKeeps ==
  ASSUME Core, NEW e \in {"ARRIVED", "none"}, NEW d, Message(e, d) \in Messages,
         hotplug_msgs' = Append(hotplug_msgs, Message(e, d)), e = "ARRIVED" => d \in usb_devs,
         UNCHANGED <<usb_devs, leaving, leave, message, unannounced>>
  PROVE  /\ hotplug_msgs' \in Seq(Messages)
         /\ \A c : Queued("LEFT", c)' <=> Queued("LEFT", c)
         /\ \A c : Queued("ARRIVED", c)' <=> Queued("ARRIVED", c) \/ (e = "ARRIVED" /\ c = d)
         /\ \A c : (Departed(c)' <=> Departed(c)) /\ (Unlisted(c)' <=> Unlisted(c))
         /\ Once' /\ Arrived'
<1>0. Types
  BY DEF Core
<1>1. /\ hotplug_msgs' \in Seq(Messages) /\ Len(hotplug_msgs') = Len(hotplug_msgs) + 1
      /\ Len(hotplug_msgs) \in Nat
      /\ \A i \in 1 .. Len(hotplug_msgs) : i \in 1 .. Len(hotplug_msgs') /\ Msg(i)' = Msg(i)
      /\ hotplug_msgs'[Len(hotplug_msgs')] = Message(e, d)
      /\ \A i \in 1 .. Len(hotplug_msgs') : i \in 1 .. Len(hotplug_msgs) \/ i = Len(hotplug_msgs')
      /\ \A g, c : Queued(g, c)' <=> Queued(g, c) \/ Message(e, d) = Message(g, c)
  BY <1>0, Appended
<1>2. /\ \A c : Queued("LEFT", c)' <=> Queued("LEFT", c)
      /\ \A c : Queued("ARRIVED", c)' <=> Queued("ARRIVED", c) \/ (e = "ARRIVED" /\ c = d)
  BY <1>1, MessagesDiffer
<1>3. \A c : Unlisted(c)' <=> Unlisted(c)
  BY DEF Unlisted
<1>4. \A c : Departed(c)' <=> Departed(c)
  BY <1>0, <1>1, <1>2, <1>3, DepartedIs, DepartedIsNext
<1>5. ASSUME NEW i \in 1 .. Len(hotplug_msgs'), NEW c, hotplug_msgs'[i] = Message("LEFT", c)
      PROVE  i \in 1 .. Len(hotplug_msgs) /\ Msg(i) = Message("LEFT", c)
  BY <1>1, <1>5, MessagesDiffer DEF Msg
<1>6. Once'
  <2>1. ASSUME NEW c \in Devs, NEW i \in 1 .. Len(hotplug_msgs'), NEW j \in 1 .. Len(hotplug_msgs'),
               hotplug_msgs'[i] = Message("LEFT", c), hotplug_msgs'[j] = Message("LEFT", c)
        PROVE  i = j
    BY <1>5, <2>1 DEF Core, Once
  <2>2. ASSUME NEW c \in Devs
        PROVE  /\ c \in usb_devs' => ~Departed(c)'
               /\ Unlisted(c)' => ~Queued("LEFT", c)' /\ message' # Message("LEFT", c)
                                  /\ c \notin unannounced'
               /\ Queued("LEFT", c)' => message' # Message("LEFT", c) /\ c \notin unannounced'
               /\ message' = Message("LEFT", c) => c \notin unannounced'
    BY <1>2, <1>3, <1>4 DEF Core, Once
  <2> QED BY <2>1, <2>2 DEF Once, Msg, Message
<1>7. Arrived'
  <2> SUFFICES ASSUME NEW c \in Devs
      PROVE  /\ \A i \in 1 .. Len(hotplug_msgs') : hotplug_msgs'[i] = Message("ARRIVED", c) =>
                  \/ c \in usb_devs \/ Unlisted(c)
                  \/ \E j \in i + 1 .. Len(hotplug_msgs') : hotplug_msgs'[j] = Message("LEFT", c)
             /\ message = Message("ARRIVED", c) => c \in usb_devs \/ Unlisted(c) \/ Queued("LEFT", c)'
    BY <1>3 DEF Arrived, Msg, Message
  <2>1. ASSUME NEW i \in 1 .. Len(hotplug_msgs'), hotplug_msgs'[i] = Message("ARRIVED", c)
        PROVE  \/ c \in usb_devs \/ Unlisted(c)
               \/ \E j \in i + 1 .. Len(hotplug_msgs') : hotplug_msgs'[j] = Message("LEFT", c)
    <3>1. CASE i = Len(hotplug_msgs')
      <4>1. e = "ARRIVED" /\ c = d
        BY <2>1, <3>1, <1>1, MessagesDiffer
      <4> QED BY <4>1
    <3>2. CASE i \in 1 .. Len(hotplug_msgs)
      <4>1. Msg(i) = Message("ARRIVED", c)
        BY <1>1, <2>1, <3>2 DEF Msg
      <4>2. \/ c \in usb_devs \/ Unlisted(c)
            \/ \E j \in i + 1 .. Len(hotplug_msgs) : Msg(j) = Message("LEFT", c)
        BY <4>1, <3>2 DEF Core, Arrived
      <4>3. ASSUME NEW j \in i + 1 .. Len(hotplug_msgs)
            PROVE  j \in i + 1 .. Len(hotplug_msgs') /\ hotplug_msgs'[j] = Msg(j)
        BY <1>1, <3>2 DEF Msg
      <4> QED BY <4>2, <4>3
    <3> QED BY <3>1, <3>2, <1>1
  <2> QED BY <2>1, <1>2 DEF Core, Arrived
<1> QED BY <1>1, <1>2, <1>3, <1>4, <1>6, <1>7

(* The first message is taken.                                             *)
LEMMA TakenKeeps ==
  ASSUME Core, hotplug_msgs # << >>, hotplug_msgs' = Tail(hotplug_msgs), message = None,
         NEW m, m = Head(hotplug_msgs)
  PROVE  /\ m \in Messages /\ hotplug_msgs' \in Seq(Messages)
         /\ \A e, c : Queued(e, c) <=> m = Message(e, c) \/ Queued(e, c)'
         /\ \A c \in Devs : m = Message("LEFT", c) => ~Queued("LEFT", c)'
         /\ \A c \in Devs : \A i, j \in 1 .. Len(hotplug_msgs') :
              hotplug_msgs'[i] = Message("LEFT", c) /\ hotplug_msgs'[j] = Message("LEFT", c) => i = j
         /\ \A c \in Devs : \A i \in 1 .. Len(hotplug_msgs') :
              hotplug_msgs'[i] = Message("ARRIVED", c) =>
                \/ c \in usb_devs \/ Unlisted(c)
                \/ \E j \in i + 1 .. Len(hotplug_msgs') : hotplug_msgs'[j] = Message("LEFT", c)
         /\ \A c \in Devs : m = Message("ARRIVED", c) =>
              c \in usb_devs \/ Unlisted(c) \/ Queued("LEFT", c)'
<1>0. Types
  BY DEF Core
<1>1. /\ m \in Messages /\ m = Msg(1) /\ hotplug_msgs' \in Seq(Messages)
      /\ Len(hotplug_msgs') = Len(hotplug_msgs) - 1 /\ Len(hotplug_msgs) \in Nat
      /\ \A i \in 1 .. Len(hotplug_msgs') : i + 1 \in 1 .. Len(hotplug_msgs) /\ Msg(i)' = Msg(i + 1)
      /\ \A i \in 1 .. Len(hotplug_msgs) :
           i = 1 \/ (i - 1 \in 1 .. Len(hotplug_msgs') /\ Msg(i) = Msg(i - 1)')
      /\ \A e, c : Queued(e, c) <=> m = Message(e, c) \/ Queued(e, c)'
  BY <1>0, HeadTaken
<1>2. 1 \in 1 .. Len(hotplug_msgs)
  <2>1. Len(hotplug_msgs) # 0
    BY <1>0 DEF Types
  <2> QED BY <2>1, <1>1
<1>3. ASSUME NEW c \in Devs, m = Message("LEFT", c) PROVE ~Queued("LEFT", c)'
  <2>1. ASSUME NEW i \in 1 .. Len(hotplug_msgs'), hotplug_msgs'[i] = Message("LEFT", c) PROVE FALSE
    <3>1. i + 1 \in 1 .. Len(hotplug_msgs) /\ Msg(i + 1) = Message("LEFT", c)
      BY <2>1, <1>1 DEF Msg
    <3>2. i + 1 = 1
      BY <3>1, <1>1, <1>2, <1>3 DEF Core, Once
    <3> QED BY <3>2, <1>1
  <2> QED BY <2>1 DEF Queued, Msg, Message
<1>4. ASSUME NEW c \in Devs, NEW i \in 1 .. Len(hotplug_msgs'), NEW j \in 1 .. Len(hotplug_msgs'),
             hotplug_msgs'[i] = Message("LEFT", c), hotplug_msgs'[j] = Message("LEFT", c)
      PROVE  i = j
  <2>1. /\ i + 1 \in 1 .. Len(hotplug_msgs) /\ Msg(i + 1) = Message("LEFT", c)
        /\ j + 1 \in 1 .. Len(hotplug_msgs) /\ Msg(j + 1) = Message("LEFT", c)
    BY <1>1, <1>4 DEF Msg
  <2>2. i + 1 = j + 1
    BY <2>1 DEF Core, Once
  <2> QED BY <2>2, <1>1
<1>5. ASSUME NEW c \in Devs, NEW k \in 1 .. Len(hotplug_msgs), Msg(k) = Message("ARRIVED", c)
      PROVE  \/ c \in usb_devs \/ Unlisted(c)
             \/ \E j \in k .. Len(hotplug_msgs') : hotplug_msgs'[j] = Message("LEFT", c)
  <2>1. \/ c \in usb_devs \/ Unlisted(c)
        \/ \E j \in k + 1 .. Len(hotplug_msgs) : Msg(j) = Message("LEFT", c)
    BY <1>5 DEF Core, Arrived
  <2>2. ASSUME NEW j \in k + 1 .. Len(hotplug_msgs)
        PROVE  j - 1 \in k .. Len(hotplug_msgs') /\ hotplug_msgs'[j - 1] = Msg(j)
    <3>1. j \in 1 .. Len(hotplug_msgs) /\ j # 1 /\ j - 1 \in k .. Len(hotplug_msgs')
      BY <1>1
    <3> QED BY <3>1, <1>1 DEF Msg
  <2> QED BY <2>1, <2>2
<1>6. ASSUME NEW c \in Devs, NEW i \in 1 .. Len(hotplug_msgs'),
             hotplug_msgs'[i] = Message("ARRIVED", c)
      PROVE  \/ c \in usb_devs \/ Unlisted(c)
             \/ \E j \in i + 1 .. Len(hotplug_msgs') : hotplug_msgs'[j] = Message("LEFT", c)
  <2>1. i + 1 \in 1 .. Len(hotplug_msgs) /\ Msg(i + 1) = Message("ARRIVED", c)
    BY <1>1, <1>6 DEF Msg
  <2> QED BY <2>1, <1>5
<1>7. ASSUME NEW c \in Devs, m = Message("ARRIVED", c)
      PROVE  c \in usb_devs \/ Unlisted(c) \/ Queued("LEFT", c)'
  <2>1. \/ c \in usb_devs \/ Unlisted(c)
        \/ \E j \in 1 .. Len(hotplug_msgs') : hotplug_msgs'[j] = Message("LEFT", c)
    BY <1>1, <1>2, <1>5, <1>7
  <2> QED BY <2>1 DEF Queued, Msg, Message
<1>8. /\ m \in Messages /\ hotplug_msgs' \in Seq(Messages)
      /\ \A e, c : Queued(e, c) <=> m = Message(e, c) \/ Queued(e, c)'
  BY <1>1
<1> QED BY <1>3, <1>4, <1>6, <1>7, <1>8

-----------------------------------------------------------------------------
(* The kernel plugs in and unplugs: the library has not seen it.  So is    *)
(* the end of the monitor thread.                                          *)
LEMMA NothingKeeps ==
  ASSUME Core, Kernel \/ MonitorEnds \/ UNCHANGED vars
  PROVE  Core' /\ (OneLoop /\ Talk => Talk')
<1>1. /\ UNCHANGED <<hotplug_lock, jobs, fresh, leaving, leave, ctx, usb_devs,
                     hotplug_msgs, alive, parent_dev, refcnt, pc, held, handle,
                     new_callback, drop, handler, message, visit, cb, needs_free, told,
                     unannounced>>
      /\ monitor' # monitor => monitor = "poll" /\ monitor' = "ended"
  BY DEF Kernel, PlugIn, Unplug, MonitorEnds, vars, kernel, work, context, devices, threads,
         events
<1>0. Types
  BY DEF Core
<1>2. Types'
  BY <1>1, <1>0 DEF Types
<1>3. Lock'
  BY <1>1 DEF Core, Lock, Busy
<1>4. Stages'
  BY <1>1 DEF Core, Stages, Starting, Ending, Busy
<1>5. Steps'
  BY <1>1 DEF Core, Steps
<1>6. Once'
  BY <1>1, OnceAlone DEF Core
<1>7. Arrived'
  BY <1>1, ArrivedAlone DEF Core
<1>8. CountsMatchReferences'
  BY <1>1, <1>0, ReferencesAlone DEF Core, Types
<1>9. ASSUME OneLoop, Talk PROVE Talk'
  BY <1>1, <1>0, <1>9, TalkAlone DEF Types
<1> QED BY <1>2, <1>3, <1>4, <1>5, <1>6, <1>7, <1>8, <1>9 DEF Core

(* linux_enumerate_device: the device is known already or cannot be read,  *)
(* or its hub comes first.                                                 *)
LEMMA EnumerateSkipsKeeps ==
  ASSUME Core, NEW h \in Actors,
         EnumerateSkips(h) \/ EnumerateFails(h) \/ EnumerateParent(h)
  PROVE  Core' /\ (OneLoop /\ Talk => Talk')
<1>1. /\ hotplug_lock = h /\ jobs # << >> /\ fresh = None
      /\ UNCHANGED <<hotplug_lock, fresh, leaving, leave, monitor, ctx, usb_devs,
                     hotplug_msgs, alive, parent_dev, refcnt, pc, held, handle,
                     new_callback, drop, handler, message, visit, cb, needs_free,
                     told, unannounced>>
  BY DEF EnumerateSkips, EnumerateFails, EnumerateParent, kernel, context, devices,
         threads, events
<1>0. Types
  BY DEF Core
<1>2. Types'
  BY <1>1, <1>0 DEF Types
<1>3. Lock'
  BY <1>1, <1>0, NoneAssumption, MonitorAssumption DEF Core, Lock, Types, Actors
<1>4. Stages'
  BY <1>1 DEF Core, Stages, Starting, Ending, Busy
<1>5. Steps'
  BY <1>1 DEF Core, Steps
<1>6. Once'
  BY <1>1, OnceAlone DEF Core
<1>7. Arrived'
  BY <1>1, ArrivedAlone DEF Core
<1>8. CountsMatchReferences'
  BY <1>1, <1>0, ReferencesAlone DEF Core, Types
<1>9. ASSUME OneLoop, Talk PROVE Talk'
  BY <1>1, <1>0, <1>9, TalkAlone DEF Types
<1> QED BY <1>2, <1>3, <1>4, <1>5, <1>6, <1>7, <1>8, <1>9 DEF Core

(* A device is made and listed, with a reference of its own and one to     *)
(* its hub.                                                                *)
LEMMA EnumerateKeeps ==
  ASSUME Core, NEW h \in Actors, NEW d \in Devs \ alive, NEW hub \in usb_devs \cup {None},
         Enumerates(h, d, hub)
  PROVE  Core' /\ (OneLoop /\ Talk => Talk')
<1>1. /\ hotplug_lock = h /\ jobs # << >> /\ fresh = None
      /\ alive' = alive \cup {d} /\ usb_devs' = usb_devs \cup {d} /\ fresh' = d
      /\ parent_dev' = [parent_dev EXCEPT ![d] = hub]
      /\ Ref({d, hub} \ {None})
      /\ UNCHANGED <<hotplug_lock, leaving, leave, monitor, ctx, hotplug_msgs, pc,
                     held, handle, new_callback, drop, handler, message, visit,
                     cb, needs_free, told, unannounced>>
  BY DEF Enumerates, context, threads, events
<1>0. Types
  BY DEF Core
<1>a. /\ refcnt' \in [Devs -> Nat] /\ leaving = None /\ hub \in Devs \cup {None}
      /\ \A e \in Devs : refcnt'[e] = IF e \in {d, hub} THEN refcnt[e] + 1 ELSE refcnt[e]
  BY <1>1, <1>0, RefIs, NoneAssumption DEF Core, Lock, Types
<1>b. d \in Devs /\ References(d) = {} /\ d \notin usb_devs /\ ~Departed(d) /\ hub # d
  <2>1. d \in Devs /\ References(d) = {}
    BY <1>0, DeadIsNotReferred DEF Core
  <2>2. ~Initial(d)
    BY <2>1, Referenced
  <2> QED BY <2>1, <2>2, NoneAssumption DEF Initial
<1>c. \A e : Departed(e)' <=> Departed(e)
  BY <1>1 DEF Departed, Message
<1>2. Types'
  <2>1. (parent_dev \in [Devs -> Devs \cup {None}])'
    BY <1>1, <1>a, <1>0 DEF Types
  <2> QED BY <2>1, <1>1, <1>0, <1>a DEF Types
<1>3. Lock'
  BY <1>1, <1>0, NoneAssumption, MonitorAssumption DEF Core, Lock, Types, Actors
<1>4. Stages'
  BY <1>1 DEF Core, Stages, Starting, Ending, Busy
<1>5. Steps'
  BY <1>1 DEF Core, Steps
<1>6. Once'
  BY <1>1, <1>b, <1>c DEF Core, Once, Queued, Unlisted, Msg, Message
<1>7. Arrived'
  BY <1>1 DEF Core, Arrived, Queued, Unlisted, Msg, Message
<1>8. CountsMatchReferences'
  <2>1. Gains(d, <<"initial", None>>)
    <3>1. \A z : z \in References(d)' <=> z = <<"initial", None>>
      <4>1. /\ Initial(d)' /\ d # leaving' /\ \A u \in Threads : d \notin held'[u] /\ d # handle'[u]
            /\ \A u \in Actors : d # drop'[u]
            /\ \A c \in alive' : d # parent_dev'[c]
        <5>1. /\ d # leaving /\ \A u \in Threads : d \notin held[u] /\ d # handle[u]
              /\ \A u \in Actors : d # drop[u]
              /\ \A c \in alive : d # parent_dev[c]
          BY <1>b, Referenced
        <5>2. \A c \in alive' : d # parent_dev'[c]
          BY <5>1, <1>0, <1>1, <1>b DEF Types
        <5> QED BY <5>1, <5>2, <1>1 DEF Initial
      <4> QED BY <4>1, ReferencedNext
    <3> QED BY <3>1, <1>1, <1>a, <1>b DEF Gains
  <2>2. ASSUME hub # None PROVE Gains(hub, <<"child", d>>)
    <3>1. hub \in alive /\ hub \in Devs /\ (Initial(hub)' <=> Initial(hub))
      BY <2>2, <1>0, <1>1, <1>c, InitialIsAlive DEF Core, Initial, Types
    <3>2. \A c : c \in alive' /\ hub = parent_dev'[c] <=> (c \in alive /\ hub = parent_dev[c]) \/ c = d
      BY <1>1, <1>0, <3>1, <1>b, <2>2 DEF Types
    <3>3. <<"child", d>> \notin References(hub)
      BY Referenced
    <3>4. \A z : z \in References(hub)' <=> z \in References(hub) \/ z = <<"child", d>>
      BY <3>1, <3>2, <1>1, Referenced, ReferencedNext
    <3> QED BY <3>1, <3>3, <3>4, <1>1, <1>a DEF Gains
  <2>3. ASSUME NEW e \in Devs, e # d, e # hub PROVE Kept(e)
    <3>1. Same(e)
      BY <2>3, <1>0, <1>1, <1>b, <1>c DEF Same, Initial, Types
    <3> QED BY <3>1, <2>3, <1>1, <1>0, <1>a, <1>b, KeptIfSame DEF Types
  <2>4. \A e \in Devs : \/ Kept(e) \/ \E x : Gains(e, x) \/ Loses(e, x)
                        \/ \E x, y : Moves(e, x, y)
    BY <2>1, <2>2, <2>3, NoneAssumption
  <2> QED BY <2>4, <1>0, CountsChange DEF Core
<1>9. ASSUME OneLoop, Talk PROVE Talk'
  <2>10. Registration'
    BY <1>1, <1>9, RegistrationAlone DEF Talk
  <2>11. Knows'
    <3>1. \A e, c : Queued(e, c)' <=> Queued(e, c)
      BY <1>1 DEF Queued, Msg, Message
    <3>2. /\ \A k : Listens(k)' <=> Listens(k)
          /\ \A c : Unlisted(c)' <=> Unlisted(c)
      BY <1>1 DEF Listens, Registering, Unlisted
    <3>3. \A k, c : /\ Going(k, c)' <=> Going(k, c)
                    /\ Coming(k, c) /\ c # None => Coming(k, c)'
                    /\ Coming(k, d)'
      BY <3>1, <3>2, <1>1 DEF Going, Coming, Message
    <3>4. \A k \in Callbacks : Listens(k)' =>
            /\ \A e \in told'[k] : e \in usb_devs' \/ Going(k, e)'
            /\ k \in Enumerating /\ ctx' = "ready" =>
                 \A e \in usb_devs' : e \in told'[k] \/ Coming(k, e)'
      <4> SUFFICES ASSUME NEW k \in Callbacks, Listens(k)
                   PROVE  /\ \A e \in told[k] : e \in usb_devs' \/ Going(k, e)
                          /\ k \in Enumerating /\ ctx = "ready" =>
                               \A e \in usb_devs' : e \in told[k] \/ Coming(k, e)'
        BY <3>2, <3>3, <1>1
      <4> QED BY <1>0, <1>1, <1>9, <3>3, NoneAssumption DEF Talk, Knows, Types
    <3>5. \A u \in Threads : pc'[u] = "enumerate" =>
            /\ \A e \in held'[u] : e \in usb_devs' \/ Queued("LEFT", e)' \/ Unlisted(e)'
            /\ \A e \in usb_devs' : e \in held'[u] \/ Queued("ARRIVED", e)' \/ fresh' = e
      <4>1. fresh = None
        BY <1>1
      <4> QED BY <1>0, <1>1, <1>9, <3>1, <3>2, <4>1, NoneAssumption DEF Talk, Knows,
         Types
    <3> QED BY <3>4, <3>5 DEF Knows
  <2> QED BY <2>10, <2>11 DEF Talk
<1> QED BY <1>2, <1>3, <1>4, <1>5, <1>6, <1>7, <1>8, <1>9 DEF Core

(* Its arrival is queued, if the context takes messages.                   *)
LEMMA AnnounceArrivalKeeps ==
  ASSUME Core, NEW h \in Actors, AnnounceArrival(h)
  PROVE  Core' /\ (OneLoop /\ Talk => Talk')
<1>1. /\ hotplug_lock = h /\ fresh # None
      /\ fresh' = None
      /\ \/ ctx = "ready" /\ hotplug_msgs' = Append(hotplug_msgs, Message("ARRIVED", fresh))
         \/ ctx # "ready" /\ hotplug_msgs' = hotplug_msgs
      /\ UNCHANGED <<hotplug_lock, jobs, leaving, leave, monitor, ctx, usb_devs,
                     alive, parent_dev, refcnt, pc, held, handle, new_callback,
                     drop, handler, message, visit, cb, needs_free, told,
                     unannounced>>
  BY DEF AnnounceArrival, usbi_hotplug_notification, kernel, context, devices,
     threads, events
<1>0. Types
  BY DEF Core
<1>a. fresh \in Devs /\ fresh \in usb_devs /\ (ctx = "ready" \/ Starting)
  BY <1>1, <1>0 DEF Core, Types, Lock, Stages, Ending, Starting, Busy
<1>b. /\ hotplug_msgs' \in Seq(Messages)
      /\ \A c : Queued("LEFT", c)' <=> Queued("LEFT", c)
      /\ \A c : Queued("ARRIVED", c)' <=> Queued("ARRIVED", c) \/ (ctx = "ready" /\ c = fresh)
      /\ \A c : (Departed(c)' <=> Departed(c)) /\ (Unlisted(c)' <=> Unlisted(c))
      /\ Once' /\ Arrived'
  <2>1. CASE ctx = "ready"
    BY <2>1, <1>1, <1>a, NoMessage, SentKeeps
  <2>2. CASE ctx # "ready"
    <3>1. hotplug_msgs' = hotplug_msgs
      BY <1>1, <2>2
    <3>2. \A e, c : Queued(e, c)' <=> Queued(e, c)
      BY <3>1 DEF Queued, Msg, Message
    <3>3. \A c : (Departed(c)' <=> Departed(c)) /\ (Unlisted(c)' <=> Unlisted(c))
      BY <1>1, <3>1 DEF Departed, Unlisted, Message
    <3> QED BY <1>0, <1>1, <2>2, <3>1, <3>2, <3>3, OnceAlone, ArrivedAlone DEF Core,
       Types
  <2> QED BY <2>1, <2>2
<1>2. Types'
  BY <1>1, <1>0, <1>b DEF Types
<1>3. Lock'
  BY <1>1, <1>0, NoneAssumption, MonitorAssumption DEF Core, Lock, Types, Actors
<1>4. Stages'
  BY <1>1, <1>0, <1>a DEF Core, Stages, Starting, Ending, Types
<1>5. Steps'
  BY <1>1 DEF Core, Steps
<1>6. Once'
  BY <1>b
<1>7. Arrived'
  BY <1>b
<1>8. CountsMatchReferences'
  <2>1. \A c : Initial(c)' <=> Initial(c)
    BY <1>1, <1>b DEF Initial
  <2> QED BY <2>1, <1>1, <1>0, CountsAlone DEF Core, Same, Types
<1>9. ASSUME OneLoop, Talk PROVE Talk'
  <2>10. Registration'
    BY <1>1, <1>9, RegistrationAlone DEF Talk
  <2>11. Knows'
    <3>1. ASSUME NEW k \in Callbacks, Listens(k)'
          PROVE  /\ \A e \in told'[k] : e \in usb_devs' \/ Going(k, e)'
                 /\ k \in Enumerating /\ ctx' = "ready" =>
                      \A e \in usb_devs' : e \in told'[k] \/ Coming(k, e)'
      <4>1. Listens(k) /\ ctx = "ready" /\ told' = told /\ usb_devs' = usb_devs
        BY <1>1, <1>a, <3>1 DEF Core, Stages, Listens, Registering, Starting
      <4>2. \A e : (Going(k, e)' <=> Going(k, e)) /\ (Coming(k, e) /\ e # None => Coming(k, e)')
        BY <1>1, <1>b, <4>1 DEF Going, Coming, Message
      <4> QED BY <1>0, <1>9, <4>1, <4>2, NoneAssumption DEF Talk, Knows, Types
    <3>2. ASSUME NEW u \in Threads, pc'[u] = "enumerate"
          PROVE  /\ \A e \in held'[u] : e \in usb_devs' \/ Queued("LEFT", e)' \/ Unlisted(e)'
                 /\ \A e \in usb_devs' : e \in held'[u] \/ Queued("ARRIVED", e)' \/ fresh' = e
      <4>1. ctx = "ready" /\ pc[u] = "enumerate" /\ UNCHANGED <<held, usb_devs>>
        BY <1>1, <1>a, <3>2 DEF Core, Stages
      <4> QED BY <1>0, <1>1, <1>9, <1>b, <4>1 DEF Talk, Knows, Types
    <3> QED BY <3>1, <3>2 DEF Knows
  <2> QED BY <2>10, <2>11 DEF Talk
<1> QED BY <1>2, <1>3, <1>4, <1>5, <1>6, <1>7, <1>8, <1>9 DEF Core

(* usbi_disconnect_device takes a device off the list,                     *)
LEMMA UnlistKeeps ==
  ASSUME Core, NEW h \in Actors, Unlist(h)
  PROVE  Core' /\ (OneLoop /\ Talk => Talk')
<1>1. /\ hotplug_lock = h /\ leave = "found"
      /\ usb_devs' = usb_devs \ {leaving}
      /\ leave' = "unlisted"
      /\ UNCHANGED <<hotplug_lock, jobs, fresh, leaving, monitor, ctx,
                     hotplug_msgs, alive, parent_dev, refcnt, pc, held, handle,
                     new_callback, drop, handler, message, visit, cb, needs_free,
                     told, unannounced>>
  BY DEF Unlist, kernel, context, threads, events
<1>0. Types
  BY DEF Core
<1>a. leaving \in Devs /\ leaving \in usb_devs /\ ~Departed(leaving)
  BY <1>1, <1>0 DEF Core, Types, Lock, Once
<1>b. /\ \A e, c : Queued(e, c)' <=> Queued(e, c)
      /\ \A c : ~Unlisted(c) /\ (Unlisted(c)' <=> c = leaving)
  BY <1>1 DEF Queued, Msg, Message, Unlisted
<1>c. \A c : Departed(c)' <=> Departed(c) \/ c = leaving
  BY <1>0, <1>1, <1>b, DepartedIs, DepartedIsNext DEF Types
<1>2. Types'
  <2>1. (usb_devs \subseteq Devs)'
    BY <1>1, <1>0 DEF Types
  <2>2. (leave \in {"none", "found", "unlisted"})'
    BY <1>1, <1>0 DEF Types
  <2> QED BY <2>1, <2>2, <1>1, <1>0 DEF Types
<1>3. Lock'
  BY <1>1, <1>0, NoneAssumption, MonitorAssumption DEF Core, Lock, Types, Actors
<1>4. Stages'
  BY <1>1 DEF Core, Stages, Starting, Ending, Busy
<1>5. Steps'
  BY <1>1 DEF Core, Steps
<1>6. Once'
  <2>1. ~Queued("LEFT", leaving) /\ message # Message("LEFT", leaving) /\ leaving \notin unannounced
    BY <1>0, <1>a, DepartedIs
  <2> QED BY <1>1, <1>b, <1>c, <2>1 DEF Core, Once, Msg, Message
<1>7. Arrived'
  BY <1>1, <1>a, <1>b DEF Core, Arrived, Msg, Message
<1>8. CountsMatchReferences'
  <2>1. \A c : Initial(c)' <=> Initial(c)
    BY <1>1, <1>a, <1>c DEF Initial
  <2> QED BY <2>1, <1>1, <1>0, CountsAlone DEF Core, Same, Types
<1>9. ASSUME OneLoop, Talk PROVE Talk'
  <2>10. Registration'
    BY <1>1, <1>9, RegistrationAlone DEF Talk
  <2>11. Knows'
    <3>1. ASSUME NEW k \in Callbacks, Listens(k)'
          PROVE  /\ \A e \in told'[k] : e \in usb_devs' \/ Going(k, e)'
                 /\ k \in Enumerating /\ ctx' = "ready" =>
                      \A e \in usb_devs' : e \in told'[k] \/ Coming(k, e)'
      <4>1. Listens(k) /\ told' = told /\ ctx' = ctx /\ usb_devs' = usb_devs \ {leaving}
        BY <1>1, <3>1 DEF Listens, Registering
      <4>2. \A e : /\ Going(k, e)' <=> Going(k, e) \/ e = leaving
                   /\ Coming(k, e)' <=> Coming(k, e)
        BY <1>1, <1>b DEF Going, Coming, Message
      <4> QED BY <1>0, <1>9, <4>1, <4>2 DEF Talk, Knows, Types
    <3>2. ASSUME NEW u \in Threads, pc'[u] = "enumerate"
          PROVE  /\ \A e \in held'[u] : e \in usb_devs' \/ Queued("LEFT", e)' \/ Unlisted(e)'
                 /\ \A e \in usb_devs' : e \in held'[u] \/ Queued("ARRIVED", e)' \/ fresh' = e
      <4>1. pc[u] = "enumerate" /\ UNCHANGED <<held, fresh>> /\ usb_devs' = usb_devs \ {leaving}
        BY <1>1, <3>2
      <4> QED BY <1>0, <1>9, <1>b, <4>1 DEF Talk, Knows, Types
    <3> QED BY <3>1, <3>2 DEF Knows
  <2> QED BY <2>10, <2>11 DEF Talk
<1> QED BY <1>2, <1>3, <1>4, <1>5, <1>6, <1>7, <1>8, <1>9 DEF Core

(* and hands the reference of the list to the message, or to nobody while  *)
(* there is no list of messages; then it gives up its own.                 *)
LEMMA AnnounceDepartureKeeps ==
  ASSUME Core, NEW h \in Actors, AnnounceDeparture(h)
  PROVE  Core' /\ (OneLoop /\ Talk => Talk')
<1>1. /\ hotplug_lock = h /\ leave = "unlisted"
      /\ leaving' = None /\ leave' = "none"
      /\ drop' = [drop EXCEPT ![h] = leaving]
      /\ \/ /\ ctx = "ready" /\ unannounced' = unannounced
            /\ hotplug_msgs' = Append(hotplug_msgs, Message("LEFT", leaving))
         \/ /\ ctx # "ready" /\ hotplug_msgs' = hotplug_msgs
            /\ unannounced' = unannounced \cup {leaving}
      /\ UNCHANGED <<hotplug_lock, jobs, fresh, monitor, ctx, usb_devs, alive,
                     parent_dev, refcnt, pc, held, handle, new_callback, handler,
                     message, visit, cb, needs_free, told>>
  BY DEF AnnounceDeparture, usbi_hotplug_notification, kernel, context, devices,
     threads, events
<1>0. Types
  BY DEF Core
<1>a. /\ leaving \in Devs /\ drop[h] = None /\ h # None /\ (ctx = "ready" \/ Starting)
      /\ ~Queued("LEFT", leaving) /\ message # Message("LEFT", leaving)
      /\ leaving \notin unannounced /\ Message("LEFT", leaving) \in Messages
      /\ Starting => hotplug_msgs = << >> /\ message = None
      /\ \A c \in Devs : c \in usb_devs => ~Departed(c)
  <2>1. leaving \in Devs /\ leaving # None /\ hotplug_lock = h
    BY <1>1, <1>0, NoneAssumption DEF Core, Types, Lock
  <2>2. Unlisted(leaving)
    BY <1>1 DEF Unlisted
  <2> QED BY <2>1, <2>2, <1>0, NoMessage, NoneAssumption
          DEF Core, Types, Lock, Stages, Once, Ending, Starting, Busy, Actors
<1>b. /\ \A c : Unlisted(c) <=> c = leaving
      /\ \A c : ~(Unlisted(c)' /\ c # None)
  BY <1>1 DEF Unlisted
<1> DEFINE Sent == /\ hotplug_msgs' \in Seq(Messages)
                   /\ \A c : Queued("LEFT", c)' <=> Queued("LEFT", c) \/ (ctx = "ready" /\ c = leaving)
                   /\ \A c : Queued("ARRIVED", c)' <=> Queued("ARRIVED", c)
                   /\ \A c \in Devs : Departed(c)' <=> Departed(c)
                   /\ Once' /\ Arrived'
<1>c. ASSUME ctx = "ready" PROVE Sent
  <2>1. /\ hotplug_msgs' = Append(hotplug_msgs, Message("LEFT", leaving))
        /\ unannounced' = unannounced
    BY <1>1, <1>c
  <2>2. /\ hotplug_msgs' \in Seq(Messages) /\ Len(hotplug_msgs') = Len(hotplug_msgs) + 1
        /\ Len(hotplug_msgs) \in Nat
        /\ \A i \in 1 .. Len(hotplug_msgs) : i \in 1 .. Len(hotplug_msgs') /\ Msg(i)' = Msg(i)
        /\ hotplug_msgs'[Len(hotplug_msgs')] = Message("LEFT", leaving)
        /\ \A i \in 1 .. Len(hotplug_msgs') :
             i \in 1 .. Len(hotplug_msgs) \/ i = Len(hotplug_msgs')
        /\ \A g, c : Queued(g, c)' <=> Queued(g, c) \/ Message("LEFT", leaving) = Message(g, c)
    BY <2>1, <1>0, <1>a, Appended
  <2>3. /\ \A c : Queued("LEFT", c)' <=> Queued("LEFT", c) \/ c = leaving
        /\ \A c : Queued("ARRIVED", c)' <=> Queued("ARRIVED", c)
    BY <2>2, MessagesDiffer
  <2>4. \A c \in Devs : Departed(c)' <=> Departed(c)
    BY <1>0, <1>1, <1>a, <1>b, <2>1, <2>2, <2>3, DepartedIs, DepartedIsNext,
       NoneAssumption
  <2>5. Once'
    <3>1. ASSUME NEW c \in Devs, NEW i \in 1 .. Len(hotplug_msgs'),
                 NEW j \in 1 .. Len(hotplug_msgs'),
                 hotplug_msgs'[i] = Message("LEFT", c), hotplug_msgs'[j] = Message("LEFT", c)
          PROVE  i = j
      <4>1. ASSUME NEW k \in 1 .. Len(hotplug_msgs'), hotplug_msgs'[k] = Message("LEFT", c)
            PROVE  \/ k = Len(hotplug_msgs') /\ c = leaving
                   \/ k \in 1 .. Len(hotplug_msgs) /\ Msg(k) = Message("LEFT", c) /\ c # leaving
        BY <4>1, <2>2, <1>a, MessagesDiffer DEF Msg, Queued
      <4> QED BY <4>1, <3>1 DEF Core, Once
    <3>2. ASSUME NEW c \in Devs
          PROVE  /\ c \in usb_devs' => ~Departed(c)'
                 /\ Unlisted(c)' => ~Queued("LEFT", c)' /\ message' # Message("LEFT", c)
                                    /\ c \notin unannounced'
                 /\ Queued("LEFT", c)' => message' # Message("LEFT", c) /\ c \notin unannounced'
                 /\ message' = Message("LEFT", c) => c \notin unannounced'
      BY <1>1, <1>a, <1>b, <2>1, <2>3, <2>4, NoneAssumption DEF Core, Once
    <3> QED BY <3>1, <3>2 DEF Once, Msg, Message
  <2>6. Arrived'
    <3> SUFFICES ASSUME NEW c \in Devs
        PROVE  /\ \A i \in 1 .. Len(hotplug_msgs') : hotplug_msgs'[i] = Message("ARRIVED", c) =>
                    \/ c \in usb_devs
                    \/ \E j \in i + 1 .. Len(hotplug_msgs') :
                         hotplug_msgs'[j] = Message("LEFT", c)
               /\ message = Message("ARRIVED", c) => c \in usb_devs \/ Queued("LEFT", c)'
      BY <1>1 DEF Arrived, Msg, Message
    <3>1. ASSUME NEW i \in 1 .. Len(hotplug_msgs'), hotplug_msgs'[i] = Message("ARRIVED", c)
          PROVE  \/ c \in usb_devs
                 \/ \E j \in i + 1 .. Len(hotplug_msgs') : hotplug_msgs'[j] = Message("LEFT", c)
      <4>1. i \in 1 .. Len(hotplug_msgs) /\ Msg(i) = Message("ARRIVED", c)
        BY <3>1, <2>2, MessagesDiffer DEF Msg
      <4>2. \/ c \in usb_devs \/ c = leaving
            \/ \E j \in i + 1 .. Len(hotplug_msgs) : Msg(j) = Message("LEFT", c)
        BY <4>1, <1>b DEF Core, Arrived
      <4>3. ASSUME NEW j \in i + 1 .. Len(hotplug_msgs)
            PROVE  j \in i + 1 .. Len(hotplug_msgs') /\ hotplug_msgs'[j] = Msg(j)
        BY <2>2, <4>1 DEF Msg
      <4>4. Len(hotplug_msgs') \in i + 1 .. Len(hotplug_msgs')
        BY <2>2, <4>1
      <4> QED BY <4>2, <4>3, <4>4, <2>2
    <3> QED BY <3>1, <2>3, <1>b DEF Core, Arrived
  <2> QED BY <1>c, <2>2, <2>3, <2>4, <2>5, <2>6
<1>d. ASSUME ctx # "ready" PROVE Sent
  <2>1. /\ hotplug_msgs' = << >> /\ hotplug_msgs = << >> /\ message = None /\ Starting
        /\ unannounced' = unannounced \cup {leaving}
    BY <1>1, <1>d, <1>a
  <2>2. \A e, c : ~Queued(e, c) /\ ~Queued(e, c)'
    BY <2>1 DEF Queued, Msg, Message
  <2>3. \A c \in Devs : Departed(c)' <=> Departed(c)
    BY <1>0, <1>1, <1>a, <1>b, <2>1, <2>2, DepartedIs, DepartedIsNext, NoneAssumption
  <2>4. Once'
    BY <1>1, <1>a, <1>b, <2>1, <2>2, <2>3, NoMessage, NoneAssumption
       DEF Core, Once, Msg, Message
  <2>5. Arrived'
    BY <1>1, <2>1, NoMessage DEF Arrived, Msg, Message
  <2> QED BY <1>d, <2>1, <2>2, <2>3, <2>4, <2>5
<1>e. Sent
  BY <1>c, <1>d
<1>2. Types'
  <2>1. (drop \in [Actors -> Devs \cup {None}])' /\ (unannounced \subseteq Devs)'
    BY <1>0, <1>1, <1>a DEF Types
  <2> QED BY <2>1, <1>1, <1>0, <1>e DEF Types
<1>3. Lock'
  BY <1>1, <1>0, NoneAssumption, MonitorAssumption DEF Core, Lock, Types, Actors
<1>4. Stages'
  BY <1>1, <1>0, <1>a DEF Core, Stages, Starting, Ending, Types
<1>5. Steps'
  BY <1>1, <1>0, NoneAssumption, MonitorAssumption DEF Core, Steps, Types, Actors, Lock
<1>6. Once'
  BY <1>e
<1>7. Arrived'
  BY <1>e
<1>8. CountsMatchReferences'
  <2>1. \A c \in Devs : Initial(c)' <=> Initial(c)
    BY <1>1, <1>e DEF Initial
  <2>2. ASSUME NEW c \in Devs, c # leaving PROVE Kept(c)
    <3>1. Same(c)
      BY <2>1, <2>2, <1>0, <1>1, <1>a, NoneAssumption DEF Same, Types
    <3> QED BY <3>1, <1>0, <1>1, <2>2, KeptIfSame DEF Types
  <2>3. ASSUME NEW c \in Devs, c = leaving
        PROVE  Moves(c, <<"leaving", None>>, <<"drop", h>>)
    <3>1. <<"leaving", None>> \in References(c) /\ <<"drop", h>> \notin References(c)
      BY <2>3, <1>a, NoneAssumption, Referenced
    <3>2. \A u \in Actors : c = drop'[u] <=> c = drop[u] \/ u = h
      BY <2>3, <1>0, <1>1, <1>a, NoneAssumption DEF Types
    <3>3. \A z : z \in References(c)' <=>
                   (z \in References(c) /\ z # <<"leaving", None>>) \/ z = <<"drop", h>>
      BY <3>2, <2>1, <2>3, <1>1, NoneAssumption, Referenced, ReferencedNext
    <3> QED BY <3>1, <3>3, <1>1 DEF Moves
  <2> QED BY <2>2, <2>3, <1>0, CountsChange DEF Core
<1>9. ASSUME OneLoop, Talk PROVE Talk'
  <2>10. Registration'
    BY <1>1, <1>9, RegistrationAlone DEF Talk
  <2>11. Knows'
    <3>1. ASSUME NEW k \in Callbacks, Listens(k)'
          PROVE  /\ \A e \in told'[k] : e \in usb_devs' \/ Going(k, e)'
                 /\ k \in Enumerating /\ ctx' = "ready" =>
                      \A e \in usb_devs' : e \in told'[k] \/ Coming(k, e)'
      <4>1. Listens(k) /\ ctx = "ready" /\ UNCHANGED <<told, ctx, usb_devs, fresh, message, visit>>
        BY <1>1, <1>a, <3>1 DEF Core, Stages, Listens, Registering, Starting
      <4>2. \A e \in Devs : (Going(k, e)' <=> Going(k, e)) /\ (Coming(k, e)' <=> Coming(k, e))
        BY <1>b, <1>e, <4>1, NoneAssumption DEF Going, Coming, Message
      <4> QED BY <1>0, <1>9, <4>1, <4>2 DEF Talk, Knows, Types
    <3>2. ASSUME NEW u \in Threads, pc'[u] = "enumerate"
          PROVE  /\ \A e \in held'[u] : e \in usb_devs' \/ Queued("LEFT", e)' \/ Unlisted(e)'
                 /\ \A e \in usb_devs' : e \in held'[u] \/ Queued("ARRIVED", e)' \/ fresh' = e
      <4>1. pc[u] = "enumerate" /\ UNCHANGED <<held, fresh, usb_devs>> /\ ctx = "ready"
        BY <1>1, <1>a, <3>2 DEF Core, Stages
      <4> QED BY <1>0, <1>9, <1>b, <1>e, <4>1 DEF Talk, Knows, Types
    <3> QED BY <3>1, <3>2 DEF Knows
  <2> QED BY <2>10, <2>11 DEF Talk
<1> QED BY <1>2, <1>3, <1>4, <1>5, <1>6, <1>7, <1>8, <1>9 DEF Core

(* The monitor has handled a uevent.                                       *)
LEMMA MonitorUnlocksKeeps ==
  ASSUME Core, MonitorUnlocks
  PROVE  Core' /\ (OneLoop /\ Talk => Talk')
<1>1. /\ monitor = "reading" /\ ~Busy /\ drop[Monitor] = None
      /\ monitor' = "poll" /\ hotplug_lock' = None
      /\ UNCHANGED <<jobs, fresh, leaving, leave, ctx, usb_devs, hotplug_msgs,
                     alive, parent_dev, refcnt, pc, held, handle, new_callback,
                     drop, handler, message, visit, cb, needs_free, told,
                     unannounced>>
  BY DEF MonitorUnlocks, Free, kernel, work, context, devices, threads, events
<1>0. Types
  BY DEF Core
<1>2. Types'
  <2>1. (hotplug_lock \in Actors \cup {None})'
    BY <1>1, <1>0 DEF Types
  <2> QED BY <2>1, <1>1, <1>0 DEF Types
<1>3. Lock'
  BY <1>1, <1>0, NoneAssumption, MonitorAssumption DEF Core, Lock, Busy, Types, Actors
<1>4. Stages'
  BY <1>1 DEF Core, Stages, Starting, Ending, Busy
<1>5. Steps'
  BY <1>1 DEF Core, Steps
<1>6. Once'
  BY <1>1, OnceAlone DEF Core
<1>7. Arrived'
  BY <1>1, ArrivedAlone DEF Core
<1>8. CountsMatchReferences'
  BY <1>1, <1>0, ReferencesAlone DEF Core, Types
<1>9. ASSUME OneLoop, Talk PROVE Talk'
  BY <1>1, <1>0, <1>9, TalkAlone DEF Types
<1> QED BY <1>2, <1>3, <1>4, <1>5, <1>6, <1>7, <1>8, <1>9 DEF Core

(* The monitor reads one.                                                  *)
LEMMA MonitorReadsKeeps ==
  ASSUME Core, MonitorReads
  PROVE  Core' /\ (OneLoop /\ Talk => Talk')
<1>1. /\ monitor = "poll" /\ hotplug_lock = None
      /\ monitor' = "reading" /\ hotplug_lock' = Monitor
      /\ Reads
      /\ UNCHANGED <<fresh, ctx, usb_devs, hotplug_msgs, alive, parent_dev, pc,
                     held, handle, new_callback, drop, handler, message, visit,
                     cb, needs_free, told, unannounced>>
  BY ReadMessageIs DEF MonitorReads, context, devices, threads, events
<1>0. Types
  BY DEF Core
<1>a. /\ leaving = None /\ jobs = << >> /\ fresh = None
  BY <1>1, NoneAssumption DEF Core, Lock, Busy
<1>b. /\ leaving' \in Devs \cup {None} /\ leave' \in {"none", "found"}
      /\ refcnt' \in [Devs -> Nat]
      /\ (leaving' # None <=> leave' = "found") /\ (leave' = "found" => leaving' \in usb_devs)
      /\ leaving' # None => ctx \notin {"new", "exiting", "gone"}
      /\ \A d : ~Unlisted(d) /\ ~Unlisted(d)'
      /\ Once' /\ Arrived' /\ CountsMatchReferences'
  BY <1>1, <1>a, LeavingSet, ReadsDisconnects DEF Reads
<1>2. Types'
  <2>1. (hotplug_lock \in Actors \cup {None})'
    BY <1>1 DEF Actors
  <2> QED BY <2>1, <1>1, <1>0, <1>b DEF Types
<1>3. Lock'
  BY <1>1, <1>0, <1>a, <1>b, NoneAssumption, MonitorAssumption DEF Core, Lock, Busy,
     Types, Actors, Steps, Reads
<1>4. Stages'
  BY <1>1, <1>0, <1>a, <1>b DEF Core, Stages, Starting, Ending, Busy, Types, Reads
<1>5. Steps'
  BY <1>1 DEF Core, Steps
<1>6. Once'
  BY <1>b
<1>7. Arrived'
  BY <1>b
<1>8. CountsMatchReferences'
  BY <1>b
<1>9. ASSUME OneLoop, Talk PROVE Talk'
  <2>10. Registration'
    BY <1>1, <1>9, RegistrationAlone DEF Talk
  <2>11. Knows'
    BY <1>1, <1>0, <1>b, <1>9, KnowsAlone DEF Talk, Types
  <2> QED BY <2>10, <2>11 DEF Talk
<1> QED BY <1>2, <1>3, <1>4, <1>5, <1>6, <1>7, <1>8, <1>9 DEF Core

(* linux_netlink_hotplug_poll reads one.                                   *)
LEMMA PollReadsKeeps ==
  ASSUME Core, NEW t \in Threads, PollReads(t)
  PROVE  Core' /\ (OneLoop /\ Talk => Talk')
<1>1. /\ pc[t] = "polling" /\ ~Busy /\ drop[t] = None /\ hotplug_lock = t
      /\ Reads
      /\ UNCHANGED <<hotplug_lock, fresh, monitor, ctx, usb_devs, hotplug_msgs,
                     alive, parent_dev, pc, held, handle, new_callback, drop,
                     handler, message, visit, cb, needs_free, told, unannounced>>
  BY ReadMessageIs DEF PollReads, Free, context, devices, threads, events
<1>0. Types
  BY DEF Core
<1>a. /\ leaving = None /\ jobs = << >> /\ fresh = None
  BY <1>1, NoneAssumption DEF Core, Lock, Busy
<1>b. /\ leaving' \in Devs \cup {None} /\ leave' \in {"none", "found"}
      /\ refcnt' \in [Devs -> Nat]
      /\ (leaving' # None <=> leave' = "found") /\ (leave' = "found" => leaving' \in usb_devs)
      /\ leaving' # None => ctx \notin {"new", "exiting", "gone"}
      /\ \A d : ~Unlisted(d) /\ ~Unlisted(d)'
      /\ Once' /\ Arrived' /\ CountsMatchReferences'
  BY <1>1, <1>a, LeavingSet, ReadsDisconnects
<1>2. Types'
  <2> QED BY <1>1, <1>0, <1>b DEF Types
<1>3. Lock'
  BY <1>1, <1>0, <1>a, <1>b, NoneAssumption, MonitorAssumption DEF Core, Lock,
     Types, Actors, Reads
<1>4. Stages'
  BY <1>1 DEF Core, Stages, Starting, Ending
<1>5. Steps'
  BY <1>1 DEF Core, Steps
<1>6. Once'
  BY <1>b
<1>7. Arrived'
  BY <1>b
<1>8. CountsMatchReferences'
  BY <1>b
<1>9. ASSUME OneLoop, Talk PROVE Talk'
  <2>10. Registration'
    BY <1>1, <1>9, RegistrationAlone DEF Talk
  <2>11. Knows'
    BY <1>1, <1>0, <1>b, <1>9, KnowsAlone DEF Talk, Types
  <2> QED BY <2>10, <2>11 DEF Talk
<1> QED BY <1>2, <1>3, <1>4, <1>5, <1>6, <1>7, <1>8, <1>9 DEF Core

(* op_open finds the device gone, and disconnects it.                      *)
LEMMA OpenGoneKeeps ==
  ASSUME Core, NEW t \in Threads, OpenGone(t)
  PROVE  Core' /\ (OneLoop /\ Talk => Talk')
<1>1. /\ pc[t] = "openGone" /\ hotplug_lock = None
      /\ hotplug_lock' = t /\ pc' = [pc EXCEPT ![t] = "openFails"]
      /\ Disconnects
      /\ UNCHANGED <<jobs, fresh, monitor, ctx, usb_devs, hotplug_msgs, alive,
                     parent_dev, held, handle, new_callback, drop, handler,
                     message, visit, cb, needs_free, told, unannounced>>
  BY StartDisconnectIs DEF OpenGone, Disconnects, kernel, context, devices, threads,
     events
<1>0. Types
  BY DEF Core
<1>a. /\ leaving = None /\ jobs = << >> /\ fresh = None
  BY <1>1, NoneAssumption DEF Core, Lock, Busy
<1>b. /\ leaving' \in Devs \cup {None} /\ leave' \in {"none", "found"}
      /\ refcnt' \in [Devs -> Nat]
      /\ (leaving' # None <=> leave' = "found") /\ (leave' = "found" => leaving' \in usb_devs)
      /\ leaving' # None => ctx \notin {"new", "exiting", "gone"}
      /\ \A d : ~Unlisted(d) /\ ~Unlisted(d)'
      /\ Once' /\ Arrived' /\ CountsMatchReferences'
  BY <1>1, <1>a, LeavingSet
<1>2. Types'
  <2>1. (hotplug_lock \in Actors \cup {None})'
    BY <1>1 DEF Actors
  <2>2. (pc \in [Threads -> {"idle", "init", "exit", "poll", "polling", "copy", "enumerate",
                               "openGone", "openFails", "events"}])'
    BY <1>1, <1>0 DEF Types
  <2> QED BY <2>1, <2>2, <1>1, <1>0, <1>b DEF Types
<1>3. Lock'
  BY <1>1, <1>0, <1>a, <1>b, NoneAssumption, MonitorAssumption DEF Core, Lock, Busy,
     Types, Actors, Steps
<1>4. Stages'
  BY <1>1 DEF Core, Stages, Starting, Ending
<1>5. Steps'
  BY <1>1 DEF Core, Steps
<1>6. Once'
  BY <1>b
<1>7. Arrived'
  BY <1>b
<1>8. CountsMatchReferences'
  BY <1>b
<1>9. ASSUME OneLoop, Talk PROVE Talk'
  <2>10. Registration'
    BY <1>1, <1>9 DEF Talk, Registration
  <2>11. Knows'
    BY <1>1, <1>0, <1>b, <1>9, KnowsAlone DEF Talk, Types
  <2> QED BY <2>10, <2>11 DEF Talk
<1> QED BY <1>2, <1>3, <1>4, <1>5, <1>6, <1>7, <1>8, <1>9 DEF Core

(* libusb_init begins.                                                     *)
LEMMA InitContextKeeps ==
  ASSUME Core, NEW t \in Threads, InitContext(t)
  PROVE  Core' /\ (OneLoop /\ Talk => Talk')
<1>1. /\ ctx = "new" /\ pc[t] = "idle" /\ drop[t] = None
      /\ ctx' = "active" /\ monitor' = "poll" /\ pc' = [pc EXCEPT ![t] = "init"]
      /\ UNCHANGED <<hotplug_lock, jobs, fresh, leaving, leave, usb_devs,
                     hotplug_msgs, alive, parent_dev, refcnt, held, handle,
                     new_callback, drop, handler, message, visit, cb, needs_free,
                     told, unannounced>>
  BY DEF InitContext, Idle, kernel, work, devices, events
<1>0. Types
  BY DEF Core
<1>2. Types'
  <2>1. (pc \in [Threads -> {"idle", "init", "exit", "poll", "polling", "copy", "enumerate",
                               "openGone", "openFails", "events"}])'
    BY <1>1, <1>0 DEF Types
  <2> QED BY <2>1, <1>1, <1>0 DEF Types
<1>3. Lock'
  BY <1>1, <1>0, NoneAssumption, MonitorAssumption DEF Core, Lock, Busy, Types,
     Actors, Stages
<1>4. Stages'
  BY <1>1 DEF Core, Stages, Starting, Ending
<1>5. Steps'
  BY <1>1, <1>0, NoneAssumption, MonitorAssumption DEF Core, Steps, Types, Actors,
     Stages
<1>6. Once'
  BY <1>1, OnceAlone DEF Core
<1>7. Arrived'
  BY <1>1, ArrivedAlone DEF Core
<1>8. CountsMatchReferences'
  BY <1>1, <1>0, ReferencesAlone DEF Core, Types
<1>9. ASSUME OneLoop, Talk PROVE Talk'
  <2>10. Registration'
    BY <1>1, <1>9 DEF Talk, Registration
  <2>11. Knows'
    BY <1>1, <1>0, <1>9, KnowsAsIs DEF Talk, Types
  <2> QED BY <2>10, <2>11 DEF Talk
<1> QED BY <1>2, <1>3, <1>4, <1>5, <1>6, <1>7, <1>8, <1>9 DEF Core

(* It starts the scan.                                                     *)
LEMMA StartScanKeeps ==
  ASSUME Core, NEW t \in Threads, StartScan(t)
  PROVE  Core' /\ (OneLoop /\ Talk => Talk')
<1>1. /\ ctx = "active" /\ pc[t] = "init" /\ hotplug_lock = None
      /\ ctx' = "scanning" /\ hotplug_lock' = t
      /\ UNCHANGED <<jobs, fresh, leaving, leave, monitor, usb_devs, hotplug_msgs,
                     alive, parent_dev, refcnt, pc, held, handle, new_callback,
                     drop, handler, message, visit, cb, needs_free, told,
                     unannounced>>
  BY DEF StartScan, kernel, work, devices, threads, events
<1>0. Types
  BY DEF Core
<1>2. Types'
  <2>1. (hotplug_lock \in Actors \cup {None})'
    BY <1>1, <1>0, NoneAssumption DEF Types, Actors
  <2> QED BY <2>1, <1>1, <1>0 DEF Types
<1>3. Lock'
  BY <1>1, <1>0, NoneAssumption, MonitorAssumption DEF Core, Lock, Busy, Types,
     Actors, Stages
<1>4. Stages'
  BY <1>1 DEF Core, Stages, Starting, Ending
<1>5. Steps'
  BY <1>1 DEF Core, Steps
<1>6. Once'
  BY <1>1, OnceAlone DEF Core
<1>7. Arrived'
  BY <1>1, ArrivedAlone DEF Core
<1>8. CountsMatchReferences'
  BY <1>1, <1>0, ReferencesAlone DEF Core, Types
<1>9. ASSUME OneLoop, Talk PROVE Talk'
  BY <1>1, <1>0, <1>9, TalkAlone DEF Types
<1> QED BY <1>2, <1>3, <1>4, <1>5, <1>6, <1>7, <1>8, <1>9 DEF Core

(* The scan comes to a port.                                               *)
LEMMA ScanEntryKeeps ==
  ASSUME Core, NEW t \in Threads, NEW p \in Ports, ScanEntry(t, p)
  PROVE  Core' /\ (OneLoop /\ Talk => Talk')
<1>1. /\ ctx = "scanning" /\ hotplug_lock = t /\ ~Busy
      /\ UNCHANGED <<hotplug_lock, fresh, leaving, leave, monitor, ctx, usb_devs,
                     hotplug_msgs, alive, parent_dev, refcnt, pc, held, handle,
                     new_callback, drop, handler, message, visit, cb, needs_free,
                     told, unannounced>>
  BY DEF ScanEntry, Free, kernel, devices, threads, events
<1>0. Types
  BY DEF Core
<1>2. Types'
  BY <1>1, <1>0 DEF Types
<1>3. Lock'
  BY <1>1, <1>0, NoneAssumption, MonitorAssumption DEF Core, Lock, Busy, Types, Actors
<1>4. Stages'
  BY <1>1 DEF Core, Stages, Starting, Ending
<1>5. Steps'
  BY <1>1 DEF Core, Steps
<1>6. Once'
  BY <1>1, OnceAlone DEF Core
<1>7. Arrived'
  BY <1>1, ArrivedAlone DEF Core
<1>8. CountsMatchReferences'
  BY <1>1, <1>0, ReferencesAlone DEF Core, Types
<1>9. ASSUME OneLoop, Talk PROVE Talk'
  BY <1>1, <1>0, <1>9, TalkAlone DEF Types
<1> QED BY <1>2, <1>3, <1>4, <1>5, <1>6, <1>7, <1>8, <1>9 DEF Core

(* The scan is over.                                                       *)
LEMMA EndScanKeeps ==
  ASSUME Core, NEW t \in Threads, EndScan(t)
  PROVE  Core' /\ (OneLoop /\ Talk => Talk')
<1>1. /\ ctx = "scanning" /\ hotplug_lock = t /\ ~Busy
      /\ ctx' = "scanned" /\ hotplug_lock' = None
      /\ UNCHANGED <<jobs, fresh, leaving, leave, monitor, usb_devs, hotplug_msgs,
                     alive, parent_dev, refcnt, pc, held, handle, new_callback,
                     drop, handler, message, visit, cb, needs_free, told,
                     unannounced>>
  BY DEF EndScan, Free, kernel, work, devices, threads, events
<1>0. Types
  BY DEF Core
<1>2. Types'
  <2>1. (hotplug_lock \in Actors \cup {None})'
    BY <1>1, <1>0 DEF Types
  <2> QED BY <2>1, <1>1, <1>0 DEF Types
<1>3. Lock'
  BY <1>1, <1>0, NoneAssumption, MonitorAssumption DEF Core, Lock, Busy, Types,
     Actors, Stages, Starting, Ending
<1>4. Stages'
  BY <1>1 DEF Core, Stages, Starting, Ending
<1>5. Steps'
  BY <1>1 DEF Core, Steps
<1>6. Once'
  BY <1>1, OnceAlone DEF Core
<1>7. Arrived'
  BY <1>1, ArrivedAlone DEF Core
<1>8. CountsMatchReferences'
  BY <1>1, <1>0, ReferencesAlone DEF Core, Types
<1>9. ASSUME OneLoop, Talk PROVE Talk'
  BY <1>1, <1>0, <1>9, TalkAlone DEF Types
<1> QED BY <1>2, <1>3, <1>4, <1>5, <1>6, <1>7, <1>8, <1>9 DEF Core

(* usbi_io_init: from now on messages are queued.                          *)
LEMMA IoInitKeeps ==
  ASSUME Core, NEW t \in Threads, usbi_io_init(t)
  PROVE  Core' /\ (OneLoop /\ Talk => Talk')
<1>1. /\ ctx = "scanned" /\ pc[t] = "init"
      /\ ctx' = "ready" /\ pc' = [pc EXCEPT ![t] = "idle"]
      /\ UNCHANGED <<hotplug_lock, jobs, fresh, leaving, leave, monitor, usb_devs,
                     hotplug_msgs, alive, parent_dev, refcnt, held, handle,
                     new_callback, drop, handler, message, visit, cb, needs_free,
                     told, unannounced>>
  BY DEF usbi_io_init, kernel, work, devices, events
<1>0. Types
  BY DEF Core
<1>a. \A u \in Threads : pc[u] # "enumerate"
  BY <1>1 DEF Core, Stages, Starting
<1>b. \A k \in Callbacks : cb[k] = "unused"
  BY <1>1 DEF Core, Stages, Starting
<1>2. Types'
  <2>1. (pc \in [Threads -> {"idle", "init", "exit", "poll", "polling", "copy", "enumerate",
                               "openGone", "openFails", "events"}])'
    BY <1>1, <1>0 DEF Types
  <2> QED BY <2>1, <1>1, <1>0 DEF Types
<1>3. Lock'
  BY <1>1 DEF Core, Lock, Busy
<1>4. Stages'
  BY <1>1, <1>0 DEF Core, Stages, Starting, Ending, Types
<1>5. Steps'
  BY <1>1 DEF Core, Steps
<1>6. Once'
  BY <1>1, OnceAlone DEF Core
<1>7. Arrived'
  BY <1>1, ArrivedAlone DEF Core
<1>8. CountsMatchReferences'
  BY <1>1, <1>0, ReferencesAlone DEF Core, Types
<1>9. ASSUME OneLoop, Talk PROVE Talk'
  <2>10. Registration'
    BY <1>1, <1>9 DEF Talk, Registration
  <2>11. Knows'
    BY <1>1, <1>a, <1>b, <1>0 DEF Knows, Listens, Registering, Types
  <2> QED BY <2>10, <2>11 DEF Talk
<1> QED BY <1>2, <1>3, <1>4, <1>5, <1>6, <1>7, <1>8, <1>9 DEF Core

(* libusb_exit begins, with no callback and no handle left.                *)
LEMMA ExitContextKeeps ==
  ASSUME Core, NEW t \in Threads, ExitContext(t)
  PROVE  Core' /\ (OneLoop /\ Talk => Talk')
<1>1. /\ ctx = "ready" /\ ~Busy
      /\ \A u \in Threads : pc[u] = "idle" /\ drop[u] = None
      /\ ctx' = "exiting" /\ pc' = [pc EXCEPT ![t] = "exit"]
      /\ cb' = [k \in Callbacks |-> IF cb[k] = "listed" THEN "freed" ELSE cb[k]]
      /\ UNCHANGED <<hotplug_lock, jobs, fresh, leaving, leave, monitor, usb_devs,
                     hotplug_msgs, alive, parent_dev, refcnt, held, handle,
                     new_callback, drop, handler, message, visit, needs_free,
                     told, unannounced>>
  BY DEF ExitContext, Idle, kernel, work, devices
<1>0. Types
  BY DEF Core
<1>2. Types'
  <2>1. (pc \in [Threads -> {"idle", "init", "exit", "poll", "polling", "copy", "enumerate",
                               "openGone", "openFails", "events"}])'
    BY <1>1, <1>0 DEF Types
  <2>2. (cb \in [Callbacks -> {"unused", "listed", "freed"}])'
    BY <1>1, <1>0 DEF Types
  <2> QED BY <2>1, <2>2, <1>1, <1>0 DEF Types
<1>3. Lock'
  BY <1>1 DEF Core, Lock, Busy
<1>4. Stages'
  BY <1>1 DEF Core, Stages, Starting, Ending, Busy
<1>5. Steps'
  BY <1>1 DEF Core, Steps
<1>6. Once'
  BY <1>1, OnceAlone DEF Core
<1>7. Arrived'
  BY <1>1, ArrivedAlone DEF Core
<1>8. CountsMatchReferences'
  BY <1>1, <1>0, ReferencesAlone DEF Core, Types
<1>9. ASSUME OneLoop, Talk PROVE Talk'
  <2>10. Registration'
    BY <1>1, <1>9, <1>0 DEF Talk, Registration, Types
  <2>11. Knows'
    <3>1. \A k \in Callbacks : cb'[k] # "listed"
      BY <1>1
    <3>2. \A u \in Threads : pc'[u] # "enumerate"
      BY <1>1, <1>0 DEF Types
    <3> QED BY <3>1, <3>2 DEF Knows, Listens, Registering
  <2> QED BY <2>10, <2>11 DEF Talk
<1> QED BY <1>2, <1>3, <1>4, <1>5, <1>6, <1>7, <1>8, <1>9 DEF Core

(* It drops a message, and the reference of a departure.                   *)
LEMMA ExitMessageKeeps ==
  ASSUME Core, NEW t \in Threads, ExitMessage(t)
  PROVE  Core' /\ (OneLoop /\ Talk => Talk')
<1>1. /\ pc[t] = "exit" /\ drop[t] = None /\ hotplug_msgs # << >>
      /\ hotplug_msgs' = Tail(hotplug_msgs)
      /\ drop' = [drop EXCEPT ![t] = IF Head(hotplug_msgs).event = "LEFT"
                                    THEN Head(hotplug_msgs).device ELSE None]
      /\ UNCHANGED <<hotplug_lock, jobs, fresh, leaving, leave, monitor, ctx,
                     usb_devs, alive, parent_dev, refcnt, pc, held, handle,
                     new_callback, handler, message, visit, cb, needs_free, told,
                     unannounced>>
  BY DEF ExitMessage, kernel, work, context, devices, threads, events
<1>0. Types
  BY DEF Core
<1>a. /\ leaving = None /\ handler = None /\ message = None
      /\ \A u \in Threads : pc[u] # "enumerate"
      /\ \A k \in Callbacks : cb[k] # "listed"
  BY <1>0, <1>1, NoneAssumption DEF Core, Stages, Steps, Types, Starting, Ending, Busy
<1>b. PICK m : m = Head(hotplug_msgs)
  OBVIOUS
<1>c. PICK dd : dd = IF m.event = "LEFT" THEN m.device ELSE None
  OBVIOUS
<1>d. /\ m \in Messages /\ hotplug_msgs' \in Seq(Messages)
      /\ \A e, c : Queued(e, c) <=> m = Message(e, c) \/ Queued(e, c)'
      /\ \A c \in Devs : m = Message("LEFT", c) => ~Queued("LEFT", c)'
      /\ \A c \in Devs : \A i, j \in 1 .. Len(hotplug_msgs') :
           hotplug_msgs'[i] = Message("LEFT", c) /\ hotplug_msgs'[j] = Message("LEFT", c) => i = j
      /\ \A c \in Devs : \A i \in 1 .. Len(hotplug_msgs') :
           hotplug_msgs'[i] = Message("ARRIVED", c) =>
             \/ c \in usb_devs \/ Unlisted(c)
             \/ \E j \in i + 1 .. Len(hotplug_msgs') : hotplug_msgs'[j] = Message("LEFT", c)
      /\ \A c \in Devs : m = Message("ARRIVED", c) =>
           c \in usb_devs \/ Unlisted(c) \/ Queued("LEFT", c)'
  BY <1>1, <1>a, <1>b, TakenKeeps
<1>e. /\ dd \in Devs \cup {None} /\ \A c \in Devs : c = dd <=> m = Message("LEFT", c)
      /\ drop' = [drop EXCEPT ![t] = dd]
  BY <1>1, <1>b, <1>c, <1>d, NoMessage, MessagesDiffer, NoneAssumption
<1>f. /\ \A c \in Devs : ~Unlisted(c) /\ ~Unlisted(c)'
      /\ \A c \in Devs : Departed(c)' <=> Departed(c) /\ c # dd
      /\ \A c \in Devs : c = dd => Departed(c) /\ c \notin usb_devs /\ c \notin unannounced
  <2>1. \A c \in Devs : ~Unlisted(c) /\ ~Unlisted(c)' /\ message # Message("LEFT", c)
    BY <1>1, <1>a, NoMessage, NoneAssumption DEF Unlisted
  <2>2. \A c \in Devs : c = dd => Queued("LEFT", c) /\ ~Queued("LEFT", c)' /\ c \notin unannounced
    BY <1>d, <1>e DEF Core, Once
  <2>3. \A c \in Devs : Queued("LEFT", c)' => Queued("LEFT", c) /\ c # dd
    BY <1>d, <2>2
  <2>4. \A c \in Devs : Queued("LEFT", c) => Queued("LEFT", c)' \/ c = dd
    BY <1>d, <1>e
  <2>5. \A c \in Devs : /\ Departed(c) <=> Queued("LEFT", c) \/ c \in unannounced
                        /\ Departed(c)' <=> Queued("LEFT", c)' \/ c \in unannounced
    BY <1>0, <1>1, <1>d, <2>1, DepartedIs, DepartedIsNext
  <2>6. \A c \in Devs : c \in usb_devs => ~Departed(c)
    BY DEF Core, Once
  <2> QED BY <2>1, <2>2, <2>3, <2>4, <2>5, <2>6
<1>2. Types'
  <2>1. (drop \in [Actors -> Devs \cup {None}])'
    BY <1>0, <1>e DEF Types
  <2> QED BY <2>1, <1>1, <1>0, <1>d DEF Types
<1>3. Lock'
  BY <1>1, <1>0, <1>a, <1>e DEF Core, Types, Lock, Busy
<1>4. Stages'
  BY <1>1, <1>0, <1>d DEF Core, Types, Stages, Starting, Ending, Busy
<1>5. Steps'
  BY <1>1, <1>0, <1>e, MonitorAssumption DEF Core, Steps, Types, Actors
<1>6. Once'
  <2>1. ASSUME NEW c \in Devs
        PROVE  /\ c \in usb_devs' => ~Departed(c)'
               /\ Unlisted(c)' => ~Queued("LEFT", c)' /\ message' # Message("LEFT", c)
                                  /\ c \notin unannounced'
               /\ Queued("LEFT", c)' => message' # Message("LEFT", c) /\ c \notin unannounced'
               /\ message' = Message("LEFT", c) => c \notin unannounced'
    BY <1>1, <1>0, <1>a, <1>d, <1>e, <1>f, NoMessage DEF Core, Once
  <2> QED BY <2>1, <1>d DEF Once, Msg, Message
<1>7. Arrived'
  <2>1. \A c \in Devs : message' # Message("ARRIVED", c)
    BY <1>1, <1>a, NoMessage
  <2>2. \A c \in Devs : \A i \in 1 .. Len(hotplug_msgs') :
          hotplug_msgs'[i] = Message("ARRIVED", c) =>
            \/ c \in usb_devs'
            \/ \E j \in i + 1 .. Len(hotplug_msgs') : hotplug_msgs'[j] = Message("LEFT", c)
    BY <1>1, <1>d, <1>f
  <2> QED BY <2>1, <2>2 DEF Arrived, Msg, Message
<1>8. CountsMatchReferences'
  <2>1. \A c \in Devs : Initial(c)' <=> Initial(c) /\ c # dd
    BY <1>1, <1>f DEF Initial
  <2>2. ASSUME NEW c \in Devs, c # dd PROVE Kept(c)
    <3>1. Same(c)
      BY <2>1, <2>2, <1>0, <1>1, <1>e, <1>f, NoneAssumption DEF Same, Types, Actors
    <3> QED BY <3>1, <1>0, <1>1, <2>2, KeptIfSame DEF Types
  <2>3. ASSUME NEW c \in Devs, c = dd
        PROVE  Moves(c, <<"initial", None>>, <<"drop", t>>)
    <3>1. <<"initial", None>> \in References(c) /\ <<"drop", t>> \notin References(c)
      BY <2>1, <2>3, <1>0, <1>1, <1>e, <1>f, NoneAssumption, Referenced DEF Initial
    <3>2. \A u \in Actors : c = drop'[u] <=> c = drop[u] \/ u = t
      BY <2>3, <1>0, <1>1, <1>e, <1>f, NoneAssumption DEF Types, Actors
    <3>3. \A z : z \in References(c)' <=>
                   (z \in References(c) /\ z # <<"initial", None>>) \/ z = <<"drop", t>>
      BY <3>2, <2>1, <2>3, <1>1, NoneAssumption, Referenced, ReferencedNext DEF Actors
    <3> QED BY <3>1, <3>3, <1>1 DEF Moves
  <2> QED BY <2>2, <2>3, <1>0, CountsChange DEF Core
<1>9. ASSUME OneLoop, Talk PROVE Talk'
  <2>10. Registration'
    BY <1>1, <1>9, RegistrationAlone DEF Talk
  <2>11. Knows'
    BY <1>1, <1>a DEF Knows, Listens, Registering
  <2> QED BY <2>10, <2>11 DEF Talk
<1> QED BY <1>2, <1>3, <1>4, <1>5, <1>6, <1>7, <1>8, <1>9 DEF Core

(* It drops a device of the list.                                          *)
LEMMA ExitDeviceKeeps ==
  ASSUME Core, NEW t \in Threads, NEW d \in Devs, ExitDevice(t, d)
  PROVE  Core' /\ (OneLoop /\ Talk => Talk')
<1>1. /\ pc[t] = "exit" /\ drop[t] = None /\ hotplug_msgs = << >> /\ d \in usb_devs
      /\ usb_devs' = usb_devs \ {d}
      /\ drop' = [drop EXCEPT ![t] = d]
      /\ UNCHANGED <<hotplug_lock, jobs, fresh, leaving, leave, monitor, ctx,
                     hotplug_msgs, alive, parent_dev, refcnt, pc, held, handle,
                     new_callback, handler, message, visit, cb, needs_free, told,
                     unannounced>>
  BY DEF ExitDevice, kernel, work, context, devices, threads, events
<1>0. Types
  BY DEF Core
<1>a. /\ ~Departed(d) /\ ~Busy /\ handler = None /\ message = None
      /\ \A u \in Threads : pc[u] # "enumerate"
      /\ \A k \in Callbacks : cb[k] # "listed"
  BY <1>0, <1>1, NoneAssumption DEF Core, Once, Stages, Steps, Types, Starting, Ending
<1>b. /\ \A c : Departed(c)' <=> Departed(c)
      /\ \A c : Unlisted(c)' <=> Unlisted(c)
      /\ \A e, c : ~Queued(e, c) /\ ~Queued(e, c)'
  BY <1>1 DEF Departed, Message, Queued, Msg, Unlisted
<1>2. Types'
  <2>1. (usb_devs \subseteq Devs)'
    BY <1>1, <1>0 DEF Types
  <2>2. (drop \in [Actors -> Devs \cup {None}])'
    BY <1>1, <1>0 DEF Types
  <2> QED BY <2>1, <2>2, <1>1, <1>0 DEF Types
<1>3. Lock'
  BY <1>1, <1>0, NoneAssumption, MonitorAssumption DEF Core, Lock, Busy, Types,
     Actors, Stages
<1>4. Stages'
  BY <1>1 DEF Core, Stages, Starting, Ending, Busy
<1>5. Steps'
  BY <1>1, <1>0, MonitorAssumption DEF Core, Steps, Types, Actors
<1>6. Once'
  BY <1>a, <1>b, <1>1, <1>0, NoneAssumption, NoMessage DEF Core, Once, Msg, Message
<1>7. Arrived'
  BY <1>a, <1>b, <1>1, <1>0, NoneAssumption, NoMessage DEF Arrived, Msg, Message
<1>8. CountsMatchReferences'
  <2>1. \A c \in Devs : Initial(c)' <=> Initial(c) /\ c # d
    BY <1>1, <1>a, <1>b DEF Initial
  <2>2. ASSUME NEW c \in Devs, c # d PROVE Kept(c)
    <3>1. Same(c)
      BY <2>1, <2>2, <1>0, <1>1, NoneAssumption DEF Same, Types, Actors
    <3> QED BY <3>1, <1>0, <1>1, <2>2, KeptIfSame DEF Types
  <2>3. ASSUME NEW c \in Devs, c = d
        PROVE  Moves(c, <<"initial", None>>, <<"drop", t>>)
    <3>1. <<"initial", None>> \in References(c) /\ <<"drop", t>> \notin References(c)
      BY <2>1, <2>3, <1>0, <1>1, NoneAssumption, Referenced DEF Initial
    <3>2. \A u \in Actors : c = drop'[u] <=> c = drop[u] \/ u = t
      BY <2>3, <1>0, <1>1, NoneAssumption DEF Types, Actors
    <3>3. \A z : z \in References(c)' <=>
                   (z \in References(c) /\ z # <<"initial", None>>) \/ z = <<"drop", t>>
      BY <3>2, <2>1, <2>3, <1>1, NoneAssumption, Referenced, ReferencedNext DEF Actors
    <3> QED BY <3>1, <3>3, <1>1 DEF Moves
  <2> QED BY <2>2, <2>3, <1>0, CountsChange DEF Core
<1>9. ASSUME OneLoop, Talk PROVE Talk'
  <2>10. Registration'
    BY <1>1, <1>9, RegistrationAlone DEF Talk
  <2>11. Knows'
    BY <1>1, <1>a DEF Knows, Listens, Registering
  <2> QED BY <2>10, <2>11 DEF Talk
<1> QED BY <1>2, <1>3, <1>4, <1>5, <1>6, <1>7, <1>8, <1>9 DEF Core

(* It stops the monitor.                                                   *)
LEMMA ExitMonitorKeeps ==
  ASSUME Core, NEW t \in Threads, ExitMonitor(t)
  PROVE  Core' /\ (OneLoop /\ Talk => Talk')
<1>1. /\ pc[t] = "exit" /\ drop[t] = None /\ monitor \in {"poll", "ended"}
      /\ monitor' = "off" /\ ctx' = "gone" /\ pc' = [pc EXCEPT ![t] = "idle"]
      /\ UNCHANGED <<hotplug_lock, jobs, fresh, leaving, leave, usb_devs,
                     hotplug_msgs, alive, parent_dev, refcnt, held, handle,
                     new_callback, drop, handler, message, visit, cb, needs_free,
                     told, unannounced>>
  BY DEF ExitMonitor, work, devices, events
<1>0. Types
  BY DEF Core
<1>2. Types'
  <2>1. (pc \in [Threads -> {"idle", "init", "exit", "poll", "polling", "copy", "enumerate",
                               "openGone", "openFails", "events"}])'
    BY <1>1, <1>0 DEF Types
  <2> QED BY <2>1, <1>1, <1>0 DEF Types
<1>3. Lock'
  BY <1>1, <1>0, NoneAssumption, MonitorAssumption DEF Core, Lock, Busy, Types,
     Actors, Stages
<1>4. Stages'
  BY <1>1 DEF Core, Stages, Starting, Ending, Busy
<1>5. Steps'
  BY <1>1 DEF Core, Steps
<1>6. Once'
  BY <1>1, OnceAlone DEF Core
<1>7. Arrived'
  BY <1>1, ArrivedAlone DEF Core
<1>8. CountsMatchReferences'
  BY <1>1, <1>0, ReferencesAlone DEF Core, Types
<1>9. ASSUME OneLoop, Talk PROVE Talk'
  <2>10. Registration'
    BY <1>1, <1>9 DEF Talk, Registration
  <2>11. Knows'
    BY <1>1, <1>0, <1>9, KnowsAsIs DEF Talk, Types
  <2> QED BY <2>10, <2>11 DEF Talk
<1> QED BY <1>2, <1>3, <1>4, <1>5, <1>6, <1>7, <1>8, <1>9 DEF Core

(* libusb_get_device_list begins.                                          *)
LEMMA GetDeviceListKeeps ==
  ASSUME Core, NEW t \in Threads, GetDeviceList(t)
  PROVE  Core' /\ (OneLoop /\ Talk => Talk')
<1>1. /\ ctx = "ready" /\ pc[t] = "idle" /\ drop[t] = None /\ held[t] = {}
      /\ pc' = [pc EXCEPT ![t] = "poll"]
      /\ UNCHANGED <<hotplug_lock, jobs, fresh, leaving, leave, monitor, ctx,
                     usb_devs, hotplug_msgs, alive, parent_dev, refcnt, held,
                     handle, new_callback, drop, handler, message, visit, cb,
                     needs_free, told, unannounced>>
  BY DEF GetDeviceList, Idle, kernel, work, context, devices, events
<1>0. Types
  BY DEF Core
<1>2. Types'
  <2>1. (pc \in [Threads -> {"idle", "init", "exit", "poll", "polling", "copy", "enumerate",
                               "openGone", "openFails", "events"}])'
    BY <1>1, <1>0 DEF Types
  <2> QED BY <2>1, <1>1, <1>0 DEF Types
<1>3. Lock'
  BY <1>1 DEF Core, Lock, Busy
<1>4. Stages'
  BY <1>1 DEF Core, Stages, Starting, Ending
<1>5. Steps'
  BY <1>1 DEF Core, Steps
<1>6. Once'
  BY <1>1, OnceAlone DEF Core
<1>7. Arrived'
  BY <1>1, ArrivedAlone DEF Core
<1>8. CountsMatchReferences'
  BY <1>1, <1>0, ReferencesAlone DEF Core, Types
<1>9. ASSUME OneLoop, Talk PROVE Talk'
  <2>10. Registration'
    BY <1>1, <1>9 DEF Talk, Registration
  <2>11. Knows'
    BY <1>1, <1>0, <1>9, KnowsAsIs DEF Talk, Types
  <2> QED BY <2>10, <2>11 DEF Talk
<1> QED BY <1>2, <1>3, <1>4, <1>5, <1>6, <1>7, <1>8, <1>9 DEF Core

(* It takes the lock,                                                      *)
LEMMA PollLockKeeps ==
  ASSUME Core, NEW t \in Threads, PollLock(t)
  PROVE  Core' /\ (OneLoop /\ Talk => Talk')
<1>1. /\ pc[t] = "poll" /\ hotplug_lock = None
      /\ hotplug_lock' = t /\ pc' = [pc EXCEPT ![t] = "polling"]
      /\ UNCHANGED <<jobs, fresh, leaving, leave, monitor, ctx, usb_devs,
                     hotplug_msgs, alive, parent_dev, refcnt, held, handle,
                     new_callback, drop, handler, message, visit, cb, needs_free,
                     told, unannounced>>
  BY DEF PollLock, kernel, work, context, devices, events
<1>0. Types
  BY DEF Core
<1>2. Types'
  <2>1. (pc \in [Threads -> {"idle", "init", "exit", "poll", "polling", "copy", "enumerate",
                               "openGone", "openFails", "events"}])'
    BY <1>1, <1>0 DEF Types
  <2>2. (hotplug_lock \in Actors \cup {None})'
    BY <1>1, <1>0, NoneAssumption DEF Types, Actors
  <2> QED BY <2>1, <2>2, <1>1, <1>0 DEF Types
<1>3. Lock'
  BY <1>1, <1>0, NoneAssumption, MonitorAssumption DEF Core, Lock, Busy, Types, Actors
<1>4. Stages'
  BY <1>1 DEF Core, Stages, Starting, Ending
<1>5. Steps'
  BY <1>1 DEF Core, Steps
<1>6. Once'
  BY <1>1, OnceAlone DEF Core
<1>7. Arrived'
  BY <1>1, ArrivedAlone DEF Core
<1>8. CountsMatchReferences'
  BY <1>1, <1>0, ReferencesAlone DEF Core, Types
<1>9. ASSUME OneLoop, Talk PROVE Talk'
  <2>10. Registration'
    BY <1>1, <1>9 DEF Talk, Registration
  <2>11. Knows'
    BY <1>1, <1>0, <1>9, KnowsAsIs DEF Talk, Types
  <2> QED BY <2>10, <2>11 DEF Talk
<1> QED BY <1>2, <1>3, <1>4, <1>5, <1>6, <1>7, <1>8, <1>9 DEF Core

(* and gives it back when there is nothing more to read.                   *)
LEMMA PollEndsKeeps ==
  ASSUME Core, NEW t \in Threads, PollEnds(t)
  PROVE  Core' /\ (OneLoop /\ Talk => Talk')
<1>1. /\ pc[t] = "polling" /\ hotplug_lock = t /\ ~Busy /\ drop[t] = None
      /\ hotplug_lock' = None /\ pc' = [pc EXCEPT ![t] = "copy"]
      /\ UNCHANGED <<jobs, fresh, leaving, leave, monitor, ctx, usb_devs,
                     hotplug_msgs, alive, parent_dev, refcnt, held, handle,
                     new_callback, drop, handler, message, visit, cb, needs_free,
                     told, unannounced>>
  BY DEF PollEnds, Free, work, context, devices, events
<1>0. Types
  BY DEF Core
<1>2. Types'
  <2>1. (pc \in [Threads -> {"idle", "init", "exit", "poll", "polling", "copy", "enumerate",
                               "openGone", "openFails", "events"}])'
    BY <1>1, <1>0 DEF Types
  <2>2. (hotplug_lock \in Actors \cup {None})'
    BY <1>1, <1>0 DEF Types
  <2> QED BY <2>1, <2>2, <1>1, <1>0 DEF Types
<1>3. Lock'
  BY <1>1, <1>0, NoneAssumption, MonitorAssumption DEF Core, Lock, Busy, Types, Actors
<1>4. Stages'
  BY <1>1 DEF Core, Stages, Starting, Ending
<1>5. Steps'
  BY <1>1 DEF Core, Steps
<1>6. Once'
  BY <1>1, OnceAlone DEF Core
<1>7. Arrived'
  BY <1>1, ArrivedAlone DEF Core
<1>8. CountsMatchReferences'
  BY <1>1, <1>0, ReferencesAlone DEF Core, Types
<1>9. ASSUME OneLoop, Talk PROVE Talk'
  <2>10. Registration'
    BY <1>1, <1>9 DEF Talk, Registration
  <2>11. Knows'
    BY <1>1, <1>0, <1>9, KnowsAsIs DEF Talk, Types
  <2> QED BY <2>10, <2>11 DEF Talk
<1> QED BY <1>2, <1>3, <1>4, <1>5, <1>6, <1>7, <1>8, <1>9 DEF Core

(* It refers to each device of the list.                                   *)
LEMMA CopyListKeeps ==
  ASSUME Core, NEW t \in Threads, CopyList(t)
  PROVE  Core' /\ (OneLoop /\ Talk => Talk')
<1>1. /\ pc[t] = "copy"
      /\ held' = [held EXCEPT ![t] = usb_devs] /\ Ref(usb_devs)
      /\ pc' = [pc EXCEPT ![t] = IF new_callback[t] = None THEN "idle" ELSE "enumerate"]
      /\ UNCHANGED <<hotplug_lock, jobs, fresh, leaving, leave, monitor, ctx,
                     usb_devs, hotplug_msgs, alive, parent_dev, handle,
                     new_callback, drop, handler, message, visit, cb, needs_free,
                     told, unannounced>>
  BY DEF CopyList, kernel, work, context, devices, events
<1>0. Types
  BY DEF Core
<1>a. /\ refcnt' \in [Devs -> Nat]
      /\ \A e \in Devs : refcnt'[e] = IF e \in usb_devs THEN refcnt[e] + 1 ELSE refcnt[e]
  BY <1>1, <1>0, RefIs
<1>b. held[t] = {} /\ usb_devs \subseteq Devs
  BY <1>1, <1>0 DEF Core, Steps, Types
<1>2. Types'
  <2>1. (held \in [Threads -> SUBSET Devs])'
    BY <1>0, <1>1 DEF Types
  <2>2. (pc \in [Threads -> {"idle", "init", "exit", "poll", "polling", "copy", "enumerate",
                               "openGone", "openFails", "events"}])'
    BY <1>0, <1>1 DEF Types
  <2> QED BY <2>1, <2>2, <1>1, <1>0, <1>a DEF Types
<1>3. Lock'
  BY <1>1 DEF Core, Lock, Busy
<1>4. Stages'
  BY <1>1 DEF Core, Stages, Starting, Ending
<1>5. Steps'
  BY <1>1, <1>0 DEF Core, Steps, Types
<1>6. Once'
  BY <1>1, OnceAlone DEF Core
<1>7. Arrived'
  BY <1>1, ArrivedAlone DEF Core
<1>8. CountsMatchReferences'
  <2>1. \A c \in Devs : Initial(c)' <=> Initial(c)
    BY <1>1 DEF Initial, Departed, Message
  <2>2. ASSUME NEW c \in Devs, c \notin usb_devs PROVE Kept(c)
    <3>1. Same(c)
      BY <2>1, <2>2, <1>0, <1>1, <1>b DEF Same, Types
    <3> QED BY <3>1, <1>0, <1>1, <1>a, <2>2, KeptIfSame DEF Types
  <2>3. ASSUME NEW c \in usb_devs PROVE Gains(c, <<"held", t>>)
    <3>1. <<"held", t>> \notin References(c)
      BY <1>b, Referenced
    <3>2. \A u \in Threads : c \in held'[u] <=> c \in held[u] \/ u = t
      BY <1>0, <1>1, <1>b DEF Types
    <3>3. \A z : z \in References(c)' <=> z \in References(c) \/ z = <<"held", t>>
      BY <3>2, <2>1, <1>1, <1>b, Referenced, ReferencedNext
    <3>4. c \in alive
      BY <1>0, <1>b, InitialIsAlive DEF Core, Initial
    <3> QED BY <3>1, <3>3, <3>4, <1>1, <1>a, <1>b DEF Gains
  <2> QED BY <2>2, <2>3, <1>0, CountsChange DEF Core
<1>9. ASSUME OneLoop, Talk PROVE Talk'
  <2>10. Registration'
    BY <1>1, <1>9 DEF Talk, Registration
  <2>11. Knows'
    <3>1. ASSUME NEW k \in Callbacks, Listens(k)'
          PROVE  /\ \A e \in told'[k] : e \in usb_devs' \/ Going(k, e)'
                 /\ k \in Enumerating /\ ctx' = "ready" =>
                      \A e \in usb_devs' : e \in told'[k] \/ Coming(k, e)'
      <4>1. Listens(k) /\ UNCHANGED <<told, ctx, usb_devs>>
        BY <1>1, <3>1 DEF Listens, Registering
      <4>2. \A e : (Going(k, e)' <=> Going(k, e)) /\ (Coming(k, e)' <=> Coming(k, e))
        BY <1>1 DEF Going, Coming, Message, Unlisted, Queued, Msg
      <4> QED BY <1>9, <4>1, <4>2 DEF Talk, Knows
    <3>2. ASSUME NEW u \in Threads, pc'[u] = "enumerate"
          PROVE  /\ \A e \in held'[u] : e \in usb_devs' \/ Queued("LEFT", e)' \/ Unlisted(e)'
                 /\ \A e \in usb_devs' : e \in held'[u] \/ Queued("ARRIVED", e)' \/ fresh' = e
      <4>1. \A e, c : (Queued(e, c)' <=> Queued(e, c)) /\ (Unlisted(c)' <=> Unlisted(c))
        BY <1>1 DEF Message, Unlisted, Queued, Msg
      <4>2. CASE u = t
        BY <4>2, <1>1, <1>0 DEF Types
      <4>3. CASE u # t
        <5>1. pc[u] = "enumerate" /\ held'[u] = held[u] /\ UNCHANGED <<usb_devs, fresh>>
          BY <4>3, <3>2, <1>1, <1>0 DEF Types
        <5> QED BY <5>1, <4>1, <1>9 DEF Talk, Knows
      <4> QED BY <4>2, <4>3
    <3> QED BY <3>1, <3>2 DEF Knows
  <2> QED BY <2>10, <2>11 DEF Talk
<1> QED BY <1>2, <1>3, <1>4, <1>5, <1>6, <1>7, <1>8, <1>9 DEF Core

(* libusb_free_device_list gives up one of these references.               *)
LEMMA ReleaseKeeps ==
  ASSUME Core, NEW t \in Threads, NEW d \in Devs, Release(t, d)
  PROVE  Core' /\ (OneLoop /\ Talk => Talk')
<1>1. /\ pc[t] = "idle" /\ drop[t] = None /\ d \in held[t]
      /\ held' = [held EXCEPT ![t] = @ \ {d}] /\ drop' = [drop EXCEPT ![t] = d]
      /\ UNCHANGED <<hotplug_lock, jobs, fresh, leaving, leave, monitor, ctx,
                     usb_devs, hotplug_msgs, alive, parent_dev, refcnt, pc,
                     handle, new_callback, handler, message, visit, cb,
                     needs_free, told, unannounced>>
  BY DEF Release, Idle, kernel, work, context, devices, events
<1>0. Types
  BY DEF Core
<1>2. Types'
  <2>1. (held \in [Threads -> SUBSET Devs])'
    BY <1>1, <1>0 DEF Types
  <2>2. (drop \in [Actors -> Devs \cup {None}])'
    BY <1>1, <1>0 DEF Types
  <2> QED BY <2>1, <2>2, <1>1, <1>0 DEF Types
<1>3. Lock'
  BY <1>1 DEF Core, Lock, Busy
<1>4. Stages'
  BY <1>1 DEF Core, Stages, Starting, Ending, Busy
<1>5. Steps'
  BY <1>1, <1>0, MonitorAssumption DEF Core, Steps, Types, Actors
<1>6. Once'
  BY <1>1, OnceAlone DEF Core
<1>7. Arrived'
  BY <1>1, ArrivedAlone DEF Core
<1>8. CountsMatchReferences'
  <2>1. \A c \in Devs : Initial(c)' <=> Initial(c)
    BY <1>1 DEF Initial, Departed, Message
  <2>2. ASSUME NEW c \in Devs, c # d PROVE Kept(c)
    <3>1. Same(c)
      BY <2>1, <2>2, <1>0, <1>1, NoneAssumption DEF Same, Types, Actors
    <3> QED BY <3>1, <1>0, <1>1, <2>2, KeptIfSame DEF Types
  <2>3. ASSUME NEW c \in Devs, c = d
        PROVE  Moves(c, <<"held", t>>, <<"drop", t>>)
    <3>1. <<"held", t>> \in References(c) /\ <<"drop", t>> \notin References(c)
      BY <2>1, <2>3, <1>0, <1>1, NoneAssumption, Referenced DEF Initial
    <3>2. /\ \A u \in Actors : c = drop'[u] <=> c = drop[u] \/ u = t
          /\ \A u \in Threads : c \in held'[u] <=> c \in held[u] /\ u # t
      BY <2>3, <1>0, <1>1, NoneAssumption DEF Types, Actors
    <3>3. \A z : z \in References(c)' <=>
                   (z \in References(c) /\ z # <<"held", t>>) \/ z = <<"drop", t>>
      BY <3>2, <2>1, <2>3, <1>1, NoneAssumption, Referenced, ReferencedNext DEF Actors
    <3> QED BY <3>1, <3>3, <1>1 DEF Moves
  <2> QED BY <2>2, <2>3, <1>0, CountsChange DEF Core
<1>9. ASSUME OneLoop, Talk PROVE Talk'
  BY <1>1, <1>0, <1>9, TalkAlone DEF Types
<1> QED BY <1>2, <1>3, <1>4, <1>5, <1>6, <1>7, <1>8, <1>9 DEF Core

(* libusb_open: the handle refers to the device.                           *)
LEMMA OpenKeeps ==
  ASSUME Core, NEW t \in Threads, NEW d \in Devs, Open(t, d)
  PROVE  Core' /\ (OneLoop /\ Talk => Talk')
<1>1. /\ ctx = "ready" /\ pc[t] = "idle" /\ drop[t] = None /\ handle[t] = None /\ d \in held[t]
      /\ handle' = [handle EXCEPT ![t] = d] /\ Ref({d})
      /\ pc' = pc \/ pc' = [pc EXCEPT ![t] = "openGone"]
      /\ UNCHANGED <<hotplug_lock, jobs, fresh, leaving, leave, monitor, ctx,
                     usb_devs, hotplug_msgs, alive, parent_dev, held,
                     new_callback, drop, handler, message, visit, cb, needs_free,
                     told, unannounced>>
  BY DEF Open, Idle, kernel, work, context, devices, events
<1>0. Types
  BY DEF Core
<1>a. /\ refcnt' \in [Devs -> Nat]
      /\ \A e \in Devs : refcnt'[e] = IF e \in {d} THEN refcnt[e] + 1 ELSE refcnt[e]
  BY <1>1, <1>0, RefIs
<1>b. d \in alive
  BY <1>0, <1>1, Referenced, ReferredIsAlive DEF Core
<1>2. Types'
  <2>1. (handle \in [Threads -> Devs \cup {None}])'
    BY <1>0, <1>1 DEF Types
  <2>2. (pc \in [Threads -> {"idle", "init", "exit", "poll", "polling", "copy", "enumerate",
                               "openGone", "openFails", "events"}])'
    BY <1>0, <1>1 DEF Types
  <2> QED BY <2>1, <2>2, <1>1, <1>0, <1>a DEF Types
<1>3. Lock'
  BY <1>1, <1>0 DEF Core, Lock, Busy, Types
<1>4. Stages'
  BY <1>1, <1>0 DEF Core, Stages, Starting, Ending, Types
<1>5. Steps'
  BY <1>1, <1>0 DEF Core, Steps, Types
<1>6. Once'
  BY <1>1, OnceAlone DEF Core
<1>7. Arrived'
  BY <1>1, ArrivedAlone DEF Core
<1>8. CountsMatchReferences'
  <2>1. \A c \in Devs : Initial(c)' <=> Initial(c)
    BY <1>1 DEF Initial, Departed, Message
  <2>2. ASSUME NEW c \in Devs, c # d PROVE Kept(c)
    <3>1. Same(c)
      BY <2>1, <2>2, <1>0, <1>1, NoneAssumption DEF Same, Types
    <3> QED BY <3>1, <1>0, <1>1, <1>a, <2>2, KeptIfSame DEF Types
  <2>3. Gains(d, <<"handle", t>>)
    <3>1. <<"handle", t>> \notin References(d)
      BY <1>1, NoneAssumption, Referenced
    <3>2. \A u \in Threads : d = handle'[u] <=> d = handle[u] \/ u = t
      BY <1>0, <1>1 DEF Types
    <3>3. \A z : z \in References(d)' <=> z \in References(d) \/ z = <<"handle", t>>
      BY <3>2, <2>1, <1>1, Referenced, ReferencedNext
    <3> QED BY <3>1, <3>3, <1>1, <1>a, <1>b DEF Gains
  <2> QED BY <2>2, <2>3, <1>0, CountsChange DEF Core
<1>9. ASSUME OneLoop, Talk PROVE Talk'
  <2>10. Registration'
    <3>1. \A u \in Threads : \/ pc'[u] = pc[u]
                               \/ (u = t /\ pc'[u] \notin {"enumerate", "events"} /\ pc[u] = "idle")
      BY <1>0, <1>1 DEF Types
    <3> QED BY <3>1, <1>1, <1>9 DEF Talk, Registration
  <2>11. Knows'
    BY <1>1, <1>0, <1>9, KnowsAsIs DEF Talk, Types
  <2> QED BY <2>10, <2>11 DEF Talk
<1> QED BY <1>2, <1>3, <1>4, <1>5, <1>6, <1>7, <1>8, <1>9 DEF Core

(* libusb_open has failed, and gives the reference up.                     *)
LEMMA OpenFailsKeeps ==
  ASSUME Core, NEW t \in Threads, OpenFails(t)
  PROVE  Core' /\ (OneLoop /\ Talk => Talk')
<1>1. /\ pc[t] = "openFails" /\ hotplug_lock = t /\ ~Busy /\ drop[t] = None
      /\ hotplug_lock' = None /\ pc' = [pc EXCEPT ![t] = "idle"]
      /\ handle' = [handle EXCEPT ![t] = None] /\ drop' = [drop EXCEPT ![t] = handle[t]]
      /\ UNCHANGED <<jobs, fresh, leaving, leave, monitor, ctx, usb_devs,
                     hotplug_msgs, alive, parent_dev, refcnt, held, new_callback,
                     handler, message, visit, cb, needs_free, told, unannounced>>
  BY DEF OpenFails, Free, kernel, work, context, devices, events
<1>0. Types
  BY DEF Core
<1>2. Types'
  <2>1. (hotplug_lock \in Actors \cup {None})'
    BY <1>1, <1>0 DEF Types
  <2>2. (pc \in [Threads -> {"idle", "init", "exit", "poll", "polling", "copy", "enumerate",
                               "openGone", "openFails", "events"}])'
    BY <1>1, <1>0 DEF Types
  <2>3. (handle \in [Threads -> Devs \cup {None}])'
    BY <1>1, <1>0 DEF Types
  <2>4. (drop \in [Actors -> Devs \cup {None}])'
    BY <1>1, <1>0 DEF Types
  <2> QED BY <2>1, <2>2, <2>3, <2>4, <1>1, <1>0 DEF Types
<1>3. Lock'
  BY <1>1, <1>0, NoneAssumption, MonitorAssumption DEF Core, Lock, Busy, Types, Actors
<1>4. Stages'
  BY <1>1 DEF Core, Stages, Starting, Ending
<1>5. Steps'
  BY <1>1, <1>0, MonitorAssumption DEF Core, Steps, Types, Actors
<1>6. Once'
  BY <1>1, OnceAlone DEF Core
<1>7. Arrived'
  BY <1>1, ArrivedAlone DEF Core
<1>8. CountsMatchReferences'
  <2>1. \A c \in Devs : Initial(c)' <=> Initial(c)
    BY <1>1 DEF Initial, Departed, Message
  <2>2. ASSUME NEW c \in Devs, c # handle[t] PROVE Kept(c)
    <3>1. Same(c)
      BY <2>1, <2>2, <1>0, <1>1, NoneAssumption DEF Same, Types, Actors
    <3> QED BY <3>1, <1>0, <1>1, <2>2, KeptIfSame DEF Types
  <2>3. ASSUME NEW c \in Devs, c = handle[t]
        PROVE  Moves(c, <<"handle", t>>, <<"drop", t>>)
    <3>1. <<"handle", t>> \in References(c) /\ <<"drop", t>> \notin References(c)
      BY <2>1, <2>3, <1>0, <1>1, NoneAssumption, Referenced DEF Initial
    <3>2. /\ \A u \in Actors : c = drop'[u] <=> c = drop[u] \/ u = t
          /\ \A u \in Threads : c = handle'[u] <=> c = handle[u] /\ u # t
      BY <2>3, <1>0, <1>1, NoneAssumption DEF Types, Actors
    <3>3. \A z : z \in References(c)' <=>
                   (z \in References(c) /\ z # <<"handle", t>>) \/ z = <<"drop", t>>
      BY <3>2, <2>1, <2>3, <1>1, NoneAssumption, Referenced, ReferencedNext DEF Actors
    <3> QED BY <3>1, <3>3, <1>1 DEF Moves
  <2> QED BY <2>2, <2>3, <1>0, CountsChange DEF Core
<1>9. ASSUME OneLoop, Talk PROVE Talk'
  <2>10. Registration'
    BY <1>1, <1>9 DEF Talk, Registration
  <2>11. Knows'
    BY <1>1, <1>0, <1>9, KnowsAsIs DEF Talk, Types
  <2> QED BY <2>10, <2>11 DEF Talk
<1> QED BY <1>2, <1>3, <1>4, <1>5, <1>6, <1>7, <1>8, <1>9 DEF Core

(* libusb_close gives up the reference of the handle.                      *)
LEMMA CloseKeeps ==
  ASSUME Core, NEW t \in Threads, Close(t)
  PROVE  Core' /\ (OneLoop /\ Talk => Talk')
<1>1. /\ pc[t] = "idle" /\ drop[t] = None /\ ctx = "ready"
      /\ handle' = [handle EXCEPT ![t] = None] /\ drop' = [drop EXCEPT ![t] = handle[t]]
      /\ UNCHANGED <<hotplug_lock, jobs, fresh, leaving, leave, monitor, ctx,
                     usb_devs, hotplug_msgs, alive, parent_dev, refcnt, pc, held,
                     new_callback, handler, message, visit, cb, needs_free, told,
                     unannounced>>
  BY DEF Close, Idle, kernel, work, context, devices, events
<1>0. Types
  BY DEF Core
<1>2. Types'
  <2>1. (handle \in [Threads -> Devs \cup {None}])'
    BY <1>1, <1>0 DEF Types
  <2>2. (drop \in [Actors -> Devs \cup {None}])'
    BY <1>1, <1>0 DEF Types
  <2> QED BY <2>1, <2>2, <1>1, <1>0 DEF Types
<1>3. Lock'
  BY <1>1 DEF Core, Lock, Busy
<1>4. Stages'
  BY <1>1 DEF Core, Stages, Starting, Ending
<1>5. Steps'
  BY <1>1, <1>0, MonitorAssumption DEF Core, Steps, Types, Actors
<1>6. Once'
  BY <1>1, OnceAlone DEF Core
<1>7. Arrived'
  BY <1>1, ArrivedAlone DEF Core
<1>8. CountsMatchReferences'
  <2>1. \A c \in Devs : Initial(c)' <=> Initial(c)
    BY <1>1 DEF Initial, Departed, Message
  <2>2. ASSUME NEW c \in Devs, c # handle[t] PROVE Kept(c)
    <3>1. Same(c)
      BY <2>1, <2>2, <1>0, <1>1, NoneAssumption DEF Same, Types, Actors
    <3> QED BY <3>1, <1>0, <1>1, <2>2, KeptIfSame DEF Types
  <2>3. ASSUME NEW c \in Devs, c = handle[t]
        PROVE  Moves(c, <<"handle", t>>, <<"drop", t>>)
    <3>1. <<"handle", t>> \in References(c) /\ <<"drop", t>> \notin References(c)
      BY <2>1, <2>3, <1>0, <1>1, NoneAssumption, Referenced DEF Initial
    <3>2. /\ \A u \in Actors : c = drop'[u] <=> c = drop[u] \/ u = t
          /\ \A u \in Threads : c = handle'[u] <=> c = handle[u] /\ u # t
      BY <2>3, <1>0, <1>1, NoneAssumption DEF Types, Actors
    <3>3. \A z : z \in References(c)' <=>
                   (z \in References(c) /\ z # <<"handle", t>>) \/ z = <<"drop", t>>
      BY <3>2, <2>1, <2>3, <1>1, NoneAssumption, Referenced, ReferencedNext DEF Actors
    <3> QED BY <3>1, <3>3, <1>1 DEF Moves
  <2> QED BY <2>2, <2>3, <1>0, CountsChange DEF Core
<1>9. ASSUME OneLoop, Talk PROVE Talk'
  BY <1>1, <1>0, <1>9, TalkAlone DEF Types
<1> QED BY <1>2, <1>3, <1>4, <1>5, <1>6, <1>7, <1>8, <1>9 DEF Core

(* libusb_hotplug_register_callback lists the callback.                    *)
LEMMA RegisterKeeps ==
  ASSUME Core, NEW t \in Threads, NEW k \in Callbacks, libusb_hotplug_register_callback(t, k)
  PROVE  Core' /\ (OneLoop /\ Talk => Talk')
<1>1. /\ ctx = "ready" /\ pc[t] = "idle" /\ drop[t] = None /\ t \in Registrars /\ cb[k] = "unused"
      /\ cb' = [cb EXCEPT ![k] = "listed"]
      /\ \/ /\ held[t] = {} /\ pc' = [pc EXCEPT ![t] = "poll"]
            /\ new_callback' = [new_callback EXCEPT ![t] = k]
         \/ k \notin Enumerating /\ pc' = pc /\ new_callback' = new_callback
      /\ UNCHANGED <<hotplug_lock, jobs, fresh, leaving, leave, monitor, ctx,
                     usb_devs, hotplug_msgs, alive, parent_dev, refcnt, held,
                     handle, drop, handler, message, visit, needs_free, told,
                     unannounced>>
  BY DEF libusb_hotplug_register_callback, Idle, kernel, work, context, devices
<1>0. Types
  BY DEF Core
<1>a. (new_callback \in [Threads -> Callbacks \cup {None}])'
  BY <1>1, <1>0 DEF Types
<1>2. Types'
  <2>1. (pc \in [Threads -> {"idle", "init", "exit", "poll", "polling", "copy", "enumerate",
                               "openGone", "openFails", "events"}])'
    BY <1>0, <1>1 DEF Types
  <2>2. (cb \in [Callbacks -> {"unused", "listed", "freed"}])'
    BY <1>0, <1>1 DEF Types
  <2> QED BY <2>1, <2>2, <1>1, <1>0, <1>a DEF Types
<1>3. Lock'
  BY <1>1, <1>0 DEF Core, Lock, Busy, Types
<1>4. Stages'
  BY <1>1, <1>0 DEF Core, Stages, Starting, Ending, Types
<1>5. Steps'
  BY <1>1, <1>0 DEF Core, Steps, Types
<1>6. Once'
  BY <1>1, OnceAlone DEF Core
<1>7. Arrived'
  BY <1>1, ArrivedAlone DEF Core
<1>8. CountsMatchReferences'
  BY <1>1, <1>0, ReferencesAlone DEF Core, Types
<1>9. ASSUME OneLoop, Talk PROVE Talk'
  <2>10. Registration'
    <3>1. /\ \A u \in Threads : new_callback[u] # k
          /\ new_callback[t] = None /\ k \notin needs_free /\ told[k] = {}
      BY <1>1, <1>9, NoneAssumption DEF Talk, Registration
    <3>2. CASE new_callback' = new_callback /\ pc' = pc
      BY <1>0, <1>1, <1>9, <3>1, <3>2 DEF Talk, Registration, Types
    <3>3. CASE pc' = [pc EXCEPT ![t] = "poll"] /\ new_callback' = [new_callback EXCEPT ![t] = k]
      <4>1. \A u \in Threads : /\ pc'[u] = IF u = t THEN "poll" ELSE pc[u]
                               /\ new_callback'[u] = IF u = t THEN k ELSE new_callback[u]
        BY <1>0, <3>3 DEF Types
      <4>2. \A c \in Callbacks : cb'[c] = IF c = k THEN "listed" ELSE cb[c]
        BY <1>0, <1>1 DEF Types
      <4> QED BY <1>0, <1>1, <1>9, <3>1, <4>1, <4>2, NoneAssumption DEF Talk,
         Registration, Types
    <3> QED BY <1>1, <3>2, <3>3
  <2>11. Knows'
    <3>1. ASSUME NEW n \in Callbacks, Listens(n)'
          PROVE  /\ \A e \in told'[n] : e \in usb_devs' \/ Going(n, e)'
                 /\ n \in Enumerating /\ ctx' = "ready" =>
                      \A e \in usb_devs' : e \in told'[n] \/ Coming(n, e)'
      <4>1. /\ UNCHANGED <<told, ctx, usb_devs, fresh>> /\ new_callback[t] = None
            /\ told[k] = {}
        BY <1>1, <1>9 DEF Talk, Registration
      <4>2. \A e : (Going(n, e)' <=> Going(n, e)) /\ (Coming(n, e)' <=> Coming(n, e))
        BY <1>1 DEF Going, Coming, Message, Unlisted, Queued, Msg
      <4>3. CASE n = k
        <5>1. n \notin Enumerating
          <6>1. new_callback'[t] # k
            BY <3>1, <4>3 DEF Listens, Registering
          <6> QED BY <6>1, <1>0, <1>1, <4>3 DEF Types
        <5> QED BY <5>1, <4>1, <4>3
      <4>4. CASE n # k
        <5>1. Listens(n)
          BY <1>0, <1>1, <3>1, <4>1, <4>4, NoneAssumption DEF Listens, Registering,
             Types
        <5> QED BY <1>9, <4>1, <4>2, <5>1 DEF Talk, Knows
      <4> QED BY <4>3, <4>4
    <3>2. ASSUME NEW u \in Threads, pc'[u] = "enumerate"
          PROVE  /\ \A e \in held'[u] : e \in usb_devs' \/ Queued("LEFT", e)' \/ Unlisted(e)'
                 /\ \A e \in usb_devs' : e \in held'[u] \/ Queued("ARRIVED", e)' \/ fresh' = e
      <4>1. pc[u] = "enumerate" /\ UNCHANGED <<held, usb_devs, fresh>>
        BY <1>1, <1>0, <3>2 DEF Types
      <4>2. \A e, c : (Queued(e, c)' <=> Queued(e, c)) /\ (Unlisted(c)' <=> Unlisted(c))
        BY <1>1 DEF Message, Unlisted, Queued, Msg
      <4> QED BY <4>1, <4>2, <1>9 DEF Talk, Knows
    <3> QED BY <3>1, <3>2 DEF Knows
  <2> QED BY <2>10, <2>11 DEF Talk
<1> QED BY <1>2, <1>3, <1>4, <1>5, <1>6, <1>7, <1>8, <1>9 DEF Core

(* It has told the callback of every device of its copy of the list.       *)
LEMMA ReportPresentKeeps ==
  ASSUME Core, NEW t \in Threads, ReportPresent(t)
  PROVE  Core' /\ (OneLoop /\ Talk => Talk')
<1>1. /\ pc[t] = "enumerate"
      /\ told' = [told EXCEPT ![new_callback[t]] =
                    IF new_callback[t] \in needs_free THEN @ ELSE @ \cup held[t]]
      /\ pc' = [pc EXCEPT ![t] = "idle"]
      /\ new_callback' = [new_callback EXCEPT ![t] = None]
      /\ UNCHANGED <<hotplug_lock, jobs, fresh, leaving, leave, monitor, ctx,
                     usb_devs, hotplug_msgs, alive, parent_dev, refcnt, held,
                     handle, drop, handler, message, visit, cb, needs_free,
                     unannounced>>
  BY DEF ReportPresent, kernel, work, context, devices
<1>0. Types
  BY DEF Core
<1>2. Types'
  <2>1. (told \in [Callbacks -> SUBSET Devs])'
    BY <1>1, <1>0 DEF Types
  <2>2. (pc \in [Threads -> {"idle", "init", "exit", "poll", "polling", "copy", "enumerate",
                               "openGone", "openFails", "events"}])'
    BY <1>1, <1>0 DEF Types
  <2>3. (new_callback \in [Threads -> Callbacks \cup {None}])'
    BY <1>1, <1>0 DEF Types
  <2> QED BY <2>1, <2>2, <2>3, <1>1, <1>0 DEF Types
<1>3. Lock'
  BY <1>1 DEF Core, Lock, Busy
<1>4. Stages'
  BY <1>1 DEF Core, Stages, Starting, Ending
<1>5. Steps'
  BY <1>1 DEF Core, Steps
<1>6. Once'
  BY <1>1, OnceAlone DEF Core
<1>7. Arrived'
  BY <1>1, ArrivedAlone DEF Core
<1>8. CountsMatchReferences'
  BY <1>1, <1>0, ReferencesAlone DEF Core, Types
<1>9. ASSUME OneLoop, Talk PROVE Talk'
  <2>10. Registration'
    BY <1>1, <1>9, <1>0 DEF Talk, Registration, Types
  <2>11. Knows'
    <3>1. ASSUME NEW k \in Callbacks, Listens(k)'
          PROVE  /\ \A e \in told'[k] : e \in usb_devs' \/ Going(k, e)'
                 /\ k \in Enumerating /\ ctx' = "ready" =>
                      \A e \in usb_devs' : e \in told'[k] \/ Coming(k, e)'
      <4>0. /\ UNCHANGED <<ctx, usb_devs, fresh>>

        BY <1>1 DEF Going, Message, Unlisted, Queued, Msg
      <4>1. \A e : (Going(k, e)' <=> Going(k, e)) /\ (Coming(k, e)' <=> Coming(k, e))
        BY <1>1 DEF Going, Coming, Message, Unlisted, Queued, Msg
      <4>2. CASE k = new_callback[t]
        <5>1. told'[k] = held[t]
          BY <1>0, <1>1, <1>9, <4>2, NoneAssumption DEF Talk, Registration, Types
        <5> QED BY <1>1, <1>9, <4>0, <4>1, <5>1 DEF Talk, Knows, Going, Coming
      <4>3. CASE k # new_callback[t]
        <5>1. Listens(k) /\ told'[k] = told[k]
          BY <1>0, <1>1, <3>1, <4>3 DEF Listens, Registering, Types
        <5> QED BY <1>9, <4>0, <4>1, <5>1 DEF Talk, Knows
      <4> QED BY <4>2, <4>3
    <3>2. ASSUME NEW u \in Threads, pc'[u] = "enumerate"
          PROVE  /\ \A e \in held'[u] : e \in usb_devs' \/ Queued("LEFT", e)' \/ Unlisted(e)'
                 /\ \A e \in usb_devs' : e \in held'[u] \/ Queued("ARRIVED", e)' \/ fresh' = e
      <4>1. pc[u] = "enumerate" /\ UNCHANGED <<held, usb_devs, fresh>>
        BY <1>1, <1>0, <3>2 DEF Types
      <4>2. \A e, c : (Queued(e, c)' <=> Queued(e, c)) /\ (Unlisted(c)' <=> Unlisted(c))
        BY <1>1 DEF Message, Unlisted, Queued, Msg
      <4> QED BY <4>1, <4>2, <1>9 DEF Talk, Knows
    <3> QED BY <3>1, <3>2 DEF Knows
  <2> QED BY <2>10, <2>11 DEF Talk
<1> QED BY <1>2, <1>3, <1>4, <1>5, <1>6, <1>7, <1>8, <1>9 DEF Core

(* libusb_hotplug_deregister_callback marks it, and queues a message.      *)
LEMMA DeregisterKeeps ==
  ASSUME Core, NEW t \in Threads, NEW k \in Callbacks, libusb_hotplug_deregister_callback(t, k)
  PROVE  Core' /\ (OneLoop /\ Talk => Talk')
<1>1. /\ ctx = "ready" /\ cb[k] = "listed" /\ ~Registering(k)
      /\ needs_free' = needs_free \cup {k}
      /\ hotplug_msgs' = Append(hotplug_msgs, Message("none", None))
      /\ UNCHANGED <<hotplug_lock, jobs, fresh, leaving, leave, monitor, ctx,
                     usb_devs, alive, parent_dev, refcnt, pc, held, handle,
                     new_callback, drop, handler, message, visit, cb, told,
                     unannounced>>
  BY DEF libusb_hotplug_deregister_callback, usbi_hotplug_notification, kernel,
     work, context, devices, threads
<1>0. Types
  BY DEF Core
<1>b. /\ hotplug_msgs' \in Seq(Messages)
      /\ \A c : Queued("LEFT", c)' <=> Queued("LEFT", c)
      /\ \A c : Queued("ARRIVED", c)' <=> Queued("ARRIVED", c)
      /\ \A c : (Departed(c)' <=> Departed(c)) /\ (Unlisted(c)' <=> Unlisted(c))
      /\ Once' /\ Arrived'
  BY <1>1, NoMessage, SentKeeps
<1>2. Types'
  BY <1>1, <1>0, <1>b DEF Types
<1>3. Lock'
  BY <1>1 DEF Core, Lock, Busy
<1>4. Stages'
  BY <1>1 DEF Core, Stages, Starting, Ending
<1>5. Steps'
  BY <1>1 DEF Core, Steps
<1>6. Once'
  BY <1>b
<1>7. Arrived'
  BY <1>b
<1>8. CountsMatchReferences'
  <2>1. \A c : Initial(c)' <=> Initial(c)
    BY <1>1, <1>b DEF Initial
  <2> QED BY <2>1, <1>1, <1>0, CountsAlone DEF Core, Same, Types
<1>9. ASSUME OneLoop, Talk PROVE Talk'
  <2>10. Registration'
    BY <1>1, <1>9 DEF Talk, Registration, Registering
  <2>11. Knows'
    <3>1. ASSUME NEW n \in Callbacks, Listens(n)'
          PROVE  /\ \A e \in told'[n] : e \in usb_devs' \/ Going(n, e)'
                 /\ n \in Enumerating /\ ctx' = "ready" =>
                      \A e \in usb_devs' : e \in told'[n] \/ Coming(n, e)'
      <4>1. Listens(n) /\ UNCHANGED <<told, ctx, usb_devs, fresh>>
        BY <1>1, <3>1 DEF Listens, Registering
      <4>2. \A e : (Going(n, e)' <=> Going(n, e)) /\ (Coming(n, e)' <=> Coming(n, e))
        BY <1>1, <1>b DEF Going, Coming, Message
      <4> QED BY <1>9, <4>1, <4>2 DEF Talk, Knows
    <3>2. ASSUME NEW u \in Threads, pc'[u] = "enumerate"
          PROVE  /\ \A e \in held'[u] : e \in usb_devs' \/ Queued("LEFT", e)' \/ Unlisted(e)'
                 /\ \A e \in usb_devs' : e \in held'[u] \/ Queued("ARRIVED", e)' \/ fresh' = e
      <4>1. pc[u] = "enumerate" /\ UNCHANGED <<held, usb_devs, fresh>>
        BY <1>1, <1>0, <3>2 DEF Types
      <4> QED BY <4>1, <1>b, <1>9 DEF Talk, Knows
    <3> QED BY <3>1, <3>2 DEF Knows
  <2> QED BY <2>10, <2>11 DEF Talk
<1> QED BY <1>2, <1>3, <1>4, <1>5, <1>6, <1>7, <1>8, <1>9 DEF Core

(* handle_events takes a message: every callback listed is to be told.     *)
LEMMA TakeMessageKeeps ==
  ASSUME Core, NEW t \in Threads, TakeMessage(t)
  PROVE  Core' /\ (OneLoop /\ Talk => Talk')
<1>1. /\ ctx = "ready" /\ pc[t] = "idle" /\ drop[t] = None /\ t \in EventThreads
      /\ handler = None /\ hotplug_msgs # << >>
      /\ handler' = t /\ pc' = [pc EXCEPT ![t] = "events"]
      /\ message' = Head(hotplug_msgs) /\ hotplug_msgs' = Tail(hotplug_msgs)
      /\ visit' = {k \in Callbacks : cb[k] = "listed"}
      /\ UNCHANGED <<hotplug_lock, jobs, fresh, leaving, leave, monitor, ctx,
                     usb_devs, alive, parent_dev, refcnt, held, handle,
                     new_callback, drop, cb, needs_free, told, unannounced>>
  BY DEF TakeMessage, Idle, kernel, work, context, devices, events
<1>0. Types
  BY DEF Core
<1>a. message = None
  BY <1>1 DEF Core, Steps
<1>b. PICK m : m = Head(hotplug_msgs)
  OBVIOUS
<1>d. /\ message' = m
      /\ m \in Messages /\ hotplug_msgs' \in Seq(Messages)
      /\ \A e, c : Queued(e, c) <=> m = Message(e, c) \/ Queued(e, c)'
      /\ \A c \in Devs : m = Message("LEFT", c) => ~Queued("LEFT", c)'
      /\ \A c \in Devs : \A i, j \in 1 .. Len(hotplug_msgs') :
           hotplug_msgs'[i] = Message("LEFT", c) /\ hotplug_msgs'[j] = Message("LEFT", c) => i = j
      /\ \A c \in Devs : \A i \in 1 .. Len(hotplug_msgs') :
           hotplug_msgs'[i] = Message("ARRIVED", c) =>
             \/ c \in usb_devs \/ Unlisted(c)
             \/ \E j \in i + 1 .. Len(hotplug_msgs') : hotplug_msgs'[j] = Message("LEFT", c)
      /\ \A c \in Devs : m = Message("ARRIVED", c) =>
           c \in usb_devs \/ Unlisted(c) \/ Queued("LEFT", c)'
  BY <1>1, <1>a, <1>b, TakenKeeps
<1>f. /\ \A c : Unlisted(c)' <=> Unlisted(c)
      /\ \A c \in Devs : Departed(c)' <=> Departed(c)
  <2>1. /\ \A c : Unlisted(c)' <=> Unlisted(c)
        /\ \A c \in Devs : message # Message("LEFT", c)
    BY <1>1, <1>a, NoMessage, NoneAssumption DEF Unlisted
  <2> QED BY <1>0, <1>1, <1>d, <2>1, DepartedIs, DepartedIsNext
<1>2. Types'
  <2>1. /\ (pc \in [Threads -> {"idle", "init", "exit", "poll",
          "polling", "copy", "enumerate", "openGone", "openFails", "events"}])'
        /\ (visit \subseteq Callbacks)'
    BY <1>0, <1>1 DEF Types
  <2> QED BY <2>1, <1>1, <1>0, <1>d DEF Types
<1>3. Lock'
  BY <1>1 DEF Core, Lock, Busy
<1>4. Stages'
  BY <1>1, <1>0 DEF Core, Types, Stages, Starting, Ending
<1>5. Steps'
  <2>1. handler' # None /\ message' # None
    BY <1>1, <1>d, NoMessage, NoneAssumption
  <2>2. \A u \in Threads : pc[u] # "events"
    BY <1>1, NoneAssumption DEF Core, Steps
  <2> QED BY <2>1, <2>2, <1>1, <1>0 DEF Core, Types, Steps
<1>6. Once'
  <2>1. ASSUME NEW c \in Devs
        PROVE  /\ c \in usb_devs' => ~Departed(c)'
               /\ Unlisted(c)' => ~Queued("LEFT", c)' /\ message' # Message("LEFT", c)
                                  /\ c \notin unannounced'
               /\ Queued("LEFT", c)' => message' # Message("LEFT", c) /\ c \notin unannounced'
               /\ message' = Message("LEFT", c) => c \notin unannounced'
    BY <1>1, <1>0, <1>a, <1>d, <1>f, NoMessage DEF Core, Once
  <2> QED BY <2>1, <1>d DEF Once, Msg, Message
<1>7. Arrived'
  <2>1. \A c \in Devs : message' = Message("ARRIVED", c) =>
          c \in usb_devs' \/ Unlisted(c)' \/ Queued("LEFT", c)'
    BY <1>1, <1>d, <1>f
  <2>2. \A c \in Devs : \A i \in 1 .. Len(hotplug_msgs') :
          hotplug_msgs'[i] = Message("ARRIVED", c) =>
            \/ c \in usb_devs' \/ Unlisted(c)'
            \/ \E j \in i + 1 .. Len(hotplug_msgs') : hotplug_msgs'[j] = Message("LEFT", c)
    BY <1>1, <1>d, <1>f
  <2> QED BY <2>1, <2>2 DEF Arrived, Msg, Message
<1>8. CountsMatchReferences'
  <2>1. \A c \in Devs : Initial(c)' <=> Initial(c)
    BY <1>1, <1>f DEF Initial
  <2> QED BY <2>1, <1>1, <1>0, CountsAlone DEF Core, Same, Types
<1>9. ASSUME OneLoop, Talk PROVE Talk'
  <2>10. Registration'
    BY <1>1, <1>9 DEF Talk, Registration
  <2>11. Knows'
    <3>1. ASSUME NEW k \in Callbacks, Listens(k)'
          PROVE  /\ \A e \in told'[k] : e \in usb_devs' \/ Going(k, e)'
                 /\ k \in Enumerating /\ ctx' = "ready" =>
                      \A e \in usb_devs' : e \in told'[k] \/ Coming(k, e)'
      <4>1. /\ Listens(k) /\ UNCHANGED <<told, ctx, usb_devs, fresh>>
            /\ k \in visit'
        BY <1>1, <3>1 DEF Listens, Registering
      <4>2. \A e \in Devs : (Going(k, e) => Going(k, e)') /\ (Coming(k, e) => Coming(k, e)')
        BY <1>1, <1>a, <1>d, <1>f, <4>1, NoMessage DEF Going, Coming, Message
      <4> QED BY <1>0, <1>9, <4>1, <4>2 DEF Talk, Knows, Types
    <3>2. ASSUME NEW u \in Threads, pc'[u] = "enumerate"
          PROVE  /\ \A e \in held'[u] : e \in usb_devs' \/ Queued("LEFT", e)' \/ Unlisted(e)'
                 /\ \A e \in usb_devs' : e \in held'[u] \/ Queued("ARRIVED", e)' \/ fresh' = e
      <4>1. pc[u] = "enumerate" /\ u # t
        BY <1>1, <1>0, <3>2 DEF Types
      <4>2. u = t
        BY <4>1, <1>1, <1>9 DEF Talk, Registration, OneLoop
      <4> QED BY <4>1, <4>2
    <3> QED BY <3>1, <3>2 DEF Knows
  <2> QED BY <2>10, <2>11 DEF Talk
<1> QED BY <1>2, <1>3, <1>4, <1>5, <1>6, <1>7, <1>8, <1>9 DEF Core

(* usbi_hotplug_match tells one of them, which may ask to be               *)
(* deregistered.                                                           *)
LEMMA MatchKeeps ==
  ASSUME Core, NEW t \in Threads, NEW k \in Callbacks, usbi_hotplug_match(t, k)
  PROVE  Core' /\ (OneLoop /\ Talk => Talk')
<1>1. /\ handler = t /\ k \in visit
      /\ visit' = visit \ {k}
      /\ told' = [told EXCEPT ![k] = Hears(k)]
      /\ \/ k \notin needs_free /\ cb' = [cb EXCEPT ![k] = @]
         \/ cb' = [cb EXCEPT ![k] = "freed"]
      /\ UNCHANGED <<hotplug_lock, jobs, fresh, leaving, leave, monitor, ctx,
                     usb_devs, hotplug_msgs, alive, parent_dev, refcnt, pc, held,
                     handle, new_callback, drop, handler, message, needs_free,
                     unannounced>>
  BY DEF usbi_hotplug_match, Returns, kernel, work, context, devices, threads
<1>0. Types
  BY DEF Core
<1>a. /\ pc[t] = "events" /\ message \in Messages
      /\ \A c \in Callbacks : cb'[c] = cb[c] \/ (c = k /\ cb'[c] = "freed")
  BY <1>0, <1>1, NoneAssumption DEF Core, Steps, Types
<1>b. /\ Hears(k) \subseteq Devs
      /\ k \notin needs_free => \A e \in Devs :
           e \in Hears(k) <=> \/ e \in told[k] /\ message # Message("LEFT", e)
                              \/ message = Message("ARRIVED", e)
  <2>1. told[k] \subseteq Devs
    BY <1>0, <1>1 DEF Types
  <2>2. CASE k \in needs_free
    BY <2>1, <2>2 DEF Hears
  <2>3. CASE k \notin needs_free /\ message = Message("none", None)
    <3>1. Hears(k) = told[k] /\ \A e : message # Message("LEFT", e) /\ message # Message("ARRIVED", e)
      BY <2>3, MessagesDiffer DEF Hears
    <3> QED BY <2>1, <3>1
  <2>4. ASSUME NEW c \in Devs, k \notin needs_free, message = Message("ARRIVED", c)
        PROVE  Hears(k) = told[k] \cup {c}
    BY <2>4, MessagesDiffer DEF Hears
  <2>5. ASSUME NEW c \in Devs, k \notin needs_free, message = Message("LEFT", c)
        PROVE  Hears(k) = told[k] \ {c}
    BY <2>5, MessagesDiffer DEF Hears
  <2>6. \/ message = Message("none", None)
        \/ \E c \in Devs : message = Message("ARRIVED", c) \/ message = Message("LEFT", c)
    BY <1>a, NoMessage
  <2> QED BY <2>1, <2>2, <2>3, <2>4, <2>5, <2>6, MessagesDiffer
<1>2. Types'
  <2>1. (told \in [Callbacks -> SUBSET Devs])'
    BY <1>0, <1>1, <1>b DEF Types
  <2>2. (cb \in [Callbacks -> {"unused", "listed", "freed"}])'
    BY <1>0, <1>1 DEF Types
  <2> QED BY <2>1, <2>2, <1>1, <1>0 DEF Types
<1>3. Lock'
  BY <1>1 DEF Core, Lock, Busy
<1>4. Stages'
  BY <1>1, <1>0, <1>a DEF Core, Types, Stages, Steps, Starting, Ending, Busy
<1>5. Steps'
  BY <1>1 DEF Core, Steps
<1>6. Once'
  BY <1>1, OnceAlone DEF Core
<1>7. Arrived'
  BY <1>1, ArrivedAlone DEF Core
<1>8. CountsMatchReferences'
  BY <1>1, <1>0, ReferencesAlone DEF Core, Types
<1>9. ASSUME OneLoop, Talk PROVE Talk'
  <2>10. Registration'
    <3>1. \A u \in Threads : new_callback[u] # None => u = t /\ pc[t] # "events"
      BY <1>9, <1>a DEF Talk, Registration, OneLoop
    <3>2. \A u \in Threads : new_callback[u] = None
      BY <3>1, <1>a
    <3>3. \A c \in Callbacks : cb'[c] = "unused" => told'[c] = told[c] /\ cb[c] = "unused"
      BY <1>0, <1>1, <1>9, <1>a DEF Types, Talk, Registration
    <3> QED BY <1>0, <1>1, <1>9, <1>a, <3>2, <3>3 DEF Talk, Registration, Types
  <2>11. Knows'
    <3>1. ASSUME NEW n \in Callbacks, Listens(n)'
          PROVE  /\ \A e \in told'[n] : e \in usb_devs' \/ Going(n, e)'
                 /\ n \in Enumerating /\ ctx' = "ready" =>
                      \A e \in usb_devs' : e \in told'[n] \/ Coming(n, e)'
      <4>1. Listens(n) /\ UNCHANGED <<ctx, usb_devs, fresh>>
        BY <1>1, <1>a, <3>1 DEF Listens, Registering
      <4>0. \A e, c : (Queued(e, c)' <=> Queued(e, c)) /\ (Unlisted(c)' <=> Unlisted(c))
        BY <1>1 DEF Message, Unlisted, Queued, Msg
      <4>2. CASE n # k
        <5>1. told'[n] = told[n] /\ (n \in visit' <=> n \in visit)
          BY <1>0, <1>1, <4>2 DEF Types
        <5>2. \A e : (Going(n, e)' <=> Going(n, e)) /\ (Coming(n, e)' <=> Coming(n, e))
          BY <1>1, <4>0, <5>1 DEF Going, Coming, Message
        <5> QED BY <1>9, <4>1, <5>1, <5>2 DEF Talk, Knows
      <4>3. CASE n = k
        <5>1. /\ k \notin needs_free /\ told'[k] = Hears(k)
              /\ \A e \in Devs : e \in Hears(k) <=> \/ e \in told[k] /\ message # Message("LEFT", e)
                                                   \/ message = Message("ARRIVED", e)
          BY <1>0, <1>1, <1>b, <4>1, <4>3 DEF Types, Listens
        <5>2. \A e \in Devs : message = Message("LEFT", e) => e \notin usb_devs
          BY <1>0, DepartedIs DEF Core, Once
        <5>3. \A e \in Devs : message = Message("ARRIVED", e) =>
                                e \in usb_devs \/ Unlisted(e) \/ Queued("LEFT", e)
          BY DEF Core, Arrived
        <5>4. \A e \in Devs : /\ Going(k, e) => Going(k, e)' \/ message = Message("LEFT", e)
                              /\ Coming(k, e) => Coming(k, e)' \/ message = Message("ARRIVED", e)
                              /\ Unlisted(e) \/ Queued("LEFT", e) => Going(k, e)'
          BY <1>1, <4>0 DEF Going, Coming, Message
        <5> QED BY <1>0, <1>9, <1>b, <4>1, <4>3, <5>1, <5>2, <5>3, <5>4 DEF Talk,
           Knows, Types
      <4> QED BY <4>2, <4>3
    <3>2. ASSUME NEW u \in Threads, pc'[u] = "enumerate"
          PROVE  /\ \A e \in held'[u] : e \in usb_devs' \/ Queued("LEFT", e)' \/ Unlisted(e)'
                 /\ \A e \in usb_devs' : e \in held'[u] \/ Queued("ARRIVED", e)' \/ fresh' = e
      <4>1. pc[u] = "enumerate" /\ UNCHANGED <<held, usb_devs, fresh>>
        BY <1>1, <1>0, <3>2 DEF Types
      <4>2. \A e, c : (Queued(e, c)' <=> Queued(e, c)) /\ (Unlisted(c)' <=> Unlisted(c))
        BY <1>1 DEF Message, Unlisted, Queued, Msg
      <4> QED BY <4>1, <4>2, <1>9 DEF Talk, Knows
    <3> QED BY <3>1, <3>2 DEF Knows
  <2> QED BY <2>10, <2>11 DEF Talk
<1> QED BY <1>2, <1>3, <1>4, <1>5, <1>6, <1>7, <1>8, <1>9 DEF Core

(* The message has been told to all, and the reference of a departure is   *)
(* given up.                                                               *)
LEMMA FinishMessageKeeps ==
  ASSUME Core, NEW t \in Threads, FinishMessage(t)
  PROVE  Core' /\ (OneLoop /\ Talk => Talk')
<1>1. /\ handler = t /\ visit = {}
      /\ drop' = [drop EXCEPT ![t] = IF message.event = "LEFT" THEN message.device ELSE None]
      /\ handler' = None /\ message' = None /\ pc' = [pc EXCEPT ![t] = "idle"]
      /\ UNCHANGED <<hotplug_lock, jobs, fresh, leaving, leave, monitor, ctx,
                     usb_devs, hotplug_msgs, alive, parent_dev, refcnt, held,
                     handle, new_callback, visit, cb, needs_free, told,
                     unannounced>>
  BY DEF FinishMessage, kernel, work, context, devices
<1>0. Types
  BY DEF Core
<1>a. /\ pc[t] = "events" /\ drop[t] = None /\ message \in Messages
  BY <1>0, <1>1, NoneAssumption DEF Core, Steps, Types
<1>c. PICK dd : dd = IF message.event = "LEFT" THEN message.device ELSE None
  OBVIOUS
<1>e. /\ dd \in Devs \cup {None} /\ \A c \in Devs : c = dd <=> message = Message("LEFT", c)
      /\ drop' = [drop EXCEPT ![t] = dd]
  BY <1>1, <1>a, <1>c, NoMessage, MessagesDiffer, NoneAssumption
<1>f. /\ \A c : Unlisted(c)' <=> Unlisted(c)
      /\ \A e, c : Queued(e, c)' <=> Queued(e, c)
      /\ \A c \in Devs : Departed(c)' <=> Departed(c) /\ c # dd
      /\ \A c \in Devs : c = dd => Departed(c) /\ c \notin usb_devs /\ c \notin unannounced
  <2>1. /\ \A c : Unlisted(c)' <=> Unlisted(c)
        /\ \A e, c : Queued(e, c)' <=> Queued(e, c)
    BY <1>1 DEF Unlisted, Queued, Msg, Message
  <2>2. \A c \in Devs : c = dd => ~Unlisted(c) /\ ~Queued("LEFT", c) /\ c \notin unannounced
    BY <1>e DEF Core, Once
  <2>3. hotplug_msgs' \in Seq(Messages)
    BY <1>0, <1>1 DEF Types
  <2>5. \A c \in Devs : /\ Departed(c) <=> Unlisted(c) \/ Queued("LEFT", c) \/ c = dd \/ c \in unannounced
                        /\ Departed(c)' <=> Unlisted(c)' \/ Queued("LEFT", c)' \/ c \in unannounced
    BY <1>0, <1>1, <1>e, <2>3, DepartedIs, DepartedIsNext, NoMessage
  <2>6. \A c \in Devs : c \in usb_devs => ~Departed(c)
    BY DEF Core, Once
  <2> QED BY <2>1, <2>2, <2>5, <2>6
<1>2. Types'
  <2>1. (drop \in [Actors -> Devs \cup {None}])' /\ (pc \in [Threads -> {"idle", "init", "exit", "poll",
          "polling", "copy", "enumerate", "openGone", "openFails", "events"}])'
    BY <1>0, <1>1, <1>e DEF Types
  <2> QED BY <2>1, <1>1, <1>0 DEF Types
<1>3. Lock'
  BY <1>1, <1>0, <1>a, <1>e, NoneAssumption, MonitorAssumption DEF Core, Types,
     Lock, Busy, Actors
<1>4. Stages'
  BY <1>1, <1>0, <1>a DEF Core, Types, Stages, Starting, Ending, Busy
<1>5. Steps'
  BY <1>1, <1>0, <1>a, <1>e, NoneAssumption, MonitorAssumption DEF Core, Types,
     Steps, Actors
<1>6. Once'
  <2>1. \A c \in Devs : message' # Message("LEFT", c)
    BY <1>1, NoMessage
  <2>2. ASSUME NEW c \in Devs
        PROVE  /\ c \in usb_devs' => ~Departed(c)'
               /\ Unlisted(c)' => ~Queued("LEFT", c)' /\ c \notin unannounced'
               /\ Queued("LEFT", c)' => c \notin unannounced'
               /\ \A i, j \in 1 .. Len(hotplug_msgs) :
                    Msg(i)' = Message("LEFT", c) /\ Msg(j)' = Message("LEFT", c) => i = j
    BY <1>1, <1>f DEF Core, Once, Msg
  <2> QED BY <2>1, <2>2, <1>1 DEF Once, Msg, Message
<1>7. Arrived'
  <2>1. \A c \in Devs : message' # Message("ARRIVED", c)
    BY <1>1, NoMessage
  <2> QED BY <2>1, <1>1, <1>f DEF Core, Arrived, Msg, Message
<1>8. CountsMatchReferences'
  <2>1. \A c \in Devs : Initial(c)' <=> Initial(c) /\ c # dd
    BY <1>1, <1>f DEF Initial
  <2>2. ASSUME NEW c \in Devs, c # dd PROVE Kept(c)
    <3>1. Same(c)
      BY <2>1, <2>2, <1>0, <1>1, <1>a, <1>e, <1>f, NoneAssumption DEF Same, Types,
         Actors
    <3> QED BY <3>1, <1>0, <1>1, <2>2, KeptIfSame DEF Types
  <2>3. ASSUME NEW c \in Devs, c = dd
        PROVE  Moves(c, <<"initial", None>>, <<"drop", t>>)
    <3>1. <<"initial", None>> \in References(c) /\ <<"drop", t>> \notin References(c)
      BY <2>1, <2>3, <1>0, <1>1, <1>a, <1>e, <1>f, NoneAssumption, Referenced DEF
         Initial
    <3>2. \A u \in Actors : c = drop'[u] <=> c = drop[u] \/ u = t
      BY <2>3, <1>0, <1>1, <1>a, <1>e, <1>f, NoneAssumption DEF Types, Actors
    <3>3. \A z : z \in References(c)' <=>
                   (z \in References(c) /\ z # <<"initial", None>>) \/ z = <<"drop", t>>
      BY <3>2, <2>1, <2>3, <1>1, NoneAssumption, Referenced, ReferencedNext DEF Actors
    <3> QED BY <3>1, <3>3, <1>1 DEF Moves
  <2> QED BY <2>2, <2>3, <1>0, CountsChange DEF Core
<1>9. ASSUME OneLoop, Talk PROVE Talk'
  <2>10. Registration'
    BY <1>1, <1>9, <1>0 DEF Talk, Registration, Types, Core, Steps
  <2>11. Knows'
    <3>1. ASSUME NEW k \in Callbacks, Listens(k)'
          PROVE  /\ \A e \in told'[k] : e \in usb_devs' \/ Going(k, e)'
                 /\ k \in Enumerating /\ ctx' = "ready" =>
                      \A e \in usb_devs' : e \in told'[k] \/ Coming(k, e)'
      <4>1. Listens(k) /\ UNCHANGED <<told, ctx, usb_devs, fresh>> /\ visit = {}
        BY <1>1, <3>1 DEF Listens, Registering
      <4>2. \A e : (Going(k, e)' <=> Going(k, e)) /\ (Coming(k, e)' <=> Coming(k, e))
        BY <1>1, <1>f, <4>1 DEF Going, Coming, Message
      <4> QED BY <1>9, <4>1, <4>2 DEF Talk, Knows
    <3>2. ASSUME NEW u \in Threads, pc'[u] = "enumerate"
          PROVE  /\ \A e \in held'[u] : e \in usb_devs' \/ Queued("LEFT", e)' \/ Unlisted(e)'
                 /\ \A e \in usb_devs' : e \in held'[u] \/ Queued("ARRIVED", e)' \/ fresh' = e
      <4>1. pc[u] = "enumerate" /\ UNCHANGED <<held, usb_devs, fresh>>
        BY <1>1, <1>0, <3>2 DEF Types
      <4> QED BY <4>1, <1>f, <1>9 DEF Talk, Knows
    <3> QED BY <3>1, <3>2 DEF Knows
  <2> QED BY <2>10, <2>11 DEF Talk
<1> QED BY <1>2, <1>3, <1>4, <1>5, <1>6, <1>7, <1>8, <1>9 DEF Core

(* libusb_unref_device: the last reference frees the device, and hands     *)
(* its reference to the hub on.                                            *)
LEMMA UnrefKeeps ==
  ASSUME Core, NEW a \in Actors, Unref(a)
  PROVE  Core' /\ (OneLoop /\ Talk => Talk')
<1>1. /\ drop[a] # None
      /\ refcnt' = [refcnt EXCEPT ![drop[a]] = @ - 1]
      /\ \/ /\ refcnt[drop[a]] = 1 /\ alive' = alive \ {drop[a]}
            /\ drop' = [drop EXCEPT ![a] = parent_dev[drop[a]]]
            /\ parent_dev' = [parent_dev EXCEPT ![drop[a]] = None]
         \/ /\ refcnt[drop[a]] # 1 /\ alive' = alive /\ parent_dev' = parent_dev
            /\ drop' = [drop EXCEPT ![a] = None]
      /\ UNCHANGED <<hotplug_lock, jobs, fresh, leaving, leave, monitor, ctx,
                     usb_devs, hotplug_msgs, pc, held, handle, new_callback,
                     handler, message, visit, cb, needs_free, told, unannounced>>
  BY DEF Unref, kernel, work, context, devices, threads, events
<1>0. Types
  BY DEF Core
<1>a. PICK d \in Devs : d = drop[a]
  BY <1>0, <1>1 DEF Types
<1>b. <<"drop", a>> \in References(d) /\ d \in alive /\ refcnt[d] \in Nat /\ refcnt[d] > 0
  <2>1. <<"drop", a>> \in References(d)
    BY <1>a, Referenced
  <2> QED BY <2>1, <1>0, ReferredIsAlive DEF Core, Types
<1>c. /\ parent_dev[d] \in Devs \cup {None} /\ parent_dev' \in [Devs -> Devs \cup {None}]
      /\ refcnt' \in [Devs -> Nat] /\ drop' \in [Actors -> Devs \cup {None}]
      /\ \A c \in Devs : refcnt'[c] = IF c = d THEN refcnt[c] - 1 ELSE refcnt[c]
  <2>1. parent_dev[d] \in Devs \cup {None} /\ parent_dev' \in [Devs -> Devs \cup {None}]
    BY <1>0, <1>1, <1>a DEF Types
  <2>2. drop' \in [Actors -> Devs \cup {None}]
    BY <2>1, <1>0, <1>1, <1>a DEF Types
  <2>3. \A c \in Devs : refcnt'[c] = IF c = d THEN refcnt[c] - 1 ELSE refcnt[c]
    BY <1>0, <1>1, <1>a DEF Types
  <2>4. refcnt' \in [Devs -> Nat]
    <3>1. refcnt' = [refcnt EXCEPT ![d] = @ - 1] /\ refcnt \in [Devs -> Nat] /\ refcnt[d] - 1 \in Nat
      BY <1>0, <1>1, <1>a, <1>b DEF Types
    <3> QED BY <3>1
  <2> QED BY <2>1, <2>2, <2>3, <2>4
<1>d. \A u \in Actors : u = a \/ drop'[u] = drop[u]
  BY <1>0, <1>1 DEF Types
<1>2. Types'
  BY <1>1, <1>0, <1>c DEF Types
<1>3. Lock'
  BY <1>1, <1>0, <1>d, NoneAssumption DEF Core, Types, Lock, Busy, Actors
<1>4. Stages'
  BY <1>1 DEF Core, Stages, Starting, Ending, Busy
<1>5. Steps'
  BY <1>1, <1>0, <1>d, MonitorAssumption DEF Core, Types, Steps, Actors
<1>6. Once'
  BY <1>1, OnceAlone DEF Core
<1>7. Arrived'
  BY <1>1, ArrivedAlone DEF Core
<1>8. CountsMatchReferences'
  <2>0. \A c : Initial(c)' <=> Initial(c)
    BY <1>1 DEF Initial, Departed, Message
  <2>1. CASE refcnt[d] = 1
    <3>1. /\ alive' = alive \ {d} /\ drop' = [drop EXCEPT ![a] = parent_dev[d]]
          /\ parent_dev' = [parent_dev EXCEPT ![d] = None]
      BY <1>1, <1>a, <2>1
    <3>2. References(d) = {<<"drop", a>>}
      <4>1. IsFiniteSet(References(d)) /\ Cardinality(References(d)) = 1
        BY <1>0, <2>1, FiniteReferences DEF Core, Types, CountsMatchReferences
      <4> QED BY <4>1, <1>b, FS_Singleton
    <3>3. /\ ~Initial(d) /\ d # leaving /\ \A u \in Threads : d \notin held[u] /\ d # handle[u]
          /\ \A u \in Actors : d = drop[u] => u = a
          /\ \A c \in alive : d # parent_dev[c]
      <4>1. \A z \in References(d) : z = <<"drop", a>>
        BY <3>2
      <4>2. ~Initial(d) /\ d # leaving
        BY <4>1, Referenced
      <4>3. \A u \in Threads : d \notin held[u] /\ d # handle[u]
        BY <4>1, Referenced
      <4>4. \A u \in Actors : d = drop[u] => u = a
        BY <4>1, Referenced
      <4>5. \A c \in alive : d # parent_dev[c]
        BY <4>1, Referenced
      <4> QED BY <4>2, <4>3, <4>4, <4>5
    <3>4. parent_dev[d] # d
      BY <3>3, <1>b
    <3>5. /\ \A c \in Devs, u \in Actors : c = drop'[u] <=>
               IF u = a THEN c = parent_dev[d] ELSE c = drop[u]
          /\ \A c, e \in Devs : c = parent_dev'[e] <=> c = parent_dev[e] /\ e # d
      BY <1>0, <3>1, NoneAssumption DEF Types
    <3>6. Loses(d, <<"drop", a>>)
      <4>1. \A z : ~(z \in References(d)')
        BY <2>0, <3>1, <3>3, <3>4, <3>5, <1>0, <1>1, ReferencedNext DEF Types
      <4> QED BY <4>1, <3>1, <3>2, <1>c, <2>1 DEF Loses
    <3>7. ASSUME NEW c \in Devs, c = parent_dev[d]
          PROVE  Moves(c, <<"child", d>>, <<"drop", a>>)
      <4>1. <<"child", d>> \in References(c) /\ <<"drop", a>> \notin References(c)
        BY <3>4, <3>7, <1>a, <1>b, Referenced
      <4>2. \A e \in Devs : e \in alive' /\ c = parent_dev'[e] <=> (e \in alive /\ c = parent_dev[e]) /\ e # d
        BY <3>1, <3>5
      <4>3. \A u \in Actors : c = drop'[u] <=> c = drop[u] \/ u = a
        BY <3>4, <3>5, <3>7, <1>a
      <4>4. /\ UNCHANGED <<leaving, held, handle>> /\ (Initial(c)' <=> Initial(c))
            /\ alive \subseteq Devs /\ alive' \subseteq Devs
            /\ d \in alive /\ c = parent_dev[d] /\ c # drop[a]
        BY <2>0, <1>0, <1>1, <1>a, <1>b, <3>1, <3>4, <3>7 DEF Types
      <4>5. ASSUME NEW z
            PROVE  z \in References(c)' <=>
                     (z \in References(c) /\ z # <<"child", d>>) \/ z = <<"drop", a>>
        BY <4>1, <4>2, <4>3, <4>4, Referenced, ReferencedNext
      <4> QED BY <4>1, <4>5, <3>1, <3>4, <3>7, <1>c DEF Moves
    <3>8. ASSUME NEW c \in Devs, c # d, c # parent_dev[d] PROVE Kept(c)
      <4>1. Same(c)
        BY <2>0, <3>1, <3>5, <3>8, <1>0, <1>1, <1>a DEF Same, Types
      <4> QED BY <4>1, <3>1, <3>8, <1>0, <1>c, KeptIfSame DEF Types
    <3> QED BY <3>6, <3>7, <3>8, <1>0, CountsChange DEF Core
  <2>2. CASE refcnt[d] # 1
    <3>1. alive' = alive /\ parent_dev' = parent_dev /\ drop' = [drop EXCEPT ![a] = None]
      BY <1>1, <1>a, <2>2
    <3>2. \A c \in Devs, u \in Actors : c = drop'[u] <=> c = drop[u] /\ u # a
      BY <1>0, <3>1, NoneAssumption DEF Types
    <3>3. Loses(d, <<"drop", a>>)
      <4>1. \A z : z \in References(d)' <=> z \in References(d) /\ z # <<"drop", a>>
        BY <2>0, <3>1, <3>2, <1>1, Referenced, ReferencedNext
      <4> QED BY <4>1, <3>1, <1>b, <1>c, <2>2 DEF Loses
    <3>4. ASSUME NEW c \in Devs, c # d PROVE Kept(c)
      <4>1. Same(c)
        BY <2>0, <3>1, <3>2, <3>4, <1>1, <1>a DEF Same
      <4> QED BY <4>1, <3>1, <3>4, <1>0, <1>c, KeptIfSame DEF Types
    <3> QED BY <3>3, <3>4, <1>0, CountsChange DEF Core
  <2> QED BY <2>1, <2>2
<1>9. ASSUME OneLoop, Talk PROVE Talk'
  BY <1>1, <1>0, <1>9, TalkAlone DEF Types
<1> QED BY <1>2, <1>3, <1>4, <1>5, <1>6, <1>7, <1>8, <1>9 DEF Core

-----------------------------------------------------------------------------
(* Nothing has happened yet.                                               *)
LEMMA InitCore ==
  ASSUME Init
  PROVE  Core /\ Talk
<1>1. /\ hotplug_lock = None /\ jobs = << >> /\ fresh = None /\ leaving = None /\ leave = "none"
      /\ monitor = "off" /\ ctx = "new" /\ usb_devs = {} /\ hotplug_msgs = << >>
      /\ alive = {} /\ refcnt = [d \in Devs |-> 0] /\ parent_dev = [d \in Devs |-> None]
      /\ pc = [t \in Threads |-> "idle"] /\ held = [t \in Threads |-> {}]
      /\ handle = [t \in Threads |-> None] /\ drop = [a \in Actors |-> None]
      /\ new_callback = [t \in Threads |-> None] /\ handler = None /\ message = None
      /\ visit = {} /\ cb = [k \in Callbacks |-> "unused"] /\ needs_free = {}
      /\ told = [k \in Callbacks |-> {}] /\ unannounced = {}
  BY DEF Init, Nobody
<1>2. Types
  BY <1>1 DEF Types
<1>3. Lock /\ Stages
  BY <1>1, NoneAssumption, MonitorAssumption DEF Lock, Stages, Busy, Starting,
     Ending, Actors
<1>4. Steps
  BY <1>1, NoneAssumption, MonitorAssumption DEF Steps, Actors
<1>5. \A e, d : ~Queued(e, d)
  BY <1>1 DEF Queued
<1>6. Once /\ Arrived
  BY <1>1, <1>5, NoMessage, NoneAssumption DEF Once, Arrived, Unlisted
<1>7. CountsMatchReferences
  <2> SUFFICES ASSUME NEW d \in Devs
               PROVE  refcnt[d] = Cardinality(References(d)) /\ d \notin alive /\ refcnt[d] = 0
    BY DEF CountsMatchReferences
  <2>1. ~Initial(d)
    BY <1>1, <1>2, <1>5, NoMessage, NoneAssumption, DepartedIs DEF Initial, Unlisted
  <2>2. \A z : z \notin References(d)
    BY <2>1, <1>1, NoneAssumption, Referenced
  <2>3. References(d) = {}
    BY <2>2
  <2> QED BY <2>3, <1>1, FS_EmptySet
<1>8. Registration
  BY <1>1 DEF Registration
<1>9. Knows
  BY <1>1 DEF Knows, Listens
<1> QED BY <1>2, <1>3, <1>4, <1>6, <1>7, <1>8, <1>9 DEF Core, Talk

(* Every step keeps the invariant.                                         *)
LEMMA NextKeeps ==
  ASSUME Core, [Next]_vars
  PROVE  Core' /\ (OneLoop /\ Talk => Talk')
<1> DEFINE Keeps == Core' /\ (OneLoop /\ Talk => Talk')
<1>1. CASE Kernel \/ MonitorEnds \/ UNCHANGED vars
  BY <1>1, NothingKeeps
<1>2. ASSUME NEW h \in Actors, EnumerateSkips(h) \/ EnumerateFails(h) \/ EnumerateParent(h)
      PROVE  Keeps
  BY <1>2, EnumerateSkipsKeeps
<1>3. ASSUME NEW h \in Actors, Enumerate(h) PROVE Keeps
  <2>1. PICK d \in Devs \ alive, hub \in usb_devs \cup {None} : Enumerates(h, d, hub)
    BY <1>3, EnumerateIs
  <2> QED BY <2>1, EnumerateKeeps
<1>4. ASSUME NEW h \in Actors, AnnounceArrival(h) PROVE Keeps
  BY <1>4, AnnounceArrivalKeeps
<1>5. ASSUME NEW h \in Actors, Unlist(h) PROVE Keeps
  BY <1>5, UnlistKeeps
<1>6. ASSUME NEW h \in Actors, AnnounceDeparture(h) PROVE Keeps
  BY <1>6, AnnounceDepartureKeeps
<1>7. CASE MonitorUnlocks
  BY <1>7, MonitorUnlocksKeeps
<1>8. CASE MonitorReads
  BY <1>8, MonitorReadsKeeps
<1>9. ASSUME NEW t \in Threads, PollReads(t) PROVE Keeps
  BY <1>9, PollReadsKeeps
<1>10. ASSUME NEW t \in Threads, OpenGone(t) PROVE Keeps
  BY <1>10, OpenGoneKeeps
<1>11. ASSUME NEW t \in Threads, InitContext(t) PROVE Keeps
  BY <1>11, InitContextKeeps
<1>12. ASSUME NEW t \in Threads, StartScan(t) PROVE Keeps
  BY <1>12, StartScanKeeps
<1>13. ASSUME NEW t \in Threads, NEW p \in Ports, ScanEntry(t, p) PROVE Keeps
  BY <1>13, ScanEntryKeeps
<1>14. ASSUME NEW t \in Threads, EndScan(t) PROVE Keeps
  BY <1>14, EndScanKeeps
<1>15. ASSUME NEW t \in Threads, usbi_io_init(t) PROVE Keeps
  BY <1>15, IoInitKeeps
<1>16. ASSUME NEW t \in Threads, ExitContext(t) PROVE Keeps
  BY <1>16, ExitContextKeeps
<1>17. ASSUME NEW t \in Threads, ExitMessage(t) PROVE Keeps
  BY <1>17, ExitMessageKeeps
<1>18. ASSUME NEW t \in Threads, NEW d \in Devs, ExitDevice(t, d) PROVE Keeps
  BY <1>18, ExitDeviceKeeps
<1>19. ASSUME NEW t \in Threads, ExitMonitor(t) PROVE Keeps
  BY <1>19, ExitMonitorKeeps
<1>20. ASSUME NEW t \in Threads, GetDeviceList(t) PROVE Keeps
  BY <1>20, GetDeviceListKeeps
<1>21. ASSUME NEW t \in Threads, PollLock(t) PROVE Keeps
  BY <1>21, PollLockKeeps
<1>22. ASSUME NEW t \in Threads, PollEnds(t) PROVE Keeps
  BY <1>22, PollEndsKeeps
<1>23. ASSUME NEW t \in Threads, CopyList(t) PROVE Keeps
  BY <1>23, CopyListKeeps
<1>24. ASSUME NEW t \in Threads, NEW d \in Devs, Release(t, d) PROVE Keeps
  BY <1>24, ReleaseKeeps
<1>25. ASSUME NEW t \in Threads, NEW d \in Devs, Open(t, d) PROVE Keeps
  BY <1>25, OpenKeeps
<1>26. ASSUME NEW t \in Threads, OpenFails(t) PROVE Keeps
  BY <1>26, OpenFailsKeeps
<1>27. ASSUME NEW t \in Threads, Close(t) PROVE Keeps
  BY <1>27, CloseKeeps
<1>28. ASSUME NEW t \in Threads, NEW k \in Callbacks,
              libusb_hotplug_register_callback(t, k) PROVE Keeps
  BY <1>28, RegisterKeeps
<1>29. ASSUME NEW t \in Threads, ReportPresent(t) PROVE Keeps
  BY <1>29, ReportPresentKeeps
<1>30. ASSUME NEW t \in Threads, NEW k \in Callbacks,
              libusb_hotplug_deregister_callback(t, k) PROVE Keeps
  BY <1>30, DeregisterKeeps
<1>31. ASSUME NEW t \in Threads, TakeMessage(t) PROVE Keeps
  BY <1>31, TakeMessageKeeps
<1>32. ASSUME NEW t \in Threads, NEW k \in Callbacks, usbi_hotplug_match(t, k) PROVE Keeps
  BY <1>32, MatchKeeps
<1>33. ASSUME NEW t \in Threads, FinishMessage(t) PROVE Keeps
  BY <1>33, FinishMessageKeeps
<1>34. ASSUME NEW a \in Actors, Unref(a) PROVE Keeps
  BY <1>34, UnrefKeeps
<1>h. ASSUME NEW h \in Actors, Hotplug(h) PROVE Keeps
  BY <1>h, <1>2, <1>3, <1>4, <1>5, <1>6 DEF Hotplug
<1>c. ASSUME NEW t \in Threads, Context(t) PROVE Keeps
  BY <1>c, <1>11, <1>12, <1>14, <1>15, <1>13, <1>16, <1>17, <1>19, <1>18 DEF Context
<1>u. ASSUME NEW t \in Threads, Use(t) PROVE Keeps
  BY <1>u, <1>20, <1>21, <1>9, <1>22, <1>23, <1>10, <1>26, <1>27, <1>24, <1>25 DEF Use
<1>e. ASSUME NEW t \in Threads, Events(t) PROVE Keeps
  BY <1>e, <1>31, <1>33, <1>29, <1>28, <1>30, <1>32 DEF Events
<1> QED BY <1>1, <1>8, <1>7, <1>34, <1>h, <1>c, <1>u, <1>e DEF Next

(* The reference count of every device is the number of references there   *)
(* are, and a device is freed when there is none, whoever takes, hands on  *)
(* and gives up references in whatever order (libusb_ref_device,           *)
(* libusb_unref_device, core.c:679-1185).                                  *)
THEOREM ReferencesAreCounted == Spec => []CountsMatchReferences
<1>1. Init => Core
  BY InitCore
<1>2. Core /\ [Next]_vars => Core'
  BY NextKeeps
<1>3. Core => CountsMatchReferences
  BY DEF Core
<1> QED BY <1>1, <1>2, <1>3, PTL DEF Spec

(* What a message names is alive.                                          *)
LEMMA NothingDanglesNow ==
  ASSUME Core, Talk
  PROVE  NothingDangles
<1>0. Types
  BY DEF Core
<1>1. \A d \in Devs : Initial(d) => d \in alive
  BY <1>0, InitialIsAlive DEF Core
<1>2. ASSUME NEW i \in 1 .. Len(hotplug_msgs), hotplug_msgs[i].device # None
      PROVE  hotplug_msgs[i].device \in alive
  <2>1. hotplug_msgs[i] \in Messages
    BY <1>0 DEF Types
  <2>2. PICK d \in Devs : Msg(i) = Message("ARRIVED", d) \/ Msg(i) = Message("LEFT", d)
    BY <2>1, <1>2, NoMessage DEF Msg
  <2>3. hotplug_msgs[i].device = d
    BY <2>2, MessagesDiffer DEF Msg
  <2>4. CASE Msg(i) = Message("ARRIVED", d)
    <3>1. d \in usb_devs \/ Unlisted(d) \/ Queued("LEFT", d)
      <4>1. \A j \in i + 1 .. Len(hotplug_msgs) : j \in 1 .. Len(hotplug_msgs)
        OBVIOUS
      <4> QED BY <2>4, <4>1 DEF Core, Arrived, Queued
    <3> QED BY <3>1, <2>3, <1>0, <1>1, DepartedIs DEF Initial
  <2>5. CASE Msg(i) = Message("LEFT", d)
    <3>1. Queued("LEFT", d)
      BY <2>5 DEF Queued
    <3> QED BY <3>1, <2>3, <1>0, <1>1, DepartedIs DEF Initial
  <2> QED BY <2>2, <2>4, <2>5
<1>3. ASSUME message # None PROVE message.device \in alive \cup {None}
  <2>1. \/ message = Message("none", None)
        \/ \E d \in Devs : message = Message("ARRIVED", d) \/ message = Message("LEFT", d)
    <3>1. message \in Messages
      BY <1>0, <1>3 DEF Types
    <3>2. /\ message = Message(message.event, message.device)
          /\ \/ message.event \in {"ARRIVED", "LEFT"} /\ message.device \in Devs
             \/ message.event = "none" /\ message.device = None
      BY <3>1, NoMessage
    <3>3. CASE message.event = "none" /\ message.device = None
      BY <3>2, <3>3
    <3>4. CASE message.event \in {"ARRIVED", "LEFT"} /\ message.device \in Devs
      BY <3>2, <3>4
    <3> QED BY <3>2, <3>3, <3>4
  <2>2. ASSUME NEW d \in Devs, message = Message("ARRIVED", d) \/ message = Message("LEFT", d)
        PROVE  Initial(d) /\ message.device = d
    <3>1. message.device = d
      BY <2>2, MessagesDiffer
    <3>2. Initial(d)
      BY <2>2, <1>0, DepartedIs, MessagesDiffer DEF Core, Arrived, Initial
    <3> QED BY <3>1, <3>2
  <2>3. CASE message = Message("none", None)
    BY <2>3, MessagesDiffer
  <2>4. CASE \E d \in Devs : message = Message("ARRIVED", d) \/ message = Message("LEFT", d)
    <3>1. PICK d \in Devs : message = Message("ARRIVED", d) \/ message = Message("LEFT", d)
      BY <2>4
    <3>2. Initial(d) /\ message.device = d
      BY <2>2, <3>1
    <3> QED BY <3>2, <1>1
  <2> QED BY <2>1, <2>3, <2>4
<1>4. \A t \in Threads : new_callback[t] # None => cb[new_callback[t]] # "freed"
  BY DEF Talk, Registration
<1>5. DOMAIN hotplug_msgs = 1 .. Len(hotplug_msgs)
  BY <1>0 DEF Types
<1> QED BY <1>2, <1>3, <1>4, <1>5 DEF NothingDangles

(* With no message on its way, what callbacks know is the list.            *)
LEMMA CallbacksKnowNow ==
  ASSUME Core, Talk
  PROVE  CallbacksKnow
<1> SUFFICES ASSUME ctx = "ready", Quiet, NEW k \in Callbacks, Listens(k)
             PROVE  /\ told[k] \subseteq usb_devs
                    /\ k \in Enumerating => told[k] = usb_devs
  BY DEF CallbacksKnow, Listens
<1>1. /\ hotplug_msgs = << >> /\ message = None /\ leaving = None /\ fresh = None
      /\ leave = "none" /\ Types
  BY DEF Quiet, Busy, Core, Lock
<1>2. \A d \in Devs : ~Going(k, d) /\ ~Coming(k, d)
  BY <1>1, NoMessage, NoneAssumption DEF Going, Coming, Queued, Unlisted
<1>3. told[k] \subseteq usb_devs
  BY <1>1, <1>2 DEF Talk, Knows, Types
<1>4. ASSUME k \in Enumerating PROVE told[k] = usb_devs
  <2>1. \A d \in usb_devs : d \in told[k] \/ Coming(k, d)
    BY <1>4 DEF Talk, Knows
  <2>2. usb_devs \subseteq told[k]
    BY <2>1, <1>1, <1>2 DEF Types
  <2> QED BY <2>2, <1>3
<1> QED BY <1>3, <1>4

(* A message that is queued or being told names a device that is not       *)
(* freed (core.c:721, 743, hotplug.c:189-211), and the callback that is    *)
(* registered is not freed while libusb_hotplug_register_callback uses it  *)
(* (hotplug.c:299).                                                        *)
THEOREM NothingEverDangles ==
  ASSUME OneLoop
  PROVE  Spec => []NothingDangles
<1>1. Init => Core /\ Talk
  BY InitCore
<1>2. Core /\ Talk /\ [Next]_vars => (Core /\ Talk)'
  BY NextKeeps
<1>3. Core /\ Talk => NothingDangles
  BY NothingDanglesNow
<1> QED BY <1>1, <1>2, <1>3, PTL DEF Spec

(* When every message has been told, no callback believes in a device      *)
(* that has left, and one that was registered with ENUMERATE knows all     *)
(* that are listed, however arrivals fall between its registration and     *)
(* the copy of the list (hotplug.c:157-312).                               *)
THEOREM CallbacksAlwaysKnow ==
  ASSUME OneLoop
  PROVE  Spec => []CallbacksKnow
<1>1. Init => Core /\ Talk
  BY InitCore
<1>2. Core /\ Talk /\ [Next]_vars => (Core /\ Talk)'
  BY NextKeeps
<1>3. Core /\ Talk => CallbacksKnow
  BY CallbacksKnowNow
<1> QED BY <1>1, <1>2, <1>3, PTL DEF Spec

-----------------------------------------------------------------------------
(* The list and the ports.  What may be on the netlink socket:             *)
Uevents == [action : {"add", "remove"}, port : Ports, address : Nat] \cup {Other}
Addresses == 1 .. plugs

(* What is queued, or will never be heard of, the list does not know yet.  *)
Waits(m) == m \in lost \/ \E i \in 1 .. Len(uevents) : uevents[i] = m

(* The kernel gives each address to one port and once: what is about to be *)
(* removed is gone for good, and what is about to be added is there or is  *)
(* about to be removed behind, if that was not lost.                       *)
Wire ==
  /\ plugs \in Nat /\ plugged \in [Ports -> Addresses \cup {None}]
  /\ uevents \in Seq(Uevents) /\ lost \subseteq Uevents
  /\ monitor = "off" => uevents = <<>>
  /\ \A p, q \in Ports : There(p) /\ plugged[p] = plugged[q] => p = q
  /\ \A i \in 1 .. Len(uevents), p \in Ports, a \in Nat :
       /\ uevents[i] = Removed(p, a) => a \in Addresses /\ ~InUse(a)
       /\ uevents[i] = Added(p, a) =>
            /\ a \in Addresses
            /\ \/ plugged[p] = a \/ Removed(p, a) \in lost
               \/ \E j \in i + 1 .. Len(uevents) : uevents[j] = Removed(p, a)
  /\ \A p \in Ports, a \in Nat : Removed(p, a) \in lost => a \in Addresses /\ ~InUse(a)

(* What is at this port with this address leaves no more unnoticed.        *)
Ends(p, a) == plugged[p] = a \/ Waits(Removed(p, a))

(* What is to be enumerated: a port, or the hub of one that waits for it.  *)
Jobs == [port : Ports, address : Nat \cup {None}, initialised : BOOLEAN]
Sound(j) == /\ j.address # None => Ends(j.port, j.address)
            /\ j.initialised => j.address # None /\ Found(j.address) = {}
Todo ==
  \/ jobs = <<>>
  \/ \E j \in Jobs : jobs = <<j>> /\ Sound(j)
  \/ \E j \in Jobs : /\ jobs = <<Job(Parent[j.port], None), j>> /\ Sound(j)
                     /\ j.initialised /\ Parent[j.port] # None

(* The list has a device once, and all that are attached; one that is      *)
(* disconnected has left or an open missed its node - only then it is      *)
(* listed and lost -, and the scan ends with the last port.                *)
Listing ==
  /\ session \in [Devs -> Addresses \cup {None}] /\ port \in [Devs -> Ports \cup {None}]
  /\ attached \subseteq Devs /\ \A d \in attached : session[d] # None /\ port[d] # None
  /\ usb_devs \subseteq attached /\ (~Ending => attached \subseteq usb_devs)
  /\ \A d, e \in usb_devs : session[d] = session[e] => d = e
  /\ leave = "found" => \/ ~InUse(session[leaving])
                         \/ Added(port[leaving], session[leaving]) \in lost
  /\ \A d \in usb_devs : Added(port[d], session[d]) \in lost => d = leaving
  /\ ctx = "new" => jobs = <<>> /\ usb_devs = {}
  /\ scan \subseteq Ports /\ (ctx \in {"scanned", "ready"} => scan = {})

(* While the context is active, each device that is listed is plugged in   *)
(* or on its way out, and what is plugged in is listed or on its way in.   *)
Due(p) == \E i \in 1 .. Len(jobs) : jobs[i].port = p /\ jobs[i].address \in {None, plugged[p]}
Has(p) == \E d \in usb_devs : port[d] = p /\ session[d] = plugged[p]
Accounted ==
  Active =>
    /\ monitor # "off"
    /\ \A d \in usb_devs : d = leaving \/ Ends(port[d], session[d])
    /\ \A p \in Ports : There(p) =>
         ctx = "active" \/ p \in scan \/ Waits(Added(p, plugged[p])) \/ Due(p) \/ Has(p)

(* The invariant of the list, beside Core.                                 *)
Account == Wire /\ Todo /\ Listing /\ Accounted

(* The records are told apart by their fields.                             *)
LEMMA UeventsDiffer ==
  ASSUME NEW p, NEW a, NEW q, NEW b
  PROVE  /\ Added(p, a) = Added(q, b) <=> p = q /\ a = b
         /\ Removed(p, a) = Removed(q, b) <=> p = q /\ a = b
         /\ Added(p, a) # Removed(q, b)
         /\ Added(p, a) # Other /\ Removed(p, a) # Other
         /\ Added(p, a).action = "add" /\ Removed(p, a).action = "remove"
         /\ Added(p, a).port = p /\ Removed(p, a).port = p
         /\ Added(p, a).address = a /\ Removed(p, a).address = a
<1>1. /\ Added(p, a).action = "add" /\ Added(p, a).port = p /\ Added(p, a).address = a
      /\ Removed(p, a).action = "remove" /\ Removed(p, a).port = p /\ Removed(p, a).address = a
      /\ Added(q, b).port = q /\ Added(q, b).address = b
      /\ Removed(q, b).action = "remove" /\ Removed(q, b).port = q /\ Removed(q, b).address = b
      /\ Other.action = "other"
  BY DEF Added, Removed, Other
<1>2. /\ p = q /\ a = b => Added(p, a) = Added(q, b) /\ Removed(p, a) = Removed(q, b)
  OBVIOUS
<1> QED BY <1>1, <1>2

(* There are three kinds of them.                                          *)
LEMMA UeventIs ==
  ASSUME NEW m \in Uevents
  PROVE  \/ \E p \in Ports, a \in Nat : m = Added(p, a)
         \/ \E p \in Ports, a \in Nat : m = Removed(p, a)
         \/ m = Other
<1>1. CASE m \in [action : {"add", "remove"}, port : Ports, address : Nat]
  <2>1. m = [action |-> m.action, port |-> m.port, address |-> m.address]
    BY <1>1
  <2>2. m.port \in Ports /\ m.address \in Nat /\ m.action \in {"add", "remove"}
    BY <1>1
  <2> QED BY <2>1, <2>2 DEF Added, Removed
<1> QED BY <1>1 DEF Uevents

(* The jobs, the first of them and the rest.                               *)
LEMMA NoJob ==
  ASSUME jobs = <<>>
  PROVE  \A p : ~Due(p)
<1> QED BY DEF Due

LEMMA OneJob ==
  ASSUME NEW j, jobs = <<j>>
  PROVE  /\ jobs # <<>> /\ Head(jobs) = j /\ Tail(jobs) = <<>>
         /\ \A p : Due(p) <=> j.port = p /\ j.address \in {None, plugged[p]}
<1>1. Len(jobs) = 1 /\ jobs[1] = j
  OBVIOUS
<1>2. 1 .. Len(jobs) = {1}
  BY <1>1
<1> QED BY <1>1, <1>2 DEF Due

LEMMA TwoJobs ==
  ASSUME NEW k, NEW j, jobs = <<k, j>>
  PROVE  /\ jobs # <<>> /\ Head(jobs) = k /\ Tail(jobs) = <<j>>
         /\ \A p : Due(p) <=> \/ k.port = p /\ k.address \in {None, plugged[p]}
                              \/ j.port = p /\ j.address \in {None, plugged[p]}
<1>1. Len(jobs) = 2 /\ jobs[1] = k /\ jobs[2] = j
  OBVIOUS
<1>2. 1 .. Len(jobs) = {1, 2}
  BY <1>1
<1>3. Tail(jobs) = <<j>>
  OBVIOUS
<1> QED BY <1>1, <1>2, <1>3 DEF Due

LEMMA DueNext ==
  ASSUME NEW k, NEW j
  PROVE  /\ jobs' = <<>> => \A p : ~Due(p)'
         /\ jobs' = <<j>> =>
              \A p : Due(p)' <=> j.port = p /\ j.address \in {None, plugged'[p]}
         /\ jobs' = <<k, j>> =>
              \A p : Due(p)' <=> \/ k.port = p /\ k.address \in {None, plugged'[p]}
                                 \/ j.port = p /\ j.address \in {None, plugged'[p]}
<1>1. jobs' = <<>> => \A p : ~Due(p)'
  BY DEF Due
<1>2. ASSUME jobs' = <<j>>
      PROVE  \A p : Due(p)' <=> j.port = p /\ j.address \in {None, plugged'[p]}
  <2>1. Len(jobs') = 1 /\ jobs'[1] = j
    BY <1>2
  <2>2. 1 .. Len(jobs') = {1}
    BY <2>1
  <2> QED BY <2>1, <2>2 DEF Due
<1>3. ASSUME jobs' = <<k, j>>
      PROVE  \A p : Due(p)' <=> \/ k.port = p /\ k.address \in {None, plugged'[p]}
                                \/ j.port = p /\ j.address \in {None, plugged'[p]}
  <2>1. Len(jobs') = 2 /\ jobs'[1] = k /\ jobs'[2] = j
    BY <1>3
  <2>2. 1 .. Len(jobs') = {1, 2}
    BY <2>1
  <2> QED BY <2>1, <2>2 DEF Due
<1> QED BY <1>1, <1>2, <1>3

(* A job of Job.                                                           *)
LEMMA JobIs ==
  ASSUME NEW p \in Ports, NEW a \in Nat \cup {None}
  PROVE  /\ Job(p, a) \in Jobs /\ Job(p, a).port = p /\ Job(p, a).address = a
         /\ ~Job(p, a).initialised
<1> QED BY DEF Job, Jobs

(* What ends has an address.                                               *)
LEMMA EndsIsAddress ==
  ASSUME Wire, NEW p \in Ports, NEW a \in Nat, Ends(p, a)
  PROVE  a \in Addresses
<1>1. CASE plugged[p] = a
  BY <1>1, NoneAssumption DEF Wire
<1>2. CASE Waits(Removed(p, a))
  BY <1>2 DEF Wire, Waits
<1> QED BY <1>1, <1>2 DEF Ends

(* The devices listed with an address that is used or about to be given up *)
(* are at the same port.                                                   *)
LEMMA EndsOnce ==
  ASSUME Wire, NEW p \in Ports, NEW q \in Ports, There(p), Ends(q, plugged[p])
  PROVE  q = p
<1>1. plugged[p] \in Addresses /\ plugged[p] \in Nat
  BY DEF Wire, There, Addresses
<1>2. CASE plugged[q] = plugged[p]
  BY <1>2 DEF Wire
<1>3. CASE Waits(Removed(q, plugged[p]))
  <2>1. ~InUse(plugged[p])
    BY <1>1, <1>3 DEF Wire, Waits
  <2> QED BY <2>1 DEF InUse
<1> QED BY <1>2, <1>3 DEF Ends

(* What only the kernel does.                                              *)
LEMMA WireAlone ==
  ASSUME Wire, UNCHANGED <<plugged, uevents, plugs, lost>>, monitor' = "off" => monitor = "off"
  PROVE  Wire'
<1> QED BY DEF Wire, There, InUse, Addresses, Removed, Added

(* What only the list, the kernel, the jobs and the socket tell.           *)
LEMMA AccountAlone ==
  ASSUME Account,
         UNCHANGED <<plugged, uevents, plugs, lost, jobs, leaving, leave, ctx, scan, usb_devs,
                     attached, session, port>>,
         monitor' = "off" <=> monitor = "off"
  PROVE  Account'
<1>1. Wire'
  BY WireAlone DEF Account
<1>2. Todo'
  BY DEF Account, Todo, Sound, Ends, Waits, Found, Job, Removed
<1>3. Listing'
  BY DEF Account, Listing, InUse, Addresses, Ending, Added
<1>4. Accounted'
  BY DEF Account, Accounted, Active, There, Due, Has, Ends, Waits, Added, Removed
<1> QED BY <1>1, <1>2, <1>3, <1>4 DEF Account

(* Additions that are lost or no longer lost do not concern the kernel.    *)
LEMMA WireAdditions ==
  ASSUME Wire, lost' \subseteq Uevents,
         \A p, a : Removed(p, a) \in lost' <=> Removed(p, a) \in lost,
         UNCHANGED <<plugged, uevents, plugs>>, monitor' = "off" => monitor = "off"
  PROVE  Wire' /\ \A p, a : Ends(p, a)' <=> Ends(p, a)
<1>1. \A p, a : Removed(p, a)' = Removed(p, a) /\ Added(p, a)' = Added(p, a)
  BY DEF Removed, Added
<1>2. \A a : (InUse(a)' <=> InUse(a)) /\ Addresses' = Addresses
  BY DEF InUse, Addresses
<1>3. \A p : There(p)' <=> There(p)
  BY DEF There
<1>4. Wire'
  <2>1. /\ plugs' \in Nat /\ plugged' \in [Ports -> Addresses' \cup {None}]
        /\ uevents' \in Seq(Uevents) /\ lost' \subseteq Uevents
        /\ monitor' = "off" => uevents' = <<>>
        /\ \A p, q \in Ports : There(p)' /\ plugged'[p] = plugged'[q] => p = q
    BY <1>2, <1>3 DEF Wire
  <2>2. \A i \in 1 .. Len(uevents'), p \in Ports, a \in Nat :
          /\ uevents'[i] = Removed(p, a)' => a \in Addresses' /\ ~InUse(a)'
          /\ uevents'[i] = Added(p, a)' =>
               /\ a \in Addresses'
               /\ \/ plugged'[p] = a \/ Removed(p, a)' \in lost'
                  \/ \E j \in i + 1 .. Len(uevents') : uevents'[j] = Removed(p, a)'
    BY <1>1, <1>2 DEF Wire
  <2>3. \A p \in Ports, a \in Nat : Removed(p, a)' \in lost' => a \in Addresses' /\ ~InUse(a)'
    BY <1>1, <1>2 DEF Wire
  <2> QED BY <2>1, <2>2, <2>3 DEF Wire
<1>5. \A p, a : Waits(Removed(p, a))' <=> Waits(Removed(p, a))
  BY <1>1 DEF Waits
<1>6. \A p, a : Ends(p, a)' <=> Ends(p, a)
  BY <1>5 DEF Ends
<1> QED BY <1>4, <1>6

(* An addition that is missed waits from then on.                          *)
LEMMA MissesIs ==
  ASSUME Wire, NEW p \in Ports, NEW a \in Nat, Misses(p, a),
         UNCHANGED <<plugged, uevents, plugs>>, monitor' = "off" => monitor = "off"
  PROVE  /\ Wire' /\ \A q, b : Ends(q, b)' <=> Ends(q, b)
         /\ lost \subseteq lost' /\ lost' \subseteq lost \cup {Added(p, a)}
         /\ \A m : Waits(m) => Waits(m)'
         /\ plugged[p] = a => Added(p, a) \in lost'
<1>1. /\ lost \subseteq lost' /\ lost' \subseteq lost \cup {Added(p, a)}
      /\ plugged[p] = a => Added(p, a) \in lost'
  BY DEF Misses
<1>2. Added(p, a) \in Uevents
  BY DEF Added, Uevents
<1>3. lost' \subseteq Uevents
  BY <1>1, <1>2 DEF Wire
<1>4. \A q, b : Removed(q, b) \in lost' <=> Removed(q, b) \in lost
  BY <1>1, UeventsDiffer
<1>5. \A m : Waits(m) => Waits(m)'
  BY <1>1 DEF Waits
<1> QED BY <1>1, <1>3, <1>4, <1>5, WireAdditions

(* The kernel queues a uevent and those of the interfaces.                 *)
LEMMA Queues ==
  ASSUME uevents \in Seq(Uevents), NEW x \in Uevents, NEW p,
         \/ uevents' = uevents \o (<<x>> \o OfInterfaces(p))
         \/ uevents' = uevents \o (OfInterfaces(p) \o <<x>>)
  PROVE  /\ uevents' \in Seq(Uevents) /\ Len(uevents) \in Nat
         /\ Len(uevents) <= Len(uevents') /\ Len(uevents') \in Nat
         /\ \A i \in 1 .. Len(uevents) : uevents'[i] = uevents[i]
         /\ \A i \in 1 .. Len(uevents') :
              \/ i \in 1 .. Len(uevents)
              \/ uevents'[i] = x \/ uevents'[i] = Other
         /\ \E i \in 1 .. Len(uevents') : i > Len(uevents) /\ uevents'[i] = x
<1> DEFINE o == Other
<1>1. o \in Uevents /\ Len(uevents) \in Nat
  BY DEF Uevents
<1> HIDE DEF o
<1>2. CASE \/ uevents' = uevents \o (<<x>> \o << >>)
           \/ uevents' = uevents \o (<< >> \o <<x>>)
  <2>0. uevents' = uevents \o <<x>>
    <3>1. <<x>> \o << >> = <<x>> /\ << >> \o <<x>> = <<x>>
      OBVIOUS
    <3> QED BY <3>1, <1>2
  <2>1. /\ uevents' \in Seq(Uevents) /\ Len(uevents') = Len(uevents) + 1
        /\ \A i \in 1 .. Len(uevents) : uevents'[i] = uevents[i]
        /\ uevents'[Len(uevents) + 1] = x
    BY <1>1, <2>0
  <2>2. Len(uevents) + 1 \in 1 .. Len(uevents') /\ Len(uevents) + 1 > Len(uevents)
    BY <1>1, <2>1
  <2>3. \A i \in 1 .. Len(uevents') : i \in 1 .. Len(uevents) \/ i = Len(uevents) + 1
    BY <1>1, <2>1
  <2> QED BY <1>1, <2>1, <2>2, <2>3
<1>3. CASE \/ uevents' = uevents \o (<<x>> \o <<o>>)
           \/ uevents' = uevents \o (<<o>> \o <<x>>)
  <2>0. ASSUME NEW y \in Uevents, NEW z \in Uevents, uevents' = uevents \o (<<y>> \o <<z>>)
        PROVE  /\ uevents' \in Seq(Uevents) /\ Len(uevents') = Len(uevents) + 2
               /\ \A i \in 1 .. Len(uevents) : uevents'[i] = uevents[i]
               /\ uevents'[Len(uevents) + 1] = y /\ uevents'[Len(uevents) + 2] = z
    <3> DEFINE b == <<y>>
               c == <<z>>
               s == uevents \o b
    <3>1. /\ b \in Seq(Uevents) /\ c \in Seq(Uevents)
          /\ s \in Seq(Uevents) /\ Len(s) = Len(uevents) + 1
          /\ \A i \in 1 .. Len(uevents) : s[i] = uevents[i]
          /\ s[Len(uevents) + 1] = y
      BY <1>1
    <3>2. uevents' = uevents \o (b \o c)
      BY <2>0
    <3>3. uevents' = s \o c
      <4> HIDE DEF b, c
      <4>1. uevents \o (b \o c) = (uevents \o b) \o c
        BY <3>1
      <4> QED BY <3>2, <4>1
    <3> HIDE DEF s, b
    <3>4. /\ uevents' \in Seq(Uevents) /\ Len(uevents') = Len(s) + 1
          /\ \A i \in 1 .. Len(s) : uevents'[i] = s[i]
          /\ uevents'[Len(s) + 1] = z
      BY <3>1, <3>3
    <3>5. /\ \A i \in 1 .. Len(uevents) : i \in 1 .. Len(s)
          /\ Len(uevents) + 1 \in 1 .. Len(s) /\ Len(s) + 1 = Len(uevents) + 2
      BY <1>1, <3>1
    <3> QED BY <3>1, <3>4, <3>5
  <2>1. /\ uevents' \in Seq(Uevents) /\ Len(uevents') = Len(uevents) + 2
        /\ \A i \in 1 .. Len(uevents) : uevents'[i] = uevents[i]
        /\ \/ uevents'[Len(uevents) + 1] = x /\ uevents'[Len(uevents) + 2] = o
           \/ uevents'[Len(uevents) + 1] = o /\ uevents'[Len(uevents) + 2] = x
    BY <1>1, <1>3, <2>0
  <2>2. /\ Len(uevents) + 1 \in 1 .. Len(uevents') /\ Len(uevents) + 1 > Len(uevents)
        /\ Len(uevents) + 2 \in 1 .. Len(uevents') /\ Len(uevents) + 2 > Len(uevents)
        /\ Len(uevents) <= Len(uevents') /\ Len(uevents') \in Nat
    BY <1>1, <2>1
  <2>3. \A i \in 1 .. Len(uevents') :
           i \in 1 .. Len(uevents) \/ i = Len(uevents) + 1 \/ i = Len(uevents) + 2
    BY <1>1, <2>1
  <2>4. \E i \in 1 .. Len(uevents') : i > Len(uevents) /\ uevents'[i] = x
    BY <2>1, <2>2
  <2> QED BY <1>1, <2>1, <2>2, <2>3, <2>4 DEF o
<1> QED BY <1>2, <1>3 DEF OfInterfaces, o

(* What Send does to the socket: the uevents of before are there, at their *)
(* places or all one further behind an error, and while somebody listens,  *)
(* x waits behind them or is lost.                                         *)
Sent(x, k) ==
  /\ uevents' \in Seq(Uevents) /\ Len(uevents) \in Nat /\ Len(uevents') \in Nat
  /\ \A i \in 1 .. Len(uevents) :
       i + k \in 1 .. Len(uevents') /\ uevents'[i + k] = uevents[i]
  /\ \A i \in 1 .. Len(uevents') :
       \/ i - k \in 1 .. Len(uevents) /\ uevents'[i] = uevents[i - k]
       \/ uevents'[i] = x \/ uevents'[i] = Other
  /\ lost \subseteq lost' /\ lost' \subseteq lost \cup {x}
  /\ monitor = "off" => uevents' = uevents
  /\ monitor # "off" => \/ x \in lost'
                        \/ \E i \in 1 .. Len(uevents') : i > Len(uevents) + k /\ uevents'[i] = x

LEMMA SendIs ==
  ASSUME Wire, NEW x \in Uevents, NEW p,
         Send(<<x>> \o OfInterfaces(p), x) \/ Send(OfInterfaces(p) \o <<x>>, x)
  PROVE  \E k \in {0, 1} : Sent(x, k)
<1>1. uevents \in Seq(Uevents) /\ Len(uevents) \in Nat /\ Other \in Uevents
  BY DEF Wire, Uevents
<1>2. CASE monitor = "off" /\ uevents' = uevents /\ lost' = lost
  <2>1. Sent(x, 0)
    BY <1>1, <1>2 DEF Sent
  <2> QED BY <2>1
<1>3. CASE /\ monitor # "off" /\ lost' = lost
           /\ \/ uevents' = uevents \o (<<x>> \o OfInterfaces(p))
              \/ uevents' = uevents \o (OfInterfaces(p) \o <<x>>)
  <2>1. /\ uevents' \in Seq(Uevents) /\ Len(uevents) <= Len(uevents') /\ Len(uevents') \in Nat
        /\ \A i \in 1 .. Len(uevents) : uevents'[i] = uevents[i]
        /\ \A i \in 1 .. Len(uevents') :
             \/ i \in 1 .. Len(uevents)
             \/ uevents'[i] = x \/ uevents'[i] = Other
        /\ \E i \in 1 .. Len(uevents') : i > Len(uevents) /\ uevents'[i] = x
    BY <1>1, <1>3, Queues
  <2>2. \A i : i \in 1 .. Len(uevents) => /\ i \in 1 .. Len(uevents')
                                          /\ i + 0 = i /\ i - 0 = i
    BY <1>1, <2>1
  <2>3. \A i \in 1 .. Len(uevents) : i + 0 \in 1 .. Len(uevents') /\ uevents'[i + 0] = uevents[i]
    BY <2>1, <2>2
  <2>4. \A i \in 1 .. Len(uevents') :
          \/ i - 0 \in 1 .. Len(uevents) /\ uevents'[i] = uevents[i - 0]
          \/ uevents'[i] = x \/ uevents'[i] = Other
    BY <2>1, <2>2
  <2>5. \E i \in 1 .. Len(uevents') : i > Len(uevents) + 0 /\ uevents'[i] = x
    BY <1>1, <2>1
  <2>6. Sent(x, 0)
    BY <1>1, <1>3, <2>1, <2>3, <2>4, <2>5 DEF Sent
  <2> QED BY <2>6
<1>4. CASE monitor # "off" /\ uevents' = <<Other>> \o uevents /\ lost' = lost \cup {x}
  <2> DEFINE o == Other
  <2>0. o \in Uevents /\ uevents' = <<o>> \o uevents
    BY <1>1, <1>4
  <2> HIDE DEF o
  <2>1. /\ uevents' \in Seq(Uevents) /\ Len(uevents') = Len(uevents) + 1
        /\ uevents'[1] = o
        /\ \A i \in 1 .. Len(uevents) : uevents'[i + 1] = uevents[i]
    BY <1>1, <2>0
  <2>2. \A i \in 1 .. Len(uevents') :
          i # 1 => i - 1 \in 1 .. Len(uevents) /\ uevents'[i] = uevents[i - 1]
    <3> SUFFICES ASSUME NEW i \in 1 .. Len(uevents'), i # 1
                 PROVE  i - 1 \in 1 .. Len(uevents) /\ uevents'[i] = uevents[i - 1]
      OBVIOUS
    <3>1. i - 1 \in 1 .. Len(uevents) /\ (i - 1) + 1 = i
      BY <1>1, <2>1
    <3> QED BY <2>1, <3>1
  <2>3. \A i \in 1 .. Len(uevents) : i + 1 \in 1 .. Len(uevents')
    BY <1>1, <2>1
  <2>4. Sent(x, 1)
    BY <1>1, <1>4, <2>1, <2>2, <2>3 DEF Sent, o
  <2> QED BY <2>4
<1> QED BY <1>2, <1>3, <1>4 DEF Send

(* A uevent that waits goes on waiting, and the order of two is kept.      *)
LEMMA SentWaits ==
  ASSUME NEW x, NEW k \in {0, 1}, Sent(x, k), NEW m, Waits(m)
  PROVE  Waits(m)'
<1>1. CASE m \in lost
  BY <1>1 DEF Sent, Waits
<1>2. CASE \E i \in 1 .. Len(uevents) : uevents[i] = m
  <2>1. \E i \in 1 .. Len(uevents') : uevents'[i] = m
    BY <1>2 DEF Sent
  <2> QED BY <2>1 DEF Waits
<1> QED BY <1>1, <1>2 DEF Waits

LEMMA QueuedAddition ==
  ASSUME Wire, NEW x, NEW k \in {0, 1}, Sent(x, k),
         NEW i \in 1 .. Len(uevents), NEW p \in Ports, NEW a \in Nat,
         uevents[i] = Added(p, a), plugged[p] # a
  PROVE  \/ Removed(p, a) \in lost'
         \/ \E j \in (i + k) + 1 .. Len(uevents') : uevents'[j] = Removed(p, a)
<1>1. CASE Removed(p, a) \in lost
  BY <1>1 DEF Sent
<1>2. CASE \E j \in i + 1 .. Len(uevents) : uevents[j] = Removed(p, a)
  <2>1. PICK j \in i + 1 .. Len(uevents) : uevents[j] = Removed(p, a)
    BY <1>2
  <2>2. Len(uevents) \in Nat /\ j \in 1 .. Len(uevents)
    BY DEF Sent
  <2>3. j + k \in 1 .. Len(uevents') /\ uevents'[j + k] = Removed(p, a)
    BY <2>1, <2>2 DEF Sent
  <2>4. j + k \in (i + k) + 1 .. Len(uevents')
    BY <2>2, <2>3
  <2> QED BY <2>3, <2>4
<1> QED BY <1>1, <1>2 DEF Wire

(* A device is plugged in: its address is new, and while somebody listens, *)
(* the uevent of its arrival waits.                                        *)
LEMMA PlugInAccount ==
  ASSUME Core, Account, NEW p \in Ports, PlugIn(p)
  PROVE  Account'
<1>n. PICK n \in Nat : n = plugs'
  BY DEF PlugIn, Account, Wire
<1> DEFINE x == Added(p, n)
<1>1. /\ ~There(p) /\ plugs' = plugs + 1 /\ plugged' = [plugged EXCEPT ![p] = plugs']
      /\ Send(<<x>> \o OfInterfaces(p), x)
      /\ UNCHANGED <<jobs, leaving, leave, monitor, ctx, scan, usb_devs, attached, session,
                     port>>
  BY <1>n DEF PlugIn, work, context, devices
<1>0. /\ plugs \in Nat /\ plugs' \in Nat /\ Addresses \subseteq Addresses'
      /\ plugs' \in Addresses' /\ plugs' \notin Addresses \cup {None}
      /\ Addresses \subseteq Nat /\ None \notin Nat /\ n = plugs'
  BY <1>n, <1>1, NoneAssumption DEF Account, Wire, Addresses
<1>2. /\ plugged \in [Ports -> Addresses \cup {None}] /\ plugged[p] = None
      /\ plugged' \in [Ports -> Addresses' \cup {None}]
      /\ \A q \in Ports : plugged'[q] = IF q = p THEN plugs' ELSE plugged[q]
  BY <1>0, <1>1 DEF Account, Wire, There
<1>3. \A a \in Addresses : InUse(a)' => InUse(a)
  BY <1>0, <1>2 DEF InUse
<1>x. x \in Uevents
  BY <1>0 DEF Added, Uevents
<1> HIDE DEF x
<1>4. PICK k \in {0, 1} : Sent(x, k)
  BY <1>1, <1>x, SendIs DEF Account
<1>5. /\ \A m : Waits(m) => Waits(m)'
      /\ monitor # "off" => Waits(x)'
  BY <1>4, SentWaits DEF Sent, Waits
<1>6. \A q \in Ports, a \in Addresses : Ends(q, a) => Ends(q, a)'
  BY <1>0, <1>2, <1>5 DEF Ends, Removed
<1>7. Wire'
  <2>1. ASSUME NEW q \in Ports, NEW r \in Ports, There(q)', plugged'[q] = plugged'[r]
        PROVE  q = r
    <3>1. /\ \A s \in Ports : There(s) /\ plugged[s] = plugged[r] => s = r
          /\ There(q)' => plugged'[q] # None
      BY DEF Account, Wire, There
    <3> QED BY <1>0, <1>2, <2>1, <3>1 DEF There
  <2>2. ASSUME NEW i \in 1 .. Len(uevents'), NEW q \in Ports, NEW a \in Nat
        PROVE  /\ uevents'[i] = Removed(q, a) => a \in Addresses' /\ ~InUse(a)'
               /\ uevents'[i] = Added(q, a) =>
                    /\ a \in Addresses'
                    /\ \/ plugged'[q] = a \/ Removed(q, a) \in lost'
                       \/ \E j \in i + 1 .. Len(uevents') : uevents'[j] = Removed(q, a)
    <3>1. CASE i - k \in 1 .. Len(uevents) /\ uevents'[i] = uevents[i - k]
      <4>h. PICK h \in 1 .. Len(uevents) : h = i - k /\ uevents[h] = uevents'[i]
        BY <3>1
      <4>i. h + k = i
        BY <4>h, <1>4 DEF Sent
      <4>1. ASSUME uevents'[i] = Removed(q, a) PROVE a \in Addresses' /\ ~InUse(a)'
        <5>1. uevents[h] = Removed(q, a)
          BY <4>h, <4>1
        <5>2. a \in Addresses /\ ~InUse(a)
          BY <5>1 DEF Account, Wire
        <5> QED BY <5>2, <1>0, <1>3
      <4>2. ASSUME uevents'[i] = Added(q, a), plugged'[q] # a
            PROVE  \/ Removed(q, a) \in lost'
                   \/ \E j \in i + 1 .. Len(uevents') : uevents'[j] = Removed(q, a)
        <5>0. uevents[h] = Added(q, a)
          BY <4>h, <4>2
        <5>1. a \in Addresses
          BY <5>0 DEF Account, Wire
        <5>2. plugged[q] # a
          BY <5>1, <4>2, <1>0, <1>2
        <5> QED BY <5>0, <5>2, <4>i, <1>4, QueuedAddition DEF Account
      <4>3. ASSUME uevents'[i] = Added(q, a) PROVE a \in Addresses'
        <5>1. uevents[h] = Added(q, a)
          BY <4>h, <4>3
        <5>2. a \in Addresses
          BY <5>1 DEF Account, Wire
        <5> QED BY <5>2, <1>0
      <4> QED BY <4>1, <4>2, <4>3
    <3>2. CASE uevents'[i] = x
      BY <1>0, <1>2, <3>2, UeventsDiffer DEF x
    <3>3. CASE uevents'[i] = Other
      BY <3>3, UeventsDiffer
    <3> QED BY <1>4, <3>1, <3>2, <3>3 DEF Sent
  <2>3. monitor' = "off" => uevents' = << >>
    BY <1>1, <1>4 DEF Account, Wire, Sent
  <2>4. lost' \subseteq Uevents /\ uevents' \in Seq(Uevents)
    BY <1>4, <1>x DEF Account, Wire, Sent
  <2>5. ASSUME NEW q \in Ports, NEW a \in Nat, Removed(q, a) \in lost'
        PROVE  a \in Addresses' /\ ~InUse(a)'
    <3>1. Removed(q, a) \in lost
      BY <2>5, <1>4, UeventsDiffer DEF Sent, x
    <3>2. a \in Addresses /\ ~InUse(a)
      BY <3>1 DEF Account, Wire
    <3> QED BY <3>2, <1>0, <1>3
  <2> QED BY <1>0, <1>2, <2>1, <2>2, <2>3, <2>4, <2>5
          DEF Wire, There, InUse, Addresses, Removed, Added
<1>8. Todo'
  <2>1. ASSUME NEW j \in Jobs, Sound(j) PROVE Sound(j)'
    <3>1. j.port \in Ports /\ j.address \in Nat \cup {None}
      BY DEF Jobs
    <3>2. j.address # None => j.address \in Addresses
      BY <2>1, <3>1, EndsIsAddress DEF Sound, Account
    <3>3. Found(j.address)' = Found(j.address)
      BY <1>1 DEF Found
    <3> QED BY <2>1, <3>1, <3>2, <3>3, <1>6 DEF Sound
  <2> QED BY <1>1, <2>1 DEF Account, Todo, Job
<1>9. Listing'
  <2>1. \A d \in attached : d \in Devs /\ session[d] \in Addresses
    BY DEF Account, Listing
  <2>2. session \in [Devs -> Addresses' \cup {None}]
    BY <1>0 DEF Account, Listing
  <2>3. leave = "found" => leaving \in attached
    BY DEF Core, Lock, Account, Listing
  <2>4. \A q, a : Added(q, a) \in lost => Added(q, a) \in lost'
    BY <1>4 DEF Sent
  <2>5. (\A d \in usb_devs : Added(port[d], session[d]) \in lost => d = leaving)'
    <3> SUFFICES ASSUME NEW d \in usb_devs, Added(port[d], session[d]) \in lost'
                 PROVE  d = leaving
      BY <1>1 DEF Added
    <3>1. session[d] # n
      BY <1>0, <2>1 DEF Account, Listing
    <3>2. Added(port[d], session[d]) \in lost
      BY <3>1, <1>4, UeventsDiffer DEF Sent, x
    <3> QED BY <3>2 DEF Account, Listing
  <2>6. (leave = "found" => \/ ~InUse(session[leaving])
                             \/ Added(port[leaving], session[leaving]) \in lost)'
    BY <1>1, <1>3, <2>1, <2>3, <2>4 DEF Account, Listing, InUse, Added
  <2> QED BY <1>1, <2>1, <2>2, <2>5, <2>6 DEF Account, Listing, Ending
<1>10. Accounted'
  <2> SUFFICES ASSUME Active
               PROVE  /\ monitor # "off"
                      /\ \A d \in usb_devs : d = leaving \/ Ends(port[d], session[d])'
                      /\ \A q \in Ports : There(q)' =>
                           \/ ctx = "active" \/ q \in scan \/ Waits(Added(q, plugged[q]))'
                           \/ Due(q)' \/ Has(q)'
    BY <1>1 DEF Accounted, Active
  <2>1. monitor # "off"
    BY DEF Account, Accounted
  <2>2. ASSUME NEW d \in usb_devs, d # leaving PROVE Ends(port[d], session[d])'
    <3>1. Ends(port[d], session[d]) /\ port[d] \in Ports /\ session[d] \in Addresses
      BY <2>2 DEF Account, Accounted, Listing
    <3>2. PICK q \in Ports, a \in Addresses : q = port[d] /\ a = session[d]
      BY <3>1
    <3>3. Ends(q, a)'
      BY <3>1, <3>2, <1>6
    <3>4. Ends(q, a)' <=> Ends(port[d], session[d])'
      BY <3>2, <1>1 DEF Ends, Waits, Removed
    <3> QED BY <3>3, <3>4
  <2>3. ASSUME NEW q \in Ports, There(q)', q # p
        PROVE  \/ ctx = "active" \/ q \in scan \/ Waits(Added(q, plugged[q]))'
               \/ Due(q)' \/ Has(q)'
    <3>1. plugged'[q] = plugged[q] /\ There(q)
      BY <1>2, <2>3 DEF There
    <3>2. ctx = "active" \/ q \in scan \/ Waits(Added(q, plugged[q])) \/ Due(q) \/ Has(q)
      BY <3>1 DEF Account, Accounted
    <3>3. (Due(q) => Due(q)') /\ (Has(q) => Has(q)')
      BY <1>1, <3>1 DEF Due, Has
    <3>4. Waits(Added(q, plugged[q])) => Waits(Added(q, plugged[q]))'
      BY <3>1, <1>5 DEF Waits, Added
    <3> QED BY <3>2, <3>3, <3>4
  <2>4. Waits(Added(p, plugged[p]))'
    <3>1. Waits(x)'
      BY <1>5, <2>1
    <3>2. x = Added(p, plugged'[p])
      BY <1>0, <1>2 DEF x
    <3> QED BY <3>1, <3>2 DEF Waits, Added
  <2> QED BY <2>1, <2>2, <2>3, <2>4
<1> QED BY <1>7, <1>8, <1>9, <1>10 DEF Account

(* A device is unplugged: nothing has its address any more, and while      *)
(* somebody listens, the uevent of its removal waits.                      *)
LEMMA UnplugAccount ==
  ASSUME Core, Account, NEW p \in Ports, Unplug(p)
  PROVE  Account'
<1>n. PICK n \in Addresses : n = plugged[p]
  BY DEF Unplug, There, Account, Wire
<1> DEFINE x == Removed(p, n)
<1>1. /\ There(p) /\ plugs' = plugs /\ plugged' = [plugged EXCEPT ![p] = None]
      /\ Send(OfInterfaces(p) \o <<x>>, x)
      /\ UNCHANGED <<jobs, leaving, leave, monitor, ctx, scan, usb_devs, attached, session,
                     port>>
  BY <1>n DEF Unplug, work, context, devices
<1>0. /\ plugs \in Nat /\ Addresses' = Addresses /\ Addresses \subseteq Nat /\ None \notin Nat
      /\ plugged[p] = n /\ n \in Nat
  BY <1>n, <1>1, NoneAssumption DEF Account, Wire, Addresses
<1>2. /\ plugged \in [Ports -> Addresses \cup {None}]
      /\ plugged' \in [Ports -> Addresses' \cup {None}]
      /\ \A q \in Ports : plugged'[q] = IF q = p THEN None ELSE plugged[q]
      /\ \A q \in Ports : plugged[q] = n => q = p
  <2>1. \A q \in Ports : There(p) /\ plugged[p] = plugged[q] => p = q
    BY DEF Account, Wire
  <2> QED BY <2>1, <1>0, <1>1 DEF Account, Wire
<1>3. (\A a \in Addresses : InUse(a)' => InUse(a)) /\ ~InUse(n)'
  BY <1>0, <1>2 DEF InUse
<1>x. x \in Uevents
  BY <1>0 DEF Removed, Uevents
<1> HIDE DEF x
<1>4. PICK k \in {0, 1} : Sent(x, k)
  BY <1>1, <1>x, SendIs DEF Account
<1>5. /\ \A m : Waits(m) => Waits(m)'
      /\ monitor # "off" => Waits(x)'
  BY <1>4, SentWaits DEF Sent, Waits
<1>6. ASSUME monitor # "off", NEW q \in Ports, NEW a \in Nat, Ends(q, a)
      PROVE  Ends(q, a)'
  <2>1. CASE q = p /\ plugged[q] = a
    BY <2>1, <1>0, <1>5, <1>6 DEF Ends, x, Removed, Waits
  <2>2. CASE q # p \/ plugged[q] # a
    BY <2>2, <1>2, <1>5, <1>6 DEF Ends, Removed, Waits
  <2> QED BY <2>1, <2>2
<1>7. Wire'
  <2>1. ASSUME NEW q \in Ports, NEW r \in Ports, There(q)', plugged'[q] = plugged'[r]
        PROVE  q = r
    <3>1. /\ \A s \in Ports : There(s) /\ plugged[s] = plugged[r] => s = r
          /\ There(q)' => plugged'[q] # None
      BY DEF Account, Wire, There
    <3> QED BY <1>0, <1>2, <2>1, <3>1 DEF There
  <2>2. ASSUME NEW i \in 1 .. Len(uevents'), NEW q \in Ports, NEW a \in Nat
        PROVE  /\ uevents'[i] = Removed(q, a) => a \in Addresses' /\ ~InUse(a)'
               /\ uevents'[i] = Added(q, a) =>
                    /\ a \in Addresses'
                    /\ \/ plugged'[q] = a \/ Removed(q, a) \in lost'
                       \/ \E j \in i + 1 .. Len(uevents') : uevents'[j] = Removed(q, a)
    <3>1. CASE i - k \in 1 .. Len(uevents) /\ uevents'[i] = uevents[i - k]
      <4>h. PICK h \in 1 .. Len(uevents) : h = i - k /\ uevents[h] = uevents'[i]
        BY <3>1
      <4>i. h + k = i
        BY <4>h, <1>4 DEF Sent
      <4>1. ASSUME uevents'[i] = Removed(q, a) PROVE a \in Addresses' /\ ~InUse(a)'
        <5>1. uevents[h] = Removed(q, a)
          BY <4>h, <4>1
        <5>2. a \in Addresses /\ ~InUse(a)
          BY <5>1 DEF Account, Wire
        <5> QED BY <5>2, <1>0, <1>3
      <4>2. ASSUME uevents'[i] = Added(q, a), plugged'[q] # a
            PROVE  \/ Removed(q, a) \in lost'
                   \/ \E j \in i + 1 .. Len(uevents') : uevents'[j] = Removed(q, a)
        <5>1. uevents[h] = Added(q, a)
          BY <4>h, <4>2
        <5>2. CASE plugged[q] # a
          BY <5>1, <5>2, <4>i, <1>4, QueuedAddition DEF Account
        <5>3. CASE plugged[q] = a
          <6>1. q = p /\ a = n
            BY <5>3, <4>2, <1>0, <1>2
          <6>2. monitor # "off"
            <7>1. uevents # << >>
              BY <4>h
            <7> QED BY <7>1 DEF Account, Wire
          <6>3. CASE x \in lost'
            BY <6>1, <6>3 DEF x
          <6>4. ASSUME NEW j \in 1 .. Len(uevents'), j > Len(uevents) + k, uevents'[j] = x
                PROVE  j \in i + 1 .. Len(uevents') /\ uevents'[j] = Removed(q, a)
            BY <6>1, <6>4, <4>i, <1>4 DEF x, Sent
          <6> QED BY <6>2, <6>3, <6>4, <1>4 DEF Sent
        <5> QED BY <5>2, <5>3
      <4>3. ASSUME uevents'[i] = Added(q, a) PROVE a \in Addresses'
        <5>1. uevents[h] = Added(q, a)
          BY <4>h, <4>3
        <5>2. a \in Addresses
          BY <5>1 DEF Account, Wire
        <5> QED BY <5>2, <1>0
      <4> QED BY <4>1, <4>2, <4>3
    <3>2. CASE uevents'[i] = x
      BY <1>n, <1>0, <1>3, <3>2, UeventsDiffer DEF x
    <3>3. CASE uevents'[i] = Other
      BY <3>3, UeventsDiffer
    <3> QED BY <1>4, <3>1, <3>2, <3>3 DEF Sent
  <2>3. monitor' = "off" => uevents' = << >>
    BY <1>1, <1>4 DEF Account, Wire, Sent
  <2>4. lost' \subseteq Uevents /\ uevents' \in Seq(Uevents)
    BY <1>4, <1>x DEF Account, Wire, Sent
  <2>5. ASSUME NEW q \in Ports, NEW a \in Nat, Removed(q, a) \in lost'
        PROVE  a \in Addresses' /\ ~InUse(a)'
    <3>1. CASE Removed(q, a) \in lost
      <4>1. a \in Addresses /\ ~InUse(a)
        BY <3>1 DEF Account, Wire
      <4> QED BY <4>1, <1>0, <1>3
    <3>2. CASE Removed(q, a) = x
      BY <3>2, <1>n, <1>0, <1>3, UeventsDiffer DEF x
    <3> QED BY <2>5, <3>1, <3>2, <1>4 DEF Sent
  <2> QED BY <1>0, <1>1, <1>2, <2>1, <2>2, <2>3, <2>4, <2>5
          DEF Wire, There, InUse, Addresses, Removed, Added
<1>8. Todo'
  <2>1. jobs # << >> => monitor # "off"
    <3>1. jobs # << >> => ctx \notin {"exiting", "gone", "new"}
      BY DEF Core, Stages, Busy, Ending, Account, Listing
    <3> QED BY <3>1 DEF Core, Types, Account, Accounted, Active
  <2>2. ASSUME monitor # "off", NEW j \in Jobs, Sound(j) PROVE Sound(j)'
    <3>1. j.port \in Ports /\ j.address \in Nat \cup {None}
      BY DEF Jobs
    <3>2. Found(j.address)' = Found(j.address)
      BY <1>1 DEF Found
    <3> QED BY <2>2, <3>1, <3>2, <1>6 DEF Sound
  <2> QED BY <1>1, <2>1, <2>2 DEF Account, Todo, Job
<1>9. Listing'
  <2>1. \A d \in attached : d \in Devs /\ session[d] \in Addresses
    BY DEF Account, Listing
  <2>2. session \in [Devs -> Addresses' \cup {None}]
    BY <1>0 DEF Account, Listing
  <2>3. leave = "found" => leaving \in attached
    BY DEF Core, Lock, Account, Listing
  <2>4. \A q, a : Added(q, a) \in lost <=> Added(q, a) \in lost'
    BY <1>4, UeventsDiffer DEF Sent, x
  <2>5. (\A d \in usb_devs : Added(port[d], session[d]) \in lost => d = leaving)'
    BY <1>1, <2>4 DEF Account, Listing, Added
  <2>6. (leave = "found" => \/ ~InUse(session[leaving])
                             \/ Added(port[leaving], session[leaving]) \in lost)'
    BY <1>1, <1>3, <2>1, <2>3, <2>4 DEF Account, Listing, InUse, Added
  <2> QED BY <1>1, <2>1, <2>2, <2>5, <2>6 DEF Account, Listing, Ending
<1>10. Accounted'
  <2> SUFFICES ASSUME Active
               PROVE  /\ monitor # "off"
                      /\ \A d \in usb_devs : d = leaving \/ Ends(port[d], session[d])'
                      /\ \A q \in Ports : There(q)' =>
                           \/ ctx = "active" \/ q \in scan \/ Waits(Added(q, plugged[q]))'
                           \/ Due(q)' \/ Has(q)'
    BY <1>1 DEF Accounted, Active
  <2>1. monitor # "off"
    BY DEF Account, Accounted
  <2>2. ASSUME NEW d \in usb_devs, d # leaving PROVE Ends(port[d], session[d])'
    <3>1. Ends(port[d], session[d]) /\ port[d] \in Ports /\ session[d] \in Addresses
      BY <2>2 DEF Account, Accounted, Listing
    <3>2. PICK q \in Ports, a \in Nat : q = port[d] /\ a = session[d]
      BY <3>1, <1>0
    <3>3. Ends(q, a)'
      BY <2>1, <3>1, <3>2, <1>6
    <3>4. Ends(q, a)' <=> Ends(port[d], session[d])'
      BY <3>2, <1>1 DEF Ends, Waits, Removed
    <3> QED BY <3>3, <3>4
  <2>3. ASSUME NEW q \in Ports, There(q)'
        PROVE  \/ ctx = "active" \/ q \in scan \/ Waits(Added(q, plugged[q]))'
               \/ Due(q)' \/ Has(q)'
    <3>1. plugged'[q] = plugged[q] /\ There(q)
      BY <1>2, <2>3 DEF There
    <3>2. ctx = "active" \/ q \in scan \/ Waits(Added(q, plugged[q])) \/ Due(q) \/ Has(q)
      BY <3>1 DEF Account, Accounted
    <3>3. (Due(q) => Due(q)') /\ (Has(q) => Has(q)')
      BY <1>1, <3>1 DEF Due, Has
    <3>4. Waits(Added(q, plugged[q])) => Waits(Added(q, plugged[q]))'
      BY <3>1, <1>5 DEF Waits, Added
    <3> QED BY <3>2, <3>3, <3>4
  <2> QED BY <2>1, <2>2, <2>3
<1> QED BY <1>7, <1>8, <1>9, <1>10 DEF Account

(* The first uevent is taken from the socket: the others go on waiting in  *)
(* their order, and what was to be added goes away no more unnoticed.      *)
LEMMA HeadRead ==
  ASSUME Wire, uevents # <<>>, uevents' = Tail(uevents), UNCHANGED <<plugged, plugs, lost>>,
         monitor' # "off"
  PROVE  /\ Wire'
         /\ Head(uevents) \in Uevents
         /\ \A m : Waits(m) => m = Head(uevents) \/ Waits(m)'
         /\ \A m : Waits(m)' => Waits(m)
         /\ \A p \in Ports, a \in Nat : Head(uevents) = Removed(p, a) => ~InUse(a)
         /\ \A p \in Ports, a \in Nat : Head(uevents) = Added(p, a) => Ends(p, a)'
<1> DEFINE n == Len(uevents)
<1>1. /\ uevents \in Seq(Uevents) /\ uevents' \in Seq(Uevents) /\ n \in Nat
      /\ Len(uevents') = n - 1 /\ n # 0
      /\ Head(uevents) = uevents[1] /\ Head(uevents) \in Uevents
      /\ \A i \in 1 .. Len(uevents') : uevents'[i] = uevents[i + 1]
  BY DEF Wire
<1>2. \A i \in 1 .. Len(uevents') : i + 1 \in 1 .. n
  BY <1>1
<1>3. \A i \in 1 .. n : i # 1 => i - 1 \in 1 .. Len(uevents') /\ uevents'[i - 1] = uevents[i]
  <2> SUFFICES ASSUME NEW i \in 1 .. n, i # 1
               PROVE  i - 1 \in 1 .. Len(uevents') /\ uevents'[i - 1] = uevents[i]
    OBVIOUS
  <2>1. i - 1 \in 1 .. Len(uevents') /\ i - 1 + 1 = i
    BY <1>1
  <2> QED BY <1>1, <2>1
<1>4. 1 \in 1 .. n
  BY <1>1
<1>5. /\ \A m : Waits(m) => m = Head(uevents) \/ Waits(m)'
      /\ \A m : Waits(m)' => Waits(m)
  <2>1. ASSUME NEW m, Waits(m), m # Head(uevents) PROVE Waits(m)'
    <3>1. CASE m \in lost
      BY <3>1 DEF Waits
    <3>2. ASSUME NEW i \in 1 .. n, uevents[i] = m PROVE Waits(m)'
      <4>1. i # 1
        BY <3>2, <2>1, <1>1
      <4> QED BY <3>2, <4>1, <1>3 DEF Waits
    <3> QED BY <2>1, <3>1, <3>2 DEF Waits
  <2>2. ASSUME NEW m, Waits(m)' PROVE Waits(m)
    <3>1. CASE m \in lost
      BY <3>1 DEF Waits
    <3>2. ASSUME NEW i \in 1 .. Len(uevents'), uevents'[i] = m PROVE Waits(m)
      <4>1. i + 1 \in 1 .. n /\ uevents[i + 1] = m
        BY <3>2, <1>1, <1>2
      <4> QED BY <4>1 DEF Waits
    <3> QED BY <2>2, <3>1, <3>2 DEF Waits
  <2> QED BY <2>1, <2>2
<1>6. ASSUME NEW i \in 1 .. n, NEW p \in Ports, NEW a \in Nat, uevents[i] = Added(p, a),
             plugged[p] # a, Removed(p, a) \notin lost
      PROVE  \E j \in i .. Len(uevents') : uevents'[j] = Removed(p, a)
  <2>1. PICK j \in i + 1 .. n : uevents[j] = Removed(p, a)
    BY <1>6 DEF Wire
  <2>2. j \in 1 .. n /\ j # 1 /\ j - 1 \in i .. Len(uevents')
    BY <1>1, <2>1
  <2> QED BY <2>1, <2>2, <1>3
<1>7. ASSUME NEW p \in Ports, NEW a \in Nat, Head(uevents) = Removed(p, a) PROVE ~InUse(a)
  BY <1>1, <1>4, <1>7 DEF Wire
<1>8. ASSUME NEW p \in Ports, NEW a \in Nat, Head(uevents) = Added(p, a) PROVE Ends(p, a)'
  <2>1. CASE plugged[p] = a
    BY <2>1 DEF Ends
  <2>2. CASE Removed(p, a) \in lost
    BY <2>2 DEF Ends, Waits, Removed
  <2>3. CASE plugged[p] # a /\ Removed(p, a) \notin lost
    <3>1. PICK j \in 1 .. Len(uevents') : uevents'[j] = Removed(p, a)
      BY <1>1, <1>4, <1>6, <1>8, <2>3
    <3> QED BY <3>1 DEF Ends, Waits, Removed
  <2> QED BY <2>1, <2>2, <2>3
<1>9. Wire'
  <2>1. ASSUME NEW i \in 1 .. Len(uevents'), NEW p \in Ports, NEW a \in Nat
        PROVE  /\ uevents'[i] = Removed(p, a) => a \in Addresses /\ ~InUse(a)
               /\ uevents'[i] = Added(p, a) =>
                    /\ a \in Addresses
                    /\ \/ plugged[p] = a \/ Removed(p, a) \in lost
                       \/ \E j \in i + 1 .. Len(uevents') : uevents'[j] = Removed(p, a)
    <3>1. i + 1 \in 1 .. n /\ uevents'[i] = uevents[i + 1]
      BY <1>1, <1>2
    <3>2. uevents'[i] = Removed(p, a) => a \in Addresses /\ ~InUse(a)
      BY <3>1 DEF Wire
    <3>3. uevents'[i] = Added(p, a) => a \in Addresses
      BY <3>1 DEF Wire
    <3>4. ASSUME uevents'[i] = Added(p, a), plugged[p] # a, Removed(p, a) \notin lost
          PROVE  \E j \in i + 1 .. Len(uevents') : uevents'[j] = Removed(p, a)
      BY <3>1, <3>4, <1>6
    <3> QED BY <3>2, <3>3, <3>4
  <2>2. /\ plugs' \in Nat /\ plugged' \in [Ports -> Addresses' \cup {None}]
        /\ \A p, q \in Ports : There(p)' /\ plugged'[p] = plugged'[q] => p = q
    BY DEF Wire, There, Addresses
  <2>3. \A i \in 1 .. Len(uevents'), p \in Ports, a \in Nat :
           /\ uevents'[i] = Removed(p, a)' => a \in Addresses' /\ ~InUse(a)'
           /\ uevents'[i] = Added(p, a)' =>
                /\ a \in Addresses'
                /\ \/ plugged'[p] = a \/ Removed(p, a)' \in lost'
                   \/ \E j \in i + 1 .. Len(uevents') : uevents'[j] = Removed(p, a)'
    <3>1. Addresses' = Addresses /\ \A a : InUse(a)' <=> InUse(a)
      BY DEF Addresses, InUse
    <3>2. \A p, a : Removed(p, a)' = Removed(p, a) /\ Added(p, a)' = Added(p, a)
      BY DEF Removed, Added
    <3> QED BY <2>1, <3>1, <3>2
  <2>4. /\ lost' \subseteq Uevents
        /\ \A p \in Ports, a \in Nat :
             Removed(p, a)' \in lost' => a \in Addresses' /\ ~InUse(a)'
    BY DEF Wire, InUse, Addresses, Removed
  <2> QED BY <1>1, <2>2, <2>3, <2>4 DEF Wire
<1> QED BY <1>1, <1>5, <1>7, <1>8, <1>9

(* linux_netlink_read_message: what was to be added is to be enumerated,   *)
(* and what was removed is taken off the list if it is on it.              *)
LEMMA ReadAccount ==
  ASSUME Core, Account, ~Busy, uevents # <<>>, monitor' # "off", ReadMessage,
         UNCHANGED <<plugged, plugs, lost, ctx, scan, usb_devs, attached, session, port>>
  PROVE  Account'
<1>1. /\ jobs = <<>> /\ leaving = None /\ leave = "none" /\ usb_devs \subseteq Devs
      /\ uevents' = Tail(uevents) /\ None \notin Devs /\ None \notin Nat
  BY NoneAssumption DEF Busy, Core, Types, Lock, ReadMessage
<1>2. /\ Wire' /\ Head(uevents) \in Uevents
      /\ \A m : Waits(m) => m = Head(uevents) \/ Waits(m)'
      /\ \A p \in Ports, a \in Nat : Head(uevents) = Removed(p, a) => ~InUse(a)
      /\ \A p \in Ports, a \in Nat : Head(uevents) = Added(p, a) => Ends(p, a)'
  BY <1>1, HeadRead DEF Account
<1>3. /\ \A p, a : Waits(Removed(p, a)) => Removed(p, a) = Head(uevents) \/ Waits(Removed(p, a))'
      /\ \A p, a : Waits(Added(p, a)) => Added(p, a) = Head(uevents) \/ Waits(Added(p, a))'
  BY <1>2 DEF Removed, Added, Waits
<1>4. \A d \in usb_devs : /\ session[d] \in Addresses /\ session[d] \in Nat /\ port[d] \in Ports
                          /\ Active => Ends(port[d], session[d])
  BY <1>1 DEF Account, Wire, Listing, Accounted, Addresses
<1>5. ASSUME leave' = "none" \/ (leave' = "found" /\ leaving' \in usb_devs
                                  /\ ~InUse(session[leaving']))
      PROVE  Listing'
  <2>1. ctx = "new" => FALSE
    BY DEF Core, Stages, Account, Wire
  <2>2. /\ Addresses' = Addresses /\ \A a : InUse(a)' <=> InUse(a)
    BY DEF Addresses, InUse
  <2>3. \A d \in usb_devs : d \in Devs /\ Added(port[d], session[d]) \notin lost
    BY <1>1 DEF Account, Listing
  <2>4. (\A d \in usb_devs : Added(port[d], session[d]) \in lost => d = leaving)'
    BY <2>3 DEF Added
  <2> QED BY <1>5, <2>1, <2>2, <2>4 DEF Account, Listing, Ending
<1>6. CASE \E p \in Ports, a \in Nat : Head(uevents) = Added(p, a)
  <2>0. PICK p \in Ports, a \in Nat : Head(uevents) = Added(p, a)
    BY <1>6
  <2>1. /\ UNCHANGED <<leaving, leave>>
        /\ jobs' = IF Active THEN <<Job(p, a)>> ELSE jobs
    BY <2>0, UeventsDiffer DEF ReadMessage
  <2>2. \A q, b : Waits(Removed(q, b)) => Waits(Removed(q, b))'
    BY <2>0, <1>3, UeventsDiffer
  <2>3. Todo'
    <3>1. CASE Active
      <4>1. Job(p, a) \in Jobs /\ jobs' = <<Job(p, a)>> /\ Ends(p, a)'
        BY <2>0, <2>1, <1>2, <3>1, JobIs
      <4>2. Sound(Job(p, a))'
        BY <4>1, JobIs DEF Sound, Ends, Job
      <4> QED BY <4>1, <4>2 DEF Todo
    <3>2. CASE ~Active
      BY <1>1, <2>1, <3>2 DEF Todo
    <3> QED BY <3>1, <3>2
  <2>4. Listing'
    BY <1>1, <1>5, <2>1
  <2>5. ASSUME Active
        PROVE  /\ monitor' # "off"
               /\ \A d \in usb_devs : d = leaving' \/ Ends(port[d], session[d])'
               /\ \A q \in Ports : There(q) =>
                    \/ ctx = "active" \/ q \in scan \/ Waits(Added(q, plugged[q]))'
                    \/ Due(q)' \/ Has(q)'
    <3>1. ASSUME NEW d \in usb_devs PROVE Ends(port[d], session[d])'
      BY <1>4, <2>2, <2>5 DEF Ends, Waits, Removed
    <3>2. ASSUME NEW q \in Ports, There(q)
          PROVE  \/ ctx = "active" \/ q \in scan \/ Waits(Added(q, plugged[q]))'
                 \/ Due(q)' \/ Has(q)'
      <4>1. ctx = "active" \/ q \in scan \/ Waits(Added(q, plugged[q])) \/ Due(q) \/ Has(q)
        BY <2>5, <3>2 DEF Account, Accounted
      <4>2. ~Due(q) /\ (Has(q) => Has(q)')
        BY <1>1, NoJob DEF Has
      <4>3. CASE Waits(Added(q, plugged[q]))
        <5>1. CASE Added(q, plugged[q]) = Head(uevents)
          <6>1. p = q /\ a = plugged[q]
            BY <5>1, <2>0, UeventsDiffer
          <6>2. jobs' = <<Job(p, a)>> /\ Job(p, a).port = p /\ Job(p, a).address = a
            BY <2>1, <2>5, JobIs
          <6> QED BY <6>1, <6>2, DueNext
        <5>2. CASE Waits(Added(q, plugged[q]))'
          BY <5>2
        <5> QED BY <5>1, <5>2, <4>3, <1>3 DEF Waits, Added
      <4> QED BY <4>1, <4>2, <4>3
    <3> QED BY <3>1, <3>2
  <2>6. Accounted'
    BY <2>5 DEF Accounted, Active, There
  <2> QED BY <1>2, <2>3, <2>4, <2>6 DEF Account
<1>7. CASE \E p \in Ports, a \in Nat : Head(uevents) = Removed(p, a)
  <2>0. PICK p \in Ports, a \in Nat : Head(uevents) = Removed(p, a)
    BY <1>7
  <2>1. jobs' = <<>> /\ StartDisconnect(a)
    BY <1>1, <2>0, UeventsDiffer DEF ReadMessage
  <2>2. \A q, b : Waits(Added(q, b)) => Waits(Added(q, b))'
    BY <2>0, <1>3, UeventsDiffer
  <2>3. \/ leaving' = None /\ leave' = "none" /\ (Active => Found(a) = {})
        \/ /\ leaving' \in usb_devs /\ leave' = "found" /\ session[leaving'] = a
           /\ ~InUse(session[leaving'])
    BY <1>1, <1>2, <2>0, <2>1 DEF StartDisconnect, Found
  <2>4. Todo'
    BY <2>1 DEF Todo
  <2>5. Listing'
    BY <1>5, <2>3
  <2>6. ASSUME Active
        PROVE  /\ monitor' # "off"
               /\ \A d \in usb_devs : d = leaving' \/ Ends(port[d], session[d])'
               /\ \A q \in Ports : There(q) =>
                    \/ ctx = "active" \/ q \in scan \/ Waits(Added(q, plugged[q]))'
                    \/ Due(q)' \/ Has(q)'
    <3>1. ASSUME NEW d \in usb_devs, d # leaving' PROVE Ends(port[d], session[d])'
      <4>1. session[d] # a
        <5>1. \A e \in usb_devs : session[d] = session[e] => d = e
          BY DEF Account, Listing
        <5> QED BY <5>1, <2>3, <2>6, <3>1 DEF Found
      <4>2. Removed(port[d], session[d]) # Head(uevents)
        BY <2>0, <4>1, UeventsDiffer
      <4>3. Waits(Removed(port[d], session[d])) => Waits(Removed(port[d], session[d]))'
        BY <1>3, <4>2 DEF Waits, Removed
      <4> QED BY <4>3, <1>4, <2>6 DEF Ends
    <3>2. ASSUME NEW q \in Ports, There(q)
          PROVE  \/ ctx = "active" \/ q \in scan \/ Waits(Added(q, plugged[q]))'
                 \/ Due(q)' \/ Has(q)'
      <4>1. ctx = "active" \/ q \in scan \/ Waits(Added(q, plugged[q])) \/ Due(q) \/ Has(q)
        BY <2>6, <3>2 DEF Account, Accounted
      <4>2. ~Due(q) /\ (Has(q) => Has(q)')
        BY <1>1, NoJob DEF Has
      <4>3. Waits(Added(q, plugged[q])) => Waits(Added(q, plugged[q]))'
        BY <2>2 DEF Waits, Added
      <4> QED BY <4>1, <4>2, <4>3
    <3> QED BY <3>1, <3>2
  <2>7. Accounted'
    BY <2>6 DEF Accounted, Active, There
  <2> QED BY <1>2, <2>4, <2>5, <2>7 DEF Account
<1>8. CASE Head(uevents) = Other
  <2>1. UNCHANGED <<jobs, leaving, leave>>
    BY <1>8 DEF ReadMessage, Other
  <2>2. /\ \A p, a : Waits(Removed(p, a)) => Waits(Removed(p, a))'
        /\ \A p, a : Waits(Added(p, a)) => Waits(Added(p, a))'
    BY <1>3, <1>8, UeventsDiffer
  <2>3. Todo'
    BY <1>1, <2>1 DEF Todo
  <2>4. Listing'
    BY <1>1, <1>5, <2>1
  <2>5. Accounted'
    <3>1. \A q, b : Ends(q, b) => Ends(q, b)'
      BY <2>2 DEF Ends
    <3>2. \A d \in usb_devs : Ends(port[d], session[d])' <=>
             (plugged[port[d]] = session[d] \/ Waits(Removed(port[d], session[d]))')
      BY DEF Ends
    <3>3. \A q : (There(q)' <=> There(q)) /\ (Due(q) => Due(q)') /\ (Has(q) => Has(q)')
      BY <2>1 DEF There, Due, Has
    <3>4. \A d \in usb_devs : Waits(Removed(port[d], session[d])) => Waits(Removed(port[d], session[d]))'
      BY <2>2 DEF Waits, Removed
    <3>5. \A q \in Ports : Waits(Added(q, plugged[q])) => Waits(Added(q, plugged[q]))'
      BY <2>2 DEF Waits, Added
    <3> QED BY <2>1, <3>2, <3>3, <3>4, <3>5 DEF Account, Accounted, Active, Ends
  <2> QED BY <1>2, <2>3, <2>4, <2>5 DEF Account
<1> QED BY <1>2, <1>6, <1>7, <1>8, UeventIs

(* The monitor thread and hotplug_poll read that way.                      *)
LEMMA MonitorReadsAccount ==
  ASSUME Core, Account, MonitorReads
  PROVE  Account'
<1>1. /\ ~Busy /\ uevents # << >> /\ ReadMessage /\ monitor' # "off"
  BY DEF MonitorReads, Core, Lock
<1>2. UNCHANGED <<plugged, plugs, lost, ctx, scan, usb_devs, attached, session, port>>
  BY DEF MonitorReads, context, devices
<1> QED BY <1>1, <1>2, ReadAccount

LEMMA PollReadsAccount ==
  ASSUME Core, Account, NEW t \in Threads, PollReads(t)
  PROVE  Account'
<1>1. /\ ~Busy /\ uevents # << >> /\ ReadMessage /\ monitor' = monitor
  BY DEF PollReads, Free
<1>2. UNCHANGED <<plugged, plugs, lost, ctx, scan, usb_devs, attached, session, port>>
  BY DEF PollReads, context, devices
<1>3. monitor # "off"
  BY <1>1 DEF Account, Wire
<1> QED BY <1>1, <1>2, <1>3, ReadAccount

(* Its loop ends with no uevent, or with one that is not about a device.   *)
LEMMA PollEndsAccount ==
  ASSUME Core, Account, NEW t \in Threads, PollEnds(t)
  PROVE  Account'
<1>1. UNCHANGED <<plugged, plugs, lost, jobs, leaving, leave, monitor, ctx, scan, usb_devs,
                  attached, session, port>>
  BY DEF PollEnds, work, context, devices
<1>3. CASE uevents = <<>> /\ uevents' = uevents
  BY <1>1, <1>3, AccountAlone
<1>4. CASE uevents # <<>> /\ Ignored /\ uevents' = Tail(uevents)
  <2>1. monitor # "off" /\ monitor' # "off"
    BY <1>1, <1>4 DEF Account, Wire
  <2>2. /\ Wire' /\ Head(uevents) \in Uevents
        /\ \A m : Waits(m) => m = Head(uevents) \/ Waits(m)'
    BY <1>1, <1>4, <2>1, HeadRead DEF Account
  <2>3. \A p, a : Head(uevents) # Removed(p, a) /\ Head(uevents) # Added(p, a)
    BY <1>4, UeventsDiffer DEF Ignored
  <2>4. /\ \A p, a : Waits(Removed(p, a)) => Waits(Removed(p, a))'
        /\ \A p, a : Waits(Added(p, a)) => Waits(Added(p, a))'
    BY <2>2, <2>3 DEF Waits, Removed, Added
  <2>5. /\ \A p, a : Ends(p, a) => Ends(p, a)'
        /\ \A a : Found(a)' = Found(a)
    BY <1>1, <2>4 DEF Ends, Found
  <2>6. \A j : Sound(j) => Sound(j)'
    BY <2>5 DEF Sound
  <2>7. Todo'
    BY <1>1, <2>6 DEF Account, Todo, Job
  <2>8. Listing'
    <3>1. /\ Addresses' = Addresses /\ \A a : InUse(a)' <=> InUse(a)
      BY <1>1 DEF Addresses, InUse
    <3> QED BY <1>1, <3>1 DEF Account, Listing, Added, Ending
  <2>9. Accounted'
    <3>2. \A d \in usb_devs : Ends(port[d], session[d])' <=>
             (plugged[port[d]] = session[d] \/ Waits(Removed(port[d], session[d]))')
      BY <1>1 DEF Ends
    <3>3. \A q : (There(q)' <=> There(q)) /\ (Due(q) => Due(q)') /\ (Has(q) => Has(q)')
      BY <1>1 DEF There, Due, Has
    <3>4. \A d \in usb_devs : Waits(Removed(port[d], session[d])) => Waits(Removed(port[d], session[d]))'
      BY <1>1, <2>4 DEF Waits, Removed
    <3>5. \A q \in Ports : Waits(Added(q, plugged[q])) => Waits(Added(q, plugged[q]))'
      BY <1>1, <2>4 DEF Waits, Added
    <3> QED BY <1>1, <3>2, <3>3, <3>4, <3>5 DEF Account, Accounted, Active, Ends
  <2> QED BY <2>2, <2>7, <2>8, <2>9 DEF Account
<1> QED BY <1>3, <1>4 DEF PollEnds

(* The jobs that remain cover the same ports, but for one that is missed,  *)
(* and nothing else changes.                                               *)
LEMMA JobsAccount ==
  ASSUME Account, Todo', ctx # "new",
         lost' = lost \/ \E p \in Ports, a \in Nat : Found(a) = {} /\ Misses(p, a),
         \A p \in Ports : There(p) /\ Due(p) => Due(p)' \/ Has(p) \/ Added(p, plugged[p]) \in lost',
         UNCHANGED <<plugged, uevents, plugs, leaving, leave, monitor, ctx, scan, usb_devs,
                     attached, session, port>>
  PROVE  Account'
<1>1. /\ Wire' /\ lost \subseteq lost'
      /\ \A q, b : Ends(q, b)' <=> Ends(q, b)
      /\ \A m : Waits(m) => Waits(m)'
      /\ \A d \in usb_devs :
           Added(port[d], session[d]) \in lost' => Added(port[d], session[d]) \in lost
  <2>1. CASE lost' = lost
    BY <2>1, WireAlone DEF Account, Ends, Waits, Removed
  <2>2. ASSUME NEW p \in Ports, NEW a \in Nat, Found(a) = {}, Misses(p, a)
        PROVE  /\ Wire' /\ lost \subseteq lost'
               /\ \A q, b : Ends(q, b)' <=> Ends(q, b)
               /\ \A m : Waits(m) => Waits(m)'
               /\ \A d \in usb_devs :
                    Added(port[d], session[d]) \in lost' => Added(port[d], session[d]) \in lost
    <3>1. /\ Wire' /\ \A q, b : Ends(q, b)' <=> Ends(q, b)
          /\ lost \subseteq lost' /\ lost' \subseteq lost \cup {Added(p, a)}
          /\ \A m : Waits(m) => Waits(m)'
      BY <2>2, MissesIs DEF Account
    <3>2. \A d \in usb_devs : session[d] # a
      BY <2>2 DEF Found
    <3>3. \A d \in usb_devs : Added(port[d], session[d]) # Added(p, a)
      BY <3>2, UeventsDiffer
    <3> QED BY <3>1, <3>3
  <2> QED BY <2>1, <2>2
<1>2. Listing'
  <2>1. /\ Addresses' = Addresses /\ \A a : InUse(a)' <=> InUse(a)
        /\ \A d : Added(port[d], session[d])' = Added(port[d], session[d])
    BY DEF Addresses, InUse, Added
  <2> QED BY <1>1, <2>1 DEF Account, Listing, Ending
<1>3. ASSUME Active
      PROVE  /\ monitor # "off"
             /\ \A d \in usb_devs : d = leaving \/ Ends(port[d], session[d])
             /\ \A q \in Ports : There(q) =>
                  \/ ctx = "active" \/ q \in scan \/ Waits(Added(q, plugged[q]))
                  \/ Due(q)' \/ Has(q) \/ Added(q, plugged[q]) \in lost'
  BY <1>3 DEF Account, Accounted
<1>4. Accounted'
  <2>1. /\ \A q : (There(q)' <=> There(q)) /\ (Has(q)' <=> Has(q))
        /\ \A q : Added(q, plugged[q])' = Added(q, plugged[q])
        /\ \A d : Ends(port[d], session[d])' <=> Ends(port[d], session[d])
    BY <1>1 DEF There, Has, Added, Ends, Waits, Removed
  <2>2. \A q : \/ Waits(Added(q, plugged[q])) \/ Added(q, plugged[q]) \in lost'
               => Waits(Added(q, plugged[q]))'
    BY <1>1, <2>1 DEF Waits
  <2> QED BY <1>3, <2>1, <2>2 DEF Accounted, Active
<1> QED BY <1>1, <1>2, <1>4 DEF Account

(* The list is known while there is a job: nothing else is under way.      *)
LEMMA JobsAlone ==
  ASSUME Core, Account, jobs # <<>>
  PROVE  /\ leaving = None /\ leave = "none" /\ Active /\ ctx # "new"
         /\ \A d \in usb_devs : Ends(port[d], session[d]) /\ session[d] \in Nat
                                /\ port[d] \in Ports /\ d \in Devs /\ d \in alive
<1>1. leaving = None /\ leave = "none"
  BY DEF Core, Lock
<1>2. ctx \notin {"exiting", "gone", "new"}
  BY DEF Core, Stages, Busy, Ending, Account, Listing
<1>3. Active
  BY <1>2 DEF Core, Types, Active
<1>4. \A d \in usb_devs : d \in Devs /\ d # None /\ d \in alive
  BY NoneAssumption, InitialIsAlive DEF Core, Types, Initial
<1>5. Addresses \subseteq Nat
  BY DEF Addresses, Account, Wire
<1> QED BY <1>1, <1>2, <1>3, <1>4, <1>5 DEF Account, Accounted, Listing

(* What is known of a job that is about to be done.                        *)
LEMMA HeadJob ==
  ASSUME Core, Account, jobs # <<>>, Head(jobs).initialised \/ Unknown
  PROVE  /\ Head(jobs) \in Jobs /\ Head(jobs).port \in Ports
         /\ JobAddress \in Addresses /\ JobAddress \in Nat /\ JobAddress # None
         /\ Ends(Head(jobs).port, JobAddress) /\ Found(JobAddress) = {}
         /\ Head(jobs).address = None => plugged[Head(jobs).port] = JobAddress
         /\ Head(jobs).address # None => Head(jobs).address = JobAddress
<1> DEFINE k == Head(jobs)
<1>1. k \in Jobs /\ Sound(k)
  <2>1. CASE \E j \in Jobs : jobs = <<j>> /\ Sound(j)
    BY <2>1, OneJob
  <2>2. CASE \E j \in Jobs : /\ jobs = <<Job(Parent[j.port], None), j>> /\ Sound(j)
                             /\ j.initialised /\ Parent[j.port] # None
    <3>1. PICK j \in Jobs : /\ jobs = <<Job(Parent[j.port], None), j>> /\ Parent[j.port] # None
      BY <2>2
    <3>2. k = Job(Parent[j.port], None)
      BY <3>1, TwoJobs
    <3>3. Parent[j.port] \in Ports
      BY <3>1, ParentAssumption DEF Jobs
    <3>4. k \in Jobs /\ k.address = None /\ ~k.initialised
      <4>1. PICK p \in Ports, a \in Nat \cup {None} : p = Parent[j.port] /\ a = None
        BY <3>3
      <4>2. k = Job(p, a)
        BY <3>2, <4>1
      <4> QED BY <4>1, <4>2, JobIs
    <3> QED BY <3>4 DEF Sound
  <2> QED BY <2>1, <2>2 DEF Account, Todo
<1>2. k.port \in Ports /\ k.address \in Nat \cup {None}
  BY <1>1 DEF Jobs
<1>3. None \notin Nat /\ Addresses \subseteq Nat
  BY NoneAssumption DEF Addresses, Account, Wire
<1>4. CASE k.address = None
  <2>1. There(k.port) /\ Found(JobAddress) = {} /\ JobAddress = plugged[k.port]
    BY <1>1, <1>4 DEF Sound, Unknown, JobAddress
  <2>2. plugged[k.port] \in Addresses
    BY <2>1, <1>2 DEF There, Account, Wire
  <2> QED BY <1>1, <1>2, <1>3, <1>4, <2>1, <2>2 DEF Ends
<1>5. CASE k.address # None
  <2>1. JobAddress = k.address /\ Ends(k.port, k.address) /\ k.address \in Nat
    BY <1>1, <1>2, <1>5 DEF Sound, JobAddress
  <2>2. k.address \in Addresses
    BY <1>2, <2>1, EndsIsAddress DEF Account
  <2>3. Found(JobAddress) = {}
    BY <1>1, <2>1 DEF Sound, Unknown
  <2> QED BY <1>1, <1>2, <1>3, <1>5, <2>1, <2>2, <2>3
<1> QED BY <1>4, <1>5

(* A job whose device is listed already is at the port of that device, and *)
(* one whose device cannot be read is missed.                              *)
LEMMA EnumerateEndsAccount ==
  ASSUME Core, Account, NEW h, EnumerateSkips(h) \/ EnumerateFails(h)
  PROVE  Account'
<1>0. /\ jobs # <<>> /\ ~Head(jobs).initialised /\ jobs' = Tail(jobs)
      /\ UNCHANGED <<plugged, uevents, plugs, leaving, leave, monitor, ctx, scan, usb_devs,
                     attached, session, port>>
  BY DEF EnumerateSkips, EnumerateFails, kernel, context, devices
<1>1. /\ \/ /\ ~There(Head(jobs).port) \/ Found(JobAddress) # {}
            /\ lost' = lost
         \/ Unknown /\ Misses(Head(jobs).port, JobAddress)
      /\ jobs # <<>> /\ jobs' = Tail(jobs)
  BY DEF EnumerateSkips, EnumerateFails, kernel
<1>2. /\ ctx # "new"
      /\ \A d \in usb_devs : Ends(port[d], session[d]) /\ port[d] \in Ports
  BY <1>1, JobsAlone
<1>a. lost' = lost \/ \E p \in Ports, a \in Nat : Found(a) = {} /\ Misses(p, a)
  <2>1. ASSUME Unknown, Misses(Head(jobs).port, JobAddress)
        PROVE  \E p \in Ports, a \in Nat : Found(a) = {} /\ Misses(p, a)
    BY <1>1, <2>1, HeadJob
  <2> QED BY <1>1, <2>1
<1>3. ASSUME NEW p \in Ports, There(p), p = Head(jobs).port,
             Head(jobs).address \in {None, plugged[p]}
      PROVE  Has(p) \/ Added(p, plugged[p]) \in lost'
  <2>0. JobAddress = plugged[p]
    BY <1>3 DEF JobAddress
  <2>1. CASE Found(JobAddress) # {}
    <3>1. PICK d \in usb_devs : session[d] = plugged[p]
      BY <2>0, <2>1 DEF Found
    <3>2. port[d] = p
      BY <1>2, <1>3, <3>1, EndsOnce DEF Account
    <3> QED BY <3>1, <3>2 DEF Has
  <2>2. CASE Misses(Head(jobs).port, JobAddress)
    BY <2>0, <2>2, <1>3 DEF Misses
  <2> QED BY <1>1, <1>3, <2>1, <2>2
<1>4. \A j \in Jobs : Sound(j) => Sound(j)'
  <2>1. \A q, b : Ends(q, b)' <=> Ends(q, b)
    <3>1. CASE lost' = lost
      BY <1>0, <3>1 DEF Ends, Waits, Removed
    <3>2. CASE \E p \in Ports, a \in Nat : Misses(p, a)
      BY <1>0, <3>2, MissesIs DEF Account
    <3> QED BY <1>a, <3>1, <3>2
  <2> QED BY <1>0, <2>1 DEF Sound, Found
<1>5. CASE \E j \in Jobs : jobs = <<j>> /\ Sound(j)
  <2>1. PICK j \in Jobs : jobs = <<j>>
    BY <1>5
  <2>2. /\ jobs' = <<>> /\ Head(jobs) = j
        /\ \A p : Due(p) <=> j.port = p /\ j.address \in {None, plugged[p]}
    BY <1>1, <2>1, OneJob
  <2>3. Todo'
    BY <2>2 DEF Todo
  <2>4. \A p \in Ports : There(p) /\ Due(p) => Has(p) \/ Added(p, plugged[p]) \in lost'
    BY <2>2, <1>3
  <2> QED BY <1>0, <1>2, <1>a, <2>3, <2>4, JobsAccount
<1>6. CASE \E j \in Jobs : /\ jobs = <<Job(Parent[j.port], None), j>> /\ Sound(j)
                           /\ j.initialised /\ Parent[j.port] # None
  <2>1. PICK j \in Jobs : jobs = <<Job(Parent[j.port], None), j>> /\ Sound(j)
    BY <1>6
  <2> DEFINE k == Job(Parent[j.port], None)
  <2> HIDE DEF k
  <2>0. jobs = <<k, j>>
    BY <2>1 DEF k
  <2>2. /\ jobs' = <<j>> /\ Head(jobs) = k
        /\ \A p : Due(p) <=> \/ k.port = p /\ k.address \in {None, plugged[p]}
                             \/ j.port = p /\ j.address \in {None, plugged[p]}
    BY <1>1, <2>0, TwoJobs
  <2>3. \A p : Due(p)' <=> j.port = p /\ j.address \in {None, plugged[p]}
    BY <1>0, <2>2, DueNext
  <2>4. Todo'
    BY <2>1, <2>2, <1>4 DEF Todo
  <2>5. \A p \in Ports : There(p) /\ Due(p) =>
          Due(p)' \/ Has(p) \/ Added(p, plugged[p]) \in lost'
    BY <2>2, <2>3, <1>0, <1>3
  <2> QED BY <1>0, <1>2, <1>a, <2>4, <2>5, JobsAccount
<1> QED BY <1>1, <1>5, <1>6 DEF Account, Todo

(* The hub of a port is put before it; a hub has none.                     *)
LEMMA EnumerateParentAccount ==
  ASSUME Core, Account, NEW h, EnumerateParent(h)
  PROVE  Account'
<1>0. /\ jobs # <<>> /\ Unknown
      /\ UNCHANGED <<plugged, uevents, plugs, lost, leaving, leave, monitor, ctx, scan, usb_devs,
                     attached, session, port>>
  BY DEF EnumerateParent, kernel, context, devices
<1>1. PICK k \in Jobs, a \in Nat : k = Head(jobs) /\ a = JobAddress
  BY <1>0, HeadJob
<1>2. PICK j : j = [port |-> k.port, address |-> a, initialised |-> TRUE]
  OBVIOUS
<1>3. ~k.initialised /\ Parent[k.port] # None
  BY <1>1 DEF EnumerateParent
<1>4. jobs' = <<Job(Parent[k.port], None), j>> \o Tail(jobs)
  BY <1>1, <1>2 DEF EnumerateParent
<1>5. /\ k.port \in Ports /\ a # None /\ Ends(k.port, a) /\ Found(a) = {}
      /\ k.address = None => plugged[k.port] = a
      /\ k.address # None => k.address = a
  BY <1>0, <1>1, HeadJob
<1>6. jobs = <<k>>
  <2>1. CASE \E i \in Jobs : jobs = <<i>> /\ Sound(i)
    BY <1>1, <2>1, OneJob
  <2>2. CASE \E i \in Jobs : /\ jobs = <<Job(Parent[i.port], None), i>> /\ Sound(i)
                             /\ i.initialised /\ Parent[i.port] # None
    <3>1. PICK i \in Jobs : jobs = <<Job(Parent[i.port], None), i>> /\ Parent[i.port] # None
      BY <2>2
    <3>2. i.port \in Ports /\ Parent[i.port] \in Ports
      BY <3>1, ParentAssumption DEF Jobs
    <3>3. k = Job(Parent[i.port], None)
      BY <1>1, <3>1, TwoJobs
    <3>4. k.port = Parent[i.port]
      <4>1. PICK r \in Ports, b \in Nat \cup {None} : r = Parent[i.port] /\ b = None
        BY <3>2
      <4>2. Job(r, b).port = r
        BY JobIs
      <4> QED BY <3>3, <4>1, <4>2
    <3>5. Parent[k.port] = None
      BY <3>1, <3>2, <3>4, ParentAssumption
    <3> QED BY <3>5, <1>3
  <2> QED BY <1>0, <2>1, <2>2 DEF Account, Todo
<1>7. /\ j \in Jobs /\ j.port = k.port /\ j.address = a /\ j.initialised
  BY <1>2, <1>5 DEF Jobs
<1>8. jobs' = <<Job(Parent[j.port], None), j>>
  <2>1. Tail(jobs) = <<>>
    BY <1>6, OneJob
  <2>2. jobs' = <<Job(Parent[k.port], None), j>> \o <<>>
    BY <1>4, <2>1
  <2>3. <<Job(Parent[k.port], None), j>> \o <<>> = <<Job(Parent[k.port], None), j>>
    OBVIOUS
  <2> QED BY <2>2, <2>3, <1>7
<1>9. Sound(j)'
  <2>1. Ends(j.port, j.address)' /\ Found(j.address)' = {}
    BY <1>0, <1>5, <1>7 DEF Ends, Waits, Found, Removed
  <2> QED BY <2>1, <1>5, <1>7 DEF Sound
<1>10. Todo'
  BY <1>3, <1>7, <1>8, <1>9 DEF Todo, Job
<1>11. \A p \in Ports : Due(p) => Due(p)'
  <2>1. \A p : Due(p) <=> k.port = p /\ k.address \in {None, plugged[p]}
    BY <1>6, OneJob
  <2>2. \A p : j.port = p /\ j.address \in {None, plugged'[p]} => Due(p)'
    BY <1>8, DueNext
  <2> QED BY <2>1, <2>2, <1>0, <1>5, <1>7
<1>12. ctx # "new"
  BY <1>0, JobsAlone
<1> QED BY <1>0, <1>10, <1>11, <1>12, JobsAccount

(* A device is made for the first job: no other that is listed has its     *)
(* address, and the second job, of a port behind, is of another.           *)
LEMMA EnumerateAccount ==
  ASSUME Core, Account, NEW h, Enumerate(h)
  PROVE  Account'
<1>0. /\ jobs # <<>> /\ (Head(jobs).initialised \/ Unknown)
      /\ jobs' = Tail(jobs)
      /\ UNCHANGED <<plugged, uevents, plugs, leaving, leave, monitor, ctx, scan>>
  BY DEF Enumerate, context
<1>1. PICK p \in Ports, a \in Addresses, k \in Jobs :
        k = Head(jobs) /\ p = k.port /\ a = JobAddress
  BY <1>0, HeadJob
<1>2. /\ a \in Nat /\ a # None /\ Ends(p, a) /\ Found(a) = {}
      /\ k.address = None => plugged[p] = a
      /\ k.address # None => k.address = a
  BY <1>0, <1>1, HeadJob
<1>3. PICK d \in Devs \ alive :
        /\ attached' = attached \cup {d} /\ usb_devs' = usb_devs \cup {d}
        /\ session' = [session EXCEPT ![d] = a] /\ port' = [port EXCEPT ![d] = p]
        /\ lost' = lost \ {Added(p, a)}
  BY <1>1 DEF Enumerate
<1>4. /\ leaving = None /\ leave = "none" /\ Active /\ ctx # "new"
      /\ \A e \in usb_devs : /\ Ends(port[e], session[e]) /\ session[e] \in Nat
                             /\ port[e] \in Ports /\ e \in Devs /\ e \in alive
  BY <1>0, JobsAlone
<1>5. d \notin usb_devs
  BY <1>3, <1>4
<1>6. /\ session \in [Devs -> Addresses \cup {None}] /\ port \in [Devs -> Ports \cup {None}]
      /\ session' \in [Devs -> Addresses \cup {None}] /\ port' \in [Devs -> Ports \cup {None}]
      /\ session'[d] = a /\ port'[d] = p
      /\ \A e \in Devs : e # d => session'[e] = session[e] /\ port'[e] = port[e]
  BY <1>1, <1>3 DEF Account, Listing
<1>7. Wire' /\ \A q, b : Ends(q, b)' <=> Ends(q, b)
  <2>1. \A q, b : Removed(q, b) \in lost' <=> Removed(q, b) \in lost
    BY <1>3, UeventsDiffer
  <2>2. lost' \subseteq Uevents
    BY <1>3 DEF Account, Wire
  <2> QED BY <1>0, <2>1, <2>2, WireAdditions DEF Account
<1>8. /\ Addresses' = Addresses /\ \A b : InUse(b)' <=> InUse(b)
      /\ \A q, b : Ends(q, b)' <=> Ends(q, b)
      /\ \A q : There(q)' <=> There(q)
  BY <1>0, <1>7 DEF Addresses, InUse, There
<1>9. Listing'
  <2>1. attached' \subseteq Devs /\ \A e \in attached' : session'[e] # None /\ port'[e] # None
    BY <1>1, <1>2, <1>3, <1>6, NoneAssumption DEF Account, Listing
  <2>2. usb_devs' \subseteq attached' /\ (~Ending' => attached' \subseteq usb_devs')
    BY <1>0, <1>3 DEF Account, Listing, Ending
  <2>3. \A e, f \in usb_devs' : session'[e] = session'[f] => e = f
    <3>1. \A e \in usb_devs : session'[e] = session[e] /\ session[e] # a
      BY <1>2, <1>4, <1>5, <1>6 DEF Found
    <3>2. \A e, f \in usb_devs : session[e] = session[f] => e = f
      BY DEF Account, Listing
    <3> QED BY <3>1, <3>2, <1>3, <1>6
  <2>4. ASSUME NEW e \in usb_devs' PROVE Added(port[e], session[e])' \notin lost'
    <3>1. CASE e = d
      <4>1. Added(port[e], session[e])' = Added(p, a)
        BY <3>1, <1>6 DEF Added
      <4> QED BY <4>1, <1>3
    <3>2. CASE e # d
      <4>1. e \in usb_devs /\ session'[e] = session[e] /\ port'[e] = port[e] /\ e # leaving
        BY <3>2, <1>3, <1>4, <1>6, NoneAssumption
      <4>2. Added(port[e], session[e])' = Added(port[e], session[e])
        BY <4>1 DEF Added
      <4>3. Added(port[e], session[e]) \notin lost
        BY <4>1 DEF Account, Listing
      <4> QED BY <4>2, <4>3, <1>3
    <3> QED BY <3>1, <3>2
  <2> QED BY <2>1, <2>2, <2>3, <2>4, <1>0, <1>4, <1>6, <1>8 DEF Account, Listing
<1>10. Accounted'
  <2>1. ASSUME NEW e \in usb_devs' PROVE Ends(port[e], session[e])'
    <3>1. CASE e = d
      <4>1. Ends(p, a)'
        BY <1>2, <1>7
      <4>2. Ends(port[e], session[e])' <=> Ends(p, a)'
        BY <3>1, <1>6 DEF Ends, Waits, Removed
      <4> QED BY <4>1, <4>2
    <3>2. CASE e # d
      <4>1. e \in usb_devs /\ session'[e] = session[e] /\ port'[e] = port[e]
        BY <3>2, <1>3, <1>4, <1>6
      <4>2. Ends(port[e], session[e])
        BY <4>1, <1>4
      <4>3. PICK q, b : q = port[e] /\ b = session[e]
        OBVIOUS
      <4>4. Ends(q, b)'
        BY <4>2, <4>3, <1>7
      <4>5. Ends(q, b)' <=> Ends(port[e], session[e])'
        BY <4>1, <4>3 DEF Ends, Waits, Removed
      <4> QED BY <4>4, <4>5
    <3> QED BY <3>1, <3>2
  <2>2. ASSUME NEW q \in Ports, Has(q) PROVE Has(q)'
    <3>1. PICK e \in usb_devs : port[e] = q /\ session[e] = plugged[q]
      BY <2>2 DEF Has
    <3>2. e \in usb_devs' /\ port'[e] = q /\ session'[e] = plugged'[q]
      BY <3>1, <1>0, <1>3, <1>4, <1>5, <1>6
    <3> QED BY <3>2 DEF Has
  <2>3. ASSUME k.address \in {None, plugged[p]} PROVE Has(p)'
    <3>1. d \in usb_devs' /\ port'[d] = p /\ session'[d] = plugged'[p]
      BY <2>3, <1>0, <1>2, <1>3, <1>6
    <3> QED BY <3>1 DEF Has
  <2>4. ASSUME NEW q \in Ports, Due(q) PROVE Due(q)' \/ Has(q)'
    <3>1. CASE \E j \in Jobs : jobs = <<j>>
      BY <1>1, <2>3, <2>4, <3>1, OneJob
    <3>2. CASE \E i, j : jobs = <<i, j>>
      <4>1. PICK i, j : jobs = <<i, j>>
        BY <3>2
      <4>2. /\ i = k /\ jobs' = <<j>>
            /\ \/ k.port = q /\ k.address \in {None, plugged[q]}
               \/ j.port = q /\ j.address \in {None, plugged[q]}
        BY <4>1, <1>0, <1>1, <2>4, TwoJobs
      <4>3. Due(q)' <=> j.port = q /\ j.address \in {None, plugged'[q]}
        BY <4>2, DueNext
      <4> QED BY <4>2, <4>3, <1>0, <1>1, <2>3
    <3> QED BY <3>1, <3>2, <1>0 DEF Account, Todo
  <2>5. \A q \in Ports : There(q) =>
           ctx = "active" \/ q \in scan \/ Waits(Added(q, plugged[q])) \/ Due(q) \/ Has(q)
    BY <1>4 DEF Account, Accounted
  <2>6. ASSUME NEW q \in Ports, There(q), Waits(Added(q, plugged[q]))
        PROVE  Waits(Added(q, plugged[q]))' \/ Has(q)'
    <3>0. Added(q, plugged[q])' = Added(q, plugged[q])
      BY <1>0 DEF Added
    <3>1. CASE Added(q, plugged[q]) = Added(p, a)
      <4>1. q = p /\ plugged[p] = a
        BY <3>1, UeventsDiffer
      <4>2. d \in usb_devs' /\ port'[d] = q /\ session'[d] = plugged'[q]
        BY <4>1, <1>0, <1>3, <1>6
      <4> QED BY <4>2 DEF Has
    <3>2. CASE Added(q, plugged[q]) # Added(p, a)
      BY <2>6, <3>0, <3>2, <1>0, <1>3 DEF Waits
    <3> QED BY <3>1, <3>2
  <2>7. monitor # "off"
    BY <1>4 DEF Account, Accounted
  <2> QED BY <2>1, <2>2, <2>4, <2>5, <2>6, <2>7, <1>0, <1>8 DEF Accounted
<1>11. Todo'
  <2>1. CASE \E j \in Jobs : jobs = <<j>>
    BY <2>1, <1>0, OneJob DEF Todo
  <2>2. CASE \E j \in Jobs : /\ jobs = <<Job(Parent[j.port], None), j>> /\ Sound(j)
                             /\ j.initialised /\ Parent[j.port] # None
    <3>1. PICK j \in Jobs : /\ jobs = <<Job(Parent[j.port], None), j>> /\ Sound(j)
                            /\ j.initialised /\ Parent[j.port] # None
      BY <2>2
    <3>2. j.port \in Ports /\ Parent[j.port] \in Ports
      BY <3>1, ParentAssumption DEF Jobs
    <3>3. k = Job(Parent[j.port], None) /\ jobs' = <<j>>
      BY <1>0, <1>1, <3>1, TwoJobs
    <3>4. p = Parent[j.port] /\ k.address = None
      <4>1. PICK r \in Ports, b \in Nat \cup {None} : r = Parent[j.port] /\ b = None
        BY <3>2
      <4>2. k = Job(r, b)
        BY <3>3, <4>1
      <4>3. Job(r, b).port = r /\ Job(r, b).address = b
        BY JobIs
      <4> QED BY <4>1, <4>2, <4>3, <1>1
    <3>5. p # j.port
      BY <3>1, <3>2, <3>4, ParentAssumption
    <3>6. plugged[p] = a /\ There(p)
      BY <3>4, <1>2 DEF There
    <3>7. /\ j.address # None /\ j.address \in Nat /\ Ends(j.port, j.address)
          /\ Found(j.address) = {}
      BY <3>1 DEF Sound, Jobs
    <3>8. j.address # a
      BY <3>2, <3>5, <3>6, <3>7, EndsOnce DEF Account
    <3>9. Found(j.address)' = {}
      <4>1. \A e \in usb_devs' : session'[e] # j.address
        BY <3>7, <3>8, <1>3, <1>4, <1>5, <1>6 DEF Found
      <4> QED BY <4>1 DEF Found
    <3>10. Sound(j)'
      BY <3>7, <3>9, <1>8 DEF Sound
    <3> QED BY <3>3, <3>10 DEF Todo
  <2> QED BY <2>1, <2>2, <1>0 DEF Account, Todo
<1> QED BY <1>7, <1>9, <1>10, <1>11 DEF Account

(* usbi_disconnect_device: what leaves the list has no port any more or    *)
(* is missed.                                                              *)
LEMMA UnlistAccount ==
  ASSUME Core, Account, NEW h, Unlist(h)
  PROVE  Account'
<1>1. /\ leave = "found" /\ leave' = "unlisted"
      /\ attached' = attached \ {leaving} /\ usb_devs' = usb_devs \ {leaving}
      /\ UNCHANGED <<plugged, uevents, plugs, lost, jobs, leaving, monitor, ctx, scan, session,
                     port>>
  BY DEF Unlist, kernel, context
<1>2. /\ jobs = <<>> /\ leaving \in usb_devs
      /\ ~InUse(session[leaving]) \/ Added(port[leaving], session[leaving]) \in lost
  BY <1>1, NoneAssumption DEF Core, Lock, Types, Account, Listing
<1>3. Wire'
  BY <1>1, WireAlone DEF Account
<1>4. Todo'
  BY <1>1, <1>2 DEF Todo
<1>5. Listing'
  <2>1. \A d : Added(port[d], session[d])' = Added(port[d], session[d])
    BY <1>1 DEF Added
  <2> QED BY <1>1, <2>1 DEF Account, Listing, InUse, Addresses, Ending
<1>6. Accounted'
  <2>1. /\ \A d : Ends(port[d], session[d])' <=> Ends(port[d], session[d])
        /\ \A q : Waits(Added(q, plugged[q]))' <=> Waits(Added(q, plugged[q]))
        /\ \A q : (There(q)' <=> There(q)) /\ (Due(q)' <=> Due(q))
    BY <1>1 DEF Ends, Waits, Added, Removed, There, Due
  <2>2. ASSUME NEW q \in Ports, Has(q) PROVE Has(q)' \/ Waits(Added(q, plugged[q]))
    <3>1. PICK d \in usb_devs : port[d] = q /\ session[d] = plugged[q]
      BY <2>2 DEF Has
    <3>2. CASE d # leaving
      BY <3>1, <3>2, <1>1 DEF Has
    <3>3. CASE d = leaving
      <4>1. InUse(session[leaving])
        BY <3>1, <3>3 DEF InUse
      <4>2. Added(q, plugged[q]) \in lost
        BY <4>1, <3>1, <3>3, <1>2
      <4> QED BY <4>2 DEF Waits
    <3> QED BY <3>2, <3>3
  <2> QED BY <2>1, <2>2, <1>1 DEF Account, Accounted, Active
<1> QED BY <1>3, <1>4, <1>5, <1>6 DEF Account

(* Its message: the device is off the list already.                        *)
LEMMA AnnounceDepartureAccount ==
  ASSUME Core, Account, NEW h, AnnounceDeparture(h)
  PROVE  Account'
<1>1. /\ leave = "unlisted" /\ leave' = "none" /\ leaving' = None
      /\ UNCHANGED <<plugged, uevents, plugs, lost, jobs, monitor, ctx, scan, usb_devs, attached,
                     session, port>>
  BY DEF AnnounceDeparture, kernel, context, devices
<1>2. leaving \notin usb_devs
  BY <1>1, NoneAssumption DEF Core, Once, Departed, Types
<1>3. Wire'
  BY <1>1, WireAlone DEF Account
<1>4. Todo'
  BY <1>1 DEF Account, Todo, Sound, Ends, Waits, Found, Job, Removed
<1>5. Listing'
  <2>1. \A d : Added(port[d], session[d])' = Added(port[d], session[d])
    BY <1>1 DEF Added
  <2> QED BY <1>1, <1>2, <2>1 DEF Account, Listing, InUse, Addresses, Ending
<1>6. Accounted'
  <2>1. /\ \A d : Ends(port[d], session[d])' <=> Ends(port[d], session[d])
        /\ \A q : Waits(Added(q, plugged[q]))' <=> Waits(Added(q, plugged[q]))
        /\ \A q : (There(q)' <=> There(q)) /\ (Due(q)' <=> Due(q)) /\ (Has(q)' <=> Has(q))
    BY <1>1 DEF Ends, Waits, Added, Removed, There, Due, Has
  <2> QED BY <2>1, <1>1, <1>2 DEF Account, Accounted, Active
<1> QED BY <1>3, <1>4, <1>5, <1>6 DEF Account

(* op_open: what is disconnected is the device itself, which has left or   *)
(* is missed from now on.                                                  *)
LEMMA OpenGoneAccount ==
  ASSUME Core, Account, NEW t \in Threads, OpenGone(t)
  PROVE  Account'
<1>1. /\ pc[t] = "openGone" /\ hotplug_lock = None
      /\ \/ UNCHANGED <<leaving, leave, lost>>
         \/ /\ handle[t] \in attached /\ StartDisconnect(session[handle[t]])
            /\ Misses(port[handle[t]], session[handle[t]])
      /\ UNCHANGED <<plugged, uevents, plugs, jobs, monitor, ctx, scan, usb_devs, attached,
                     session, port>>
  BY DEF OpenGone, context, devices
<1>2. /\ jobs = <<>> /\ leaving = None /\ leave = "none" /\ usb_devs \subseteq Devs
      /\ None \notin usb_devs
  BY <1>1, NoneAssumption DEF Core, Lock, Busy, Types
<1>3. ctx = "ready" /\ Active /\ attached \subseteq usb_devs
  <2>1. ~Starting /\ ~Ending
    BY <1>1 DEF Core, Stages
  <2>2. ctx = "ready"
    BY <2>1 DEF Core, Types, Starting, Ending
  <2> QED BY <2>1, <2>2 DEF Active, Account, Listing
<1>4. CASE UNCHANGED <<leaving, leave, lost>>
  BY <1>1, <1>4, AccountAlone
<1>5. ASSUME handle[t] \in attached, StartDisconnect(session[handle[t]]),
             Misses(port[handle[t]], session[handle[t]])
      PROVE  Account'
  <2>1. PICK d \in usb_devs : d = handle[t]
    BY <1>3, <1>5
  <2>2. /\ Ends(port[d], session[d]) /\ port[d] \in Ports /\ session[d] \in Addresses
        /\ Addresses \subseteq Nat
    BY <1>2, <1>3 DEF Account, Accounted, Listing, Wire, Addresses
  <2>3. PICK p \in Ports, a \in Nat : p = port[d] /\ a = session[d]
    BY <2>2
  <2>4. Found(a) = {d}
    <3>1. \A e \in usb_devs : session[d] = session[e] => d = e
      BY DEF Account, Listing
    <3> QED BY <3>1, <2>3 DEF Found
  <2>5. leaving' = d /\ leave' = "found"
    <3>1. StartDisconnect(a)
      BY <1>5, <2>1, <2>3
    <3> QED BY <3>1, <1>3, <2>4 DEF StartDisconnect
  <2>6. /\ Wire' /\ \A q, b : Ends(q, b)' <=> Ends(q, b)
        /\ lost \subseteq lost' /\ lost' \subseteq lost \cup {Added(p, a)}
        /\ \A m : Waits(m) => Waits(m)'
        /\ plugged[p] = a => Added(p, a) \in lost'
    <3>1. Misses(p, a)
      BY <1>5, <2>1, <2>3
    <3> QED BY <3>1, <1>1, MissesIs DEF Account
  <2>7. /\ Addresses' = Addresses /\ \A b : InUse(b)' <=> InUse(b)
        /\ \A e : Added(port[e], session[e])' = Added(port[e], session[e])
        /\ \A q : Added(q, plugged[q])' = Added(q, plugged[q])
        /\ \A q : (There(q)' <=> There(q)) /\ (Due(q)' <=> Due(q)) /\ (Has(q)' <=> Has(q))
        /\ \A e : Ends(port[e], session[e])' <=> Ends(port[e], session[e])
    BY <1>1, <2>6 DEF Addresses, InUse, Added, There, Due, Has, Ends, Waits, Removed
  <2>8. Todo'
    BY <1>1, <1>2 DEF Todo
  <2>9. Listing'
    <3>1. \/ ~InUse(session[leaving])'
          \/ Added(port[leaving], session[leaving])' \in lost'
      <4>1. CASE plugged[p] = a
        BY <4>1, <1>1, <2>3, <2>5, <2>6 DEF Added
      <4>2. CASE Waits(Removed(p, a))
        <5>1. ~InUse(a)
          BY <4>2 DEF Account, Wire, Waits
        <5> QED BY <5>1, <1>1, <2>3, <2>5, <2>7
      <4> QED BY <4>1, <4>2, <2>2, <2>3 DEF Ends
    <3>2. ASSUME NEW e \in usb_devs, Added(port[e], session[e])' \in lost' PROVE e = d
      <4>1. Added(port[e], session[e]) \notin lost
        BY <1>2 DEF Account, Listing
      <4>2. Added(port[e], session[e]) = Added(p, a)
        BY <4>1, <2>6, <2>7, <3>2
      <4>3. session[e] = session[d]
        BY <4>2, <2>3, UeventsDiffer
      <4> QED BY <4>3 DEF Account, Listing
    <3> QED BY <3>1, <3>2, <1>1, <2>5, <2>7 DEF Account, Listing, Ending
  <2>10. Accounted'
    <3>1. /\ monitor # "off"
          /\ \A e \in usb_devs : Ends(port[e], session[e])
          /\ \A q \in Ports : There(q) =>
               ctx = "active" \/ q \in scan \/ Waits(Added(q, plugged[q])) \/ Due(q) \/ Has(q)
      BY <1>2, <1>3 DEF Account, Accounted
    <3>2. \A q : Waits(Added(q, plugged[q])) => Waits(Added(q, plugged[q]))'
      BY <2>6, <2>7 DEF Waits
    <3> QED BY <3>1, <3>2, <1>1, <2>7 DEF Accounted
  <2> QED BY <2>6, <2>8, <2>9, <2>10 DEF Account
<1> QED BY <1>1, <1>4, <1>5

(* What is freed is neither listed nor about to leave the list.            *)
LEMMA UnrefAccount ==
  ASSUME Core, Account, NEW a \in Actors, Unref(a)
  PROVE  Account'
<1>1. /\ drop[a] # None
      /\ \/ /\ refcnt[drop[a]] = 1 /\ attached' = attached \ {drop[a]}
            /\ session' = [session EXCEPT ![drop[a]] = None]
            /\ port' = [port EXCEPT ![drop[a]] = None]
         \/ UNCHANGED <<attached, session, port>>
      /\ UNCHANGED <<plugged, uevents, plugs, lost, jobs, leaving, leave, monitor, ctx, scan,
                     usb_devs>>
  BY DEF Unref, kernel, work, context, devices
<1>2. CASE UNCHANGED <<attached, session, port>>
  BY <1>1, <1>2, AccountAlone
<1>3. CASE /\ refcnt[drop[a]] = 1 /\ attached' = attached \ {drop[a]}
           /\ session' = [session EXCEPT ![drop[a]] = None]
           /\ port' = [port EXCEPT ![drop[a]] = None]
  <2>0. Types
    BY DEF Core
  <2>1. PICK d \in Devs : d = drop[a]
    BY <1>1, <2>0 DEF Types
  <2>2. d \notin usb_devs
    <3>1. <<"drop", a>> \in References(d)
      BY <2>1, Referenced
    <3>2. IsFiniteSet(References(d)) /\ Cardinality(References(d)) = 1
      BY <1>3, <2>0, <2>1, FiniteReferences DEF Core, Types, CountsMatchReferences
    <3>3. <<"initial", None>> \notin References(d)
      BY <3>1, <3>2, FS_Singleton
    <3> QED BY <3>3, Referenced DEF Initial
  <2>3. /\ session \in [Devs -> Addresses \cup {None}] /\ port \in [Devs -> Ports \cup {None}]
        /\ session' \in [Devs -> Addresses \cup {None}] /\ port' \in [Devs -> Ports \cup {None}]
        /\ \A e \in Devs : e # d => session'[e] = session[e] /\ port'[e] = port[e]
        /\ attached' = attached \ {d}
    BY <1>3, <2>1 DEF Account, Listing
  <2>4. /\ usb_devs \subseteq Devs
        /\ \A e \in usb_devs : e \in Devs /\ e # d /\ session'[e] = session[e] /\ port'[e] = port[e]
    BY <2>0, <2>2, <2>3 DEF Types
  <2>5. Wire'
    BY <1>1, WireAlone DEF Account
  <2>6. Todo'
    <3>1. \A b : Found(b)' = Found(b)
      BY <1>1, <2>4 DEF Found
    <3>2. \A q, b : Ends(q, b)' <=> Ends(q, b)
      BY <1>1 DEF Ends, Waits, Removed
    <3>3. \A j : Sound(j)' <=> Sound(j)
      BY <3>1, <3>2 DEF Sound
    <3> QED BY <1>1, <3>3 DEF Account, Todo, Job
  <2>7. Listing'
    <3>1. /\ Addresses' = Addresses /\ \A b : InUse(b)' <=> InUse(b)
      BY <1>1 DEF Addresses, InUse
    <3>2. /\ attached' \subseteq Devs
          /\ \A e \in attached' : e \in attached /\ e # d
                                 /\ session'[e] = session[e] /\ port'[e] = port[e]
      BY <2>3 DEF Account, Listing
    <3>3. leave = "found" => session'[leaving] = session[leaving] /\ port'[leaving] = port[leaving]
      BY <2>4 DEF Core, Lock
    <3>4. leave = "found" => \/ ~InUse(session[leaving])'
                              \/ Added(port[leaving], session[leaving])' \in lost'
      BY <1>1, <3>1, <3>3 DEF Account, Listing, Added
    <3>5. \A e, f \in usb_devs' : session'[e] = session'[f] => e = f
      BY <1>1, <2>4 DEF Account, Listing
    <3>6. usb_devs' \subseteq attached' /\ (~Ending' => attached' \subseteq usb_devs')
      BY <1>1, <2>2, <2>3 DEF Account, Listing, Ending
    <3>7. \A e \in attached' : session'[e] # None /\ port'[e] # None
      BY <3>2 DEF Account, Listing
    <3>8. \A e \in usb_devs' : Added(port[e], session[e])' \in lost' => e = leaving'
      BY <1>1, <2>4 DEF Account, Listing, Added
    <3> QED BY <1>1, <2>3, <3>1, <3>2, <3>4, <3>5, <3>6, <3>7, <3>8 DEF Account, Listing
  <2>8. Accounted'
    <3>1. /\ \A e \in usb_devs : Ends(port[e], session[e])' <=> Ends(port[e], session[e])
          /\ \A q : Waits(Added(q, plugged[q]))' <=> Waits(Added(q, plugged[q]))
          /\ \A q : (There(q)' <=> There(q)) /\ (Due(q)' <=> Due(q))
      BY <1>1, <2>4 DEF Ends, Waits, Added, Removed, There, Due
    <3>2. \A q : Has(q)' <=> Has(q)
      BY <1>1, <2>4 DEF Has
    <3> QED BY <3>1, <3>2, <1>1 DEF Account, Accounted, Active
  <2> QED BY <2>5, <2>6, <2>7, <2>8 DEF Account
<1> QED BY <1>1, <1>2, <1>3

(* libusb_init: the list of an active context is empty at first.           *)
LEMMA InitContextAccount ==
  ASSUME Core, Account, NEW t \in Threads, InitContext(t)
  PROVE  Account'
<1>1. /\ ctx = "new" /\ ctx' = "active" /\ monitor' = "poll"
      /\ UNCHANGED <<plugged, uevents, plugs, lost, jobs, leaving, leave, scan, usb_devs, attached,
                     session, port>>
  BY DEF InitContext, kernel, work, devices
<1>2. usb_devs = {} /\ jobs = <<>>
  BY <1>1 DEF Account, Listing
<1>3. Wire'
  BY <1>1, WireAlone DEF Account
<1>4. Todo'
  BY <1>1, <1>2 DEF Todo
<1>5. Listing'
  BY <1>1 DEF Account, Listing, Addresses, InUse, Added, Ending
<1>6. Accounted'
  BY <1>1, <1>2 DEF Accounted
<1> QED BY <1>3, <1>4, <1>5, <1>6 DEF Account

(* The steps of the scan: every port is in it, or is to be enumerated, or  *)
(* is accounted for already.                                               *)
LEMMA ScanAccount ==
  ASSUME Core, Account, NEW t \in Threads,
         StartScan(t) \/ EndScan(t) \/ usbi_io_init(t) \/ \E p \in Ports : ScanEntry(t, p)
  PROVE  Account'
<1>1. /\ UNCHANGED <<plugged, uevents, plugs, lost, leaving, leave, monitor, usb_devs, attached,
                     session, port>>
      /\ ctx # "new" /\ ctx' # "new" /\ ctx \notin {"exiting", "gone"}
      /\ scan' \subseteq Ports /\ (ctx' \in {"scanned", "ready"} => scan' = {})
      /\ Active /\ ctx' # "active"
  BY DEF StartScan, EndScan, usbi_io_init, ScanEntry, kernel, work, devices, Active,
     Account, Listing
<1>2. Wire'
  BY <1>1, WireAlone DEF Account
<1>3. /\ \A q, a : Ends(q, a)' <=> Ends(q, a)
      /\ \A e : Ends(port[e], session[e])' <=> Ends(port[e], session[e])
      /\ \A q : Waits(Added(q, plugged[q]))' <=> Waits(Added(q, plugged[q]))
      /\ \A q : (There(q)' <=> There(q)) /\ (Has(q)' <=> Has(q))
  BY <1>1 DEF Ends, Waits, Added, Removed, There, Has
<1>4. Todo'
  <2>1. CASE jobs' = jobs
    BY <1>1, <2>1 DEF Account, Todo, Sound, Ends, Waits, Found, Job, Removed
  <2>2. CASE \E p \in Ports : jobs' = <<Job(p, None)>>
    <3>1. PICK p \in Ports, a \in Nat \cup {None} : jobs' = <<Job(p, a)>> /\ a = None
      BY <2>2
    <3>2. Job(p, a) \in Jobs /\ Job(p, a).address = None /\ ~Job(p, a).initialised
      BY <3>1, JobIs
    <3>3. Sound(Job(p, a))'
      BY <3>2 DEF Sound, Job
    <3> QED BY <3>1, <3>2, <3>3 DEF Todo
  <2> QED BY <2>1, <2>2 DEF StartScan, EndScan, usbi_io_init, ScanEntry, work
<1>5. Listing'
  <2>1. /\ Addresses' = Addresses /\ \A a : InUse(a)' <=> InUse(a)
    BY <1>1 DEF Addresses, InUse
  <2>2. \A d : Added(port[d], session[d])' = Added(port[d], session[d])
    BY <1>1 DEF Added
  <2>3. attached \subseteq usb_devs
    BY <1>1 DEF Account, Listing, Ending
  <2> QED BY <1>1, <2>1, <2>2, <2>3 DEF Account, Listing
<1>6. \A q \in Ports : \/ q \in scan' \/ Due(q)'
                       \/ ctx # "active" /\ (q \in scan => FALSE) /\ (Due(q) => Due(q)')
  <2>1. CASE StartScan(t)
    BY <2>1 DEF StartScan
  <2>2. CASE EndScan(t) \/ usbi_io_init(t)
    BY <2>2, <1>1 DEF EndScan, usbi_io_init, work, Due, Account, Listing
  <2>3. CASE \E p \in Ports : ScanEntry(t, p)
    <3>1. PICK p \in Ports : ScanEntry(t, p)
      BY <2>3
    <3>2. /\ ctx = "scanning" /\ jobs = <<>> /\ scan' = scan \ {p}
          /\ jobs' = <<Job(p, None)>>
      BY <3>1 DEF ScanEntry, Free, Busy
    <3>3. PICK a \in Nat \cup {None} : a = None
      OBVIOUS
    <3>4. Job(p, a).port = p /\ Job(p, a).address = a
      BY JobIs
    <3>5. jobs' = <<Job(p, a)>>
      BY <3>2, <3>3
    <3>6. Due(p)'
      BY <3>3, <3>4, <3>5, DueNext
    <3>7. \A q : ~Due(q)
      BY <3>2, NoJob
    <3> QED BY <3>2, <3>6, <3>7
  <2> QED BY <2>1, <2>2, <2>3
<1>7. Accounted'
  BY <1>1, <1>3, <1>6 DEF Account, Accounted, Active
<1> QED BY <1>2, <1>4, <1>5, <1>7 DEF Account

(* libusb_exit: the context is not active any more.                        *)
LEMMA ExitAccount ==
  ASSUME Core, Account, NEW t \in Threads,
         ExitContext(t) \/ ExitMonitor(t) \/ \E d \in Devs : ExitDevice(t, d)
  PROVE  Account'
<1>1. /\ UNCHANGED <<plugged, plugs, lost, jobs, leaving, leave, scan, attached, session, port>>
      /\ usb_devs' \subseteq usb_devs
      /\ \/ monitor' = monitor /\ uevents' = uevents
         \/ monitor' = "off" /\ uevents' = <<>>
  BY DEF ExitContext, ExitMonitor, ExitDevice, kernel, work, context, devices
<1>2. ctx' \in {"exiting", "gone"}
  <2>1. CASE ExitContext(t) \/ ExitMonitor(t)
    BY <2>1 DEF ExitContext, ExitMonitor
  <2>2. CASE \E d \in Devs : ExitDevice(t, d)
    <3>1. pc[t] = "exit" /\ ctx' = ctx
      BY <2>2 DEF ExitDevice, context
    <3> QED BY <3>1 DEF Core, Stages, Ending
  <2> QED BY <2>1, <2>2
<1>3. Wire'
  <2>1. CASE monitor' = monitor /\ uevents' = uevents
    BY <1>1, <2>1, WireAlone DEF Account
  <2>2. CASE monitor' = "off" /\ uevents' = <<>>
    <3>1. /\ plugs' \in Nat /\ plugged' \in [Ports -> Addresses' \cup {None}]
          /\ \A p, q \in Ports : There(p)' /\ plugged'[p] = plugged'[q] => p = q
      BY <1>1 DEF Account, Wire, There, Addresses
    <3>2. /\ lost' \subseteq Uevents
          /\ \A p \in Ports, a \in Nat :
               Removed(p, a)' \in lost' => a \in Addresses' /\ ~InUse(a)'
      BY <1>1 DEF Account, Wire, InUse, Addresses, Removed
    <3> QED BY <2>2, <3>1, <3>2 DEF Wire
  <2> QED BY <1>1, <2>1, <2>2
<1>4. Todo'
  <2>1. CASE monitor' = monitor /\ uevents' = uevents
    <3>1. \A q, a : Ends(q, a)' <=> Ends(q, a)
      BY <1>1, <2>1 DEF Ends, Waits, Removed
    <3>2. \A a : Found(a) = {} => Found(a)' = {}
      BY <1>1 DEF Found
    <3>3. \A j : Sound(j) => Sound(j)'
      BY <3>1, <3>2 DEF Sound
    <3> QED BY <1>1, <3>3 DEF Account, Todo, Job
  <2>2. CASE ~(monitor' = monitor /\ uevents' = uevents)
    <3>1. ExitMonitor(t) /\ pc[t] = "exit"
      BY <2>2 DEF ExitContext, ExitMonitor, ExitDevice, kernel, context
    <3>2. jobs = <<>>
      BY <3>1 DEF Core, Stages, Busy
    <3> QED BY <1>1, <3>2 DEF Todo
  <2> QED BY <2>1, <2>2
<1>5. Listing'
  <2>1. /\ Addresses' = Addresses /\ \A a : InUse(a)' <=> InUse(a)
    BY <1>1 DEF Addresses, InUse
  <2>2. \A d : Added(port[d], session[d])' = Added(port[d], session[d])
    BY <1>1 DEF Added
  <2> QED BY <1>1, <1>2, <2>1, <2>2 DEF Account, Listing, Ending
<1>6. Accounted'
  BY <1>2 DEF Accounted, Active
<1> QED BY <1>3, <1>4, <1>5, <1>6 DEF Account

(* Nothing is plugged in and nothing listed at first.                      *)
LEMMA InitAccount ==
  ASSUME Init
  PROVE  Account
<1>1. /\ plugged = [p \in Ports |-> None] /\ uevents = <<>> /\ plugs = 0 /\ jobs = <<>>
      /\ leave = "none" /\ monitor = "off" /\ ctx = "new" /\ scan = {} /\ usb_devs = {}
      /\ attached = {} /\ session = [d \in Devs |-> None] /\ port = [d \in Devs |-> None]
      /\ lost = {}
  BY DEF Init
<1>2. Wire
  BY <1>1 DEF Wire, There
<1>3. Todo
  BY <1>1 DEF Todo
<1>4. Listing
  BY <1>1 DEF Listing
<1>5. Accounted
  BY <1>1 DEF Accounted, Active
<1> QED BY <1>2, <1>3, <1>4, <1>5 DEF Account

(* The other actions of the holder of the lock and of the callbacks.       *)
LEMMA OthersAccount ==
  ASSUME Core, Account,
         \/ MonitorUnlocks \/ MonitorEnds \/ UNCHANGED vars
         \/ \E h \in Actors : AnnounceArrival(h)
         \/ \E t \in Threads :
              \/ ExitMessage(t) \/ GetDeviceList(t) \/ PollLock(t) \/ CopyList(t) \/ OpenFails(t)
              \/ Close(t) \/ TakeMessage(t) \/ FinishMessage(t) \/ ReportPresent(t)
              \/ \E d \in Devs : Release(t, d) \/ Open(t, d)
              \/ \E k \in Callbacks : \/ libusb_hotplug_register_callback(t, k)
                                      \/ libusb_hotplug_deregister_callback(t, k)
                                      \/ usbi_hotplug_match(t, k)
  PROVE  Account'
<1> DEFINE still == <<plugged, uevents, plugs, lost, jobs, leaving, leave, ctx, scan,
                      usb_devs, attached, session, port>>
<1>1. CASE MonitorUnlocks \/ MonitorEnds
  <2>1. UNCHANGED still /\ monitor # "off" /\ monitor' # "off"
    BY <1>1 DEF MonitorUnlocks, MonitorEnds, kernel, work, context, devices
  <2> QED BY <2>1, AccountAlone
<1>2. CASE UNCHANGED vars
  <2>1. UNCHANGED still /\ UNCHANGED monitor
    BY <1>2 DEF vars, kernel, work, context, devices
  <2> QED BY <2>1, AccountAlone
<1>3. CASE \E h \in Actors : AnnounceArrival(h)
  <2>1. UNCHANGED still /\ UNCHANGED monitor
    BY <1>3 DEF AnnounceArrival, kernel, context, devices
  <2> QED BY <2>1, AccountAlone
<1>4. ASSUME NEW t \in Threads,
             \/ ExitMessage(t) \/ \E d \in Devs : Release(t, d)
             \/ \E k \in Callbacks : \/ libusb_hotplug_deregister_callback(t, k)
                                     \/ usbi_hotplug_match(t, k)
      PROVE  Account'
  <2>1. UNCHANGED still /\ UNCHANGED monitor
    BY <1>4 DEF ExitMessage, Release, libusb_hotplug_deregister_callback, usbi_hotplug_match,
       kernel, work, context, devices
  <2> QED BY <2>1, AccountAlone
<1>5. ASSUME NEW t \in Threads,
             \/ GetDeviceList(t) \/ PollLock(t) \/ CopyList(t) \/ TakeMessage(t)
             \/ FinishMessage(t) \/ ReportPresent(t) \/ OpenFails(t) \/ Close(t)
             \/ \E k \in Callbacks : libusb_hotplug_register_callback(t, k)
      PROVE  Account'
  <2>1. UNCHANGED still /\ UNCHANGED monitor
    BY <1>5 DEF GetDeviceList, PollLock, CopyList, TakeMessage, FinishMessage, ReportPresent,
       OpenFails, Close, libusb_hotplug_register_callback, kernel, work, context, devices
  <2> QED BY <2>1, AccountAlone
<1>6. ASSUME NEW t \in Threads, NEW d \in Devs, Open(t, d)
      PROVE  Account'
  <2>1. UNCHANGED still /\ UNCHANGED monitor
    BY <1>6 DEF Open, kernel, work, context, devices
  <2> QED BY <2>1, AccountAlone
<1> QED BY <1>1, <1>2, <1>3, <1>4, <1>5, <1>6

(* Every step keeps it.                                                    *)
LEMMA NextAccount ==
  ASSUME Core, Account, [Next]_vars
  PROVE  Account'
<1>1. CASE Kernel
  BY <1>1, PlugInAccount, UnplugAccount DEF Kernel
<1>2. CASE MonitorReads \/ MonitorUnlocks \/ MonitorEnds \/ UNCHANGED vars
  BY <1>2, MonitorReadsAccount, OthersAccount
<1>3. ASSUME NEW a \in Actors, Unref(a) PROVE Account'
  BY <1>3, UnrefAccount
<1>4. ASSUME NEW h \in Actors, Hotplug(h) PROVE Account'
  <2>1. CASE EnumerateSkips(h) \/ EnumerateFails(h)
    BY <2>1, EnumerateEndsAccount
  <2>2. CASE EnumerateParent(h)
    BY <2>2, EnumerateParentAccount
  <2>3. CASE Enumerate(h)
    BY <2>3, EnumerateAccount
  <2>4. CASE AnnounceArrival(h)
    BY <2>4, OthersAccount
  <2>5. CASE Unlist(h)
    BY <2>5, UnlistAccount
  <2>6. CASE AnnounceDeparture(h)
    BY <2>6, AnnounceDepartureAccount
  <2> QED BY <1>4, <2>1, <2>2, <2>3, <2>4, <2>5, <2>6 DEF Hotplug
<1>5. ASSUME NEW t \in Threads, Context(t) PROVE Account'
  <2>1. CASE InitContext(t)
    BY <2>1, InitContextAccount
  <2>2. CASE StartScan(t) \/ EndScan(t) \/ usbi_io_init(t) \/ \E p \in Ports : ScanEntry(t, p)
    BY <2>2, ScanAccount
  <2>3. CASE ExitContext(t) \/ ExitMonitor(t) \/ \E d \in Devs : ExitDevice(t, d)
    BY <2>3, ExitAccount
  <2>4. CASE ExitMessage(t)
    BY <2>4, OthersAccount
  <2> QED BY <1>5, <2>1, <2>2, <2>3, <2>4 DEF Context
<1>6. ASSUME NEW t \in Threads, Use(t) PROVE Account'
  <2>1. CASE PollReads(t)
    BY <2>1, PollReadsAccount
  <2>2. CASE PollEnds(t)
    BY <2>2, PollEndsAccount
  <2>3. CASE OpenGone(t)
    BY <2>3, OpenGoneAccount
  <2>4. CASE \/ GetDeviceList(t) \/ PollLock(t) \/ CopyList(t) \/ OpenFails(t) \/ Close(t)
             \/ \E d \in Devs : Release(t, d) \/ Open(t, d)
    BY <2>4, OthersAccount
  <2> QED BY <1>6, <2>1, <2>2, <2>3, <2>4 DEF Use
<1>7. ASSUME NEW t \in Threads, Events(t) PROVE Account'
  BY <1>7, OthersAccount DEF Events
<1> QED BY <1>1, <1>2, <1>3, <1>4, <1>5, <1>6, <1>7 DEF Next

(* When nothing is under way and no uevent waits, what is plugged in is    *)
(* listed or lost, and what is listed is plugged in or its removal lost.   *)
LEMMA ListSettlesNow ==
  ASSUME Core, Account
  PROVE  ListSettles
<1> SUFFICES ASSUME Settled
             PROVE  /\ \A p \in Ports : There(p) =>
                         Added(p, plugged[p]) \in lost <=> ~\E d \in usb_devs : Lists(d, p)
                    /\ \A d \in usb_devs :
                         Lists(d, port[d]) \/ Removed(port[d], session[d]) \in lost
                    /\ \A d, e \in usb_devs : session[d] = session[e] => d = e
                    /\ usb_devs \subseteq attached
  BY DEF ListSettles
<1>1. /\ ctx \in {"scanned", "ready"} /\ uevents = <<>> /\ jobs = <<>> /\ leaving = None
      /\ scan = {} /\ Active /\ usb_devs \subseteq Devs /\ None \notin usb_devs
  BY NoneAssumption DEF Settled, Core, Types, Lock, Busy, Active, Account, Listing
<1>2. \A m : Waits(m) => m \in lost
  BY <1>1 DEF Waits
<1>3. ASSUME NEW d \in usb_devs
      PROVE  Lists(d, port[d]) \/ Removed(port[d], session[d]) \in lost
  <2>1. Ends(port[d], session[d])
    BY <1>1 DEF Account, Accounted
  <2> QED BY <2>1, <1>2 DEF Ends, Lists
<1>4. ASSUME NEW p \in Ports, There(p), Added(p, plugged[p]) \notin lost
      PROVE  \E d \in usb_devs : Lists(d, p)
  BY <1>1, <1>2, <1>4, NoJob DEF Account, Accounted, Has, Lists
<1>5. ASSUME NEW p \in Ports, NEW d \in usb_devs, Lists(d, p)
      PROVE  Added(p, plugged[p]) \notin lost
  BY <1>1, <1>5 DEF Account, Listing, Lists
<1> QED BY <1>3, <1>4, <1>5 DEF Account, Listing

(* Once every uevent has been handled, the list has one device for each    *)
(* that is plugged in and no other, whatever uevents were queued before    *)
(* the scan of libusb_init, hubs were enumerated early and opens found a   *)
(* device gone (linux_usbfs.c:1055-1130, linux_netlink.c:312-406) - but    *)
(* for exactly what it missed: uevents that the socket lost, devices that  *)
(* could not be read, and nodes that an open did not find.                 *)
THEOREM ListAlwaysSettles == Spec => []ListSettles
<1>1. Init => Core /\ Account
  BY InitCore, InitAccount
<1>2. (Core /\ Account) /\ [Next]_vars => (Core /\ Account)'
  BY NextKeeps, NextAccount
<1>3. Core /\ Account => ListSettles
  BY ListSettlesNow
<1> QED BY <1>1, <1>2, <1>3, PTL DEF Spec

(* Of the two lookups by session id, that of a uevent or an open that      *)
(* disconnects finds one device at most, and one that has left or was      *)
(* missed by an open (linux_usbfs.c:1113-1130, 1288-1302).                 *)
THEOREM LookupsAreExact == Spec => []LookupsExact
<1>1. Init => Core /\ Account
  BY InitCore, InitAccount
<1>2. (Core /\ Account) /\ [Next]_vars => (Core /\ Account)'
  BY NextKeeps, NextAccount
<1>3. Core /\ Account => LookupsExact
  BY DEF Account, Listing, LookupsExact
<1> QED BY <1>1, <1>2, <1>3, PTL DEF Spec

(* Type correctness of all variables: those of Types, of the kernel and of *)
(* the places of devices.                                                  *)
Places ==
  /\ plugs \in Nat /\ plugged \in [Ports -> Addresses \cup {None}]
  /\ uevents \in Seq(Uevents) /\ lost \subseteq Uevents /\ jobs \in Seq(Jobs)
  /\ session \in [Devs -> Addresses \cup {None}] /\ port \in [Devs -> Ports \cup {None}]
  /\ attached \subseteq Devs /\ scan \subseteq Ports

THEOREM AlwaysTyped == Spec => [](Types /\ Places)
<1>1. Init => Core /\ Account
  BY InitCore, InitAccount
<1>2. (Core /\ Account) /\ [Next]_vars => (Core /\ Account)'
  BY NextKeeps, NextAccount
<1>3. ASSUME Account PROVE jobs \in Seq(Jobs)
  <2>1. CASE jobs = <<>>
    BY <2>1
  <2>2. CASE \E j \in Jobs : jobs = <<j>> /\ Sound(j)
    BY <2>2
  <2>3. CASE \E j \in Jobs : /\ jobs = <<Job(Parent[j.port], None), j>> /\ Sound(j)
                             /\ j.initialised /\ Parent[j.port] # None
    <3>1. PICK j \in Jobs : jobs = <<Job(Parent[j.port], None), j>> /\ Parent[j.port] # None
      BY <2>3
    <3>2. Parent[j.port] \in Ports
      BY <3>1, ParentAssumption DEF Jobs
    <3>3. PICK p \in Ports, a \in Nat \cup {None} : p = Parent[j.port] /\ a = None
      BY <3>2
    <3>4. Job(p, a) \in Jobs
      BY JobIs
    <3> QED BY <3>1, <3>3, <3>4
  <2> QED BY <1>3, <2>1, <2>2, <2>3 DEF Account, Todo
<1>4. Core /\ Account => Types /\ Places
  BY <1>3 DEF Core, Account, Wire, Listing, Places
<1> QED BY <1>1, <1>2, <1>4, PTL DEF Spec

=============================================================================

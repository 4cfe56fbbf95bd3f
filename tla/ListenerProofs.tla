--------------------------- MODULE ListenerProofs ---------------------------
(***************************************************************************)
(* The listener counts its children exactly, keeps its limits and forgets  *)
(* no child, for any number of process ids and addresses and any limits.   *)
(*                                                                         *)
(* The limits are the delicate part: each child compares them with the     *)
(* counts of the moment of its own fork, and never looks again.  They hold *)
(* because the last one forked of any set of children that live together   *)
(* has seen all the others (LaunchCountsSeen).                             *)
(***************************************************************************)
EXTENDS Listener, FiniteSetTheorems, TLAPS

(* Who the listener is working for.                                        *)
ClientKnown == pc \in {"count", "fork", "record"} => client # None

(* Every child is recorded with its client's address, but the one that has *)
(* just been forked.                                                       *)
Recorded ==
  /\ \A p \in Pids : child[p] = "none" => pid_ip[p] = None
  /\ \A p \in Unreaped : from[p] # None /\ pid_ip[p] \in {None, from[p]}
  /\ \A p, q \in Pids : Unrecorded(p) /\ Unrecorded(q) => p = q
  /\ pc # "record" => \A p \in Pids : ~Unrecorded(p)
  /\ pc = "record" => \E p \in Pids : Unrecorded(p) /\ from[p] = client

(* A zombie has its SIGCHLD pending, unless the listener is reaping; and   *)
(* an alarm, unless the listener is on its way to reap.                    *)
Noticed ==
  (\E p \in Pids : child[p] = "zombie") =>
    /\ pc # "reap" => "CHLD" \in pending
    /\ pc \notin {"clearHUP", "reload", "testCHLD", "clearCHLD", "reap"} => alarm

(* In every set of children, and of children of one address, somebody has  *)
(* been told at least as many as they are.                                 *)
LaunchCountsSeen ==
  /\ \A S \in SUBSET Unreaped :
       S # {} => \E p \in S : launch[p].num_children >= Cardinality(S)
  /\ \A a \in Addresses : \A S \in SUBSET UnreapedOf(a) :
       S # {} => \E p \in S : launch[p].num_this_ip >= Cardinality(S)

(* Who is served has found the limits kept.                                *)
ServedWithinLimits == \A p \in Serving : ~OverLimits(launch[p])

IInv ==
  /\ TypeOK
  /\ ClientKnown
  /\ Recorded
  /\ CountsExact
  /\ NeverBug
  /\ Noticed
  /\ LaunchCountsSeen
  /\ ServedWithinLimits

-----------------------------------------------------------------------------
(* The sets of children are finite.                                        *)
LEMMA ChildrenFinite ==
  /\ IsFiniteSet(Unreaped) /\ Cardinality(Unreaped) \in Nat
  /\ \A a : IsFiniteSet(UnreapedOf(a)) /\ Cardinality(UnreapedOf(a)) \in Nat
<1>1. Unreaped \subseteq Pids /\ \A a : UnreapedOf(a) \subseteq Pids
  BY DEF Unreaped, UnreapedOf
<1>2. IsFiniteSet(Unreaped) /\ \A a : IsFiniteSet(UnreapedOf(a))
  BY <1>1, PidsAssumption, FS_Subset
<1> QED
  BY <1>2, FS_CardinalityType

(* Steps that create and reap no child, and do not come to or leave the    *)
(* steps around the fork, leave the books as they are.                     *)
LEMMA BooksUntouched ==
  ASSUME Recorded, CountsExact, LaunchCountsSeen,
         UNCHANGED <<counts, from, launch>>,
         \A p \in Pids : child'[p] = "none" <=> child[p] = "none",
         \/ UNCHANGED <<pc, client>>
         \/ {pc, pc'} \cap {"fork", "record"} = {}
  PROVE  Recorded' /\ CountsExact' /\ LaunchCountsSeen'
<1>1. Unreaped' = Unreaped
  BY DEF Unreaped
<1>2. \A a : UnreapedOf(a)' = UnreapedOf(a)
  BY <1>1 DEF UnreapedOf
<1>3. \A p \in Pids : Unrecorded(p)' <=> Unrecorded(p)
  BY DEF Unrecorded, counts
<1>4. Recorded'
  BY <1>1, <1>3 DEF Recorded, counts
<1>5. CountsExact'
  BY <1>1, <1>2 DEF CountsExact, counts
<1>6. LaunchCountsSeen'
  BY <1>1, <1>2 DEF LaunchCountsSeen
<1> QED
  BY <1>4, <1>5, <1>6

(* At first there are no children.                                         *)
LEMMA InitIInv == Init => IInv
<1> SUFFICES ASSUME Init PROVE IInv
  OBVIOUS
<1>1. Unreaped = {} /\ \A a : UnreapedOf(a) = {}
  BY DEF Init, Unreaped, UnreapedOf
<1>2. TypeOK
  BY DEF Init, TypeOK, Steps, Signals
<1>3. CountsExact
  BY <1>1, FS_EmptySet DEF Init, CountsExact
<1>4. Recorded
  BY <1>1 DEF Init, Recorded, Unrecorded
<1>5. LaunchCountsSeen
  BY <1>1 DEF LaunchCountsSeen
<1>6. ClientKnown /\ NeverBug /\ Noticed /\ ServedWithinLimits
  BY DEF Init, ClientKnown, NeverBug, Noticed, ServedWithinLimits, Serving
<1> QED
  BY <1>2, <1>3, <1>4, <1>5, <1>6 DEF IInv

-----------------------------------------------------------------------------
(* Signals, and a child that looks at its limits or exits.                 *)
LEMMA EnvironmentSteps ==
  ASSUME IInv, AlarmFires \/ SigHup \/ \E p \in Pids : CheckLimits(p) \/ ChildExits(p)
  PROVE  IInv'
<1>1. CASE AlarmFires \/ SigHup
  <2> USE <1>1 DEF AlarmFires, SigHup, Deliver
  <2>1. TypeOK' /\ ClientKnown' /\ NeverBug'
    BY DEF IInv, TypeOK, ClientKnown, NeverBug, Steps, Signals, signals, counts, children
  <2>2. Recorded' /\ CountsExact' /\ LaunchCountsSeen'
    BY BooksUntouched DEF IInv, children
  <2>3. Noticed'
    BY DEF IInv, Noticed, signals, children
  <2>4. ServedWithinLimits'
    BY DEF IInv, ServedWithinLimits, Serving, OverLimits, children
  <2> QED
    BY <2>1, <2>2, <2>3, <2>4 DEF IInv
<1>2. ASSUME NEW p \in Pids, CheckLimits(p)
      PROVE  IInv'
  <2> USE <1>2 DEF CheckLimits
  <2>1. TypeOK' /\ ClientKnown' /\ NeverBug'
    BY DEF IInv, TypeOK, ClientKnown, NeverBug, counts, signals
  <2>2. \A q \in Pids : child'[q] = IF q = p THEN IF OverLimits(launch[p]) THEN "refused" ELSE "serving"
                                             ELSE child[q]
    BY DEF IInv, TypeOK
  <2>3. Recorded' /\ CountsExact' /\ LaunchCountsSeen'
    BY <2>2, BooksUntouched DEF IInv
  <2>4. Noticed'
    BY <2>2 DEF IInv, Noticed, signals
  <2>5. ServedWithinLimits'
    BY <2>2 DEF IInv, ServedWithinLimits, Serving, OverLimits
  <2> QED
    BY <2>1, <2>3, <2>4, <2>5 DEF IInv
<1>3. ASSUME NEW p \in Pids, ChildExits(p)
      PROVE  IInv'
  <2> USE <1>3 DEF ChildExits, Deliver
  <2>1. TypeOK' /\ ClientKnown' /\ NeverBug'
    BY DEF IInv, TypeOK, ClientKnown, NeverBug, Steps, Signals, counts
  <2>2. \A q \in Pids : child'[q] = IF q = p THEN "zombie" ELSE child[q]
    BY DEF IInv, TypeOK
  <2>3. Recorded' /\ CountsExact' /\ LaunchCountsSeen'
    BY <2>2, BooksUntouched DEF IInv
  <2>4. Noticed'
    BY DEF Noticed
  <2>5. ServedWithinLimits'
    BY <2>2 DEF IInv, ServedWithinLimits, Serving, OverLimits
  <2> QED
    BY <2>1, <2>3, <2>4, <2>5 DEF IInv
<1> QED
  BY <1>1, <1>2, <1>3

(* The listener between accept() and the reaping of its children.          *)
LEMMA ListenerSteps ==
  ASSUME IInv,
         \/ Block \/ AcceptFails \/ \E a \in Addresses : Accept(a)
         \/ TestHup \/ ClearHup \/ handle_sighup \/ TestChld \/ ClearChld \/ ReapedAll
  PROVE  IInv'
<1> USE DEF Block, AcceptFails, Accept, TestHup, ClearHup, handle_sighup, TestChld, ClearChld,
            ReapedAll, AfterCheck
<1>1. UNCHANGED <<counts, children>> /\ {pc, pc'} \cap {"fork", "record"} = {}
  BY DEF signals, counts, children
<1>2. TypeOK'
  <2> USE DEF IInv, TypeOK, Steps, Signals, signals, counts, children
  <2>1. CASE Block \/ AcceptFails \/ \E a \in Addresses : Accept(a)
    BY <2>1
  <2>2. CASE TestHup \/ ClearHup \/ handle_sighup
    BY <2>2
  <2>3. CASE TestChld \/ ClearChld \/ ReapedAll
    BY <2>3
  <2> QED
    BY <2>1, <2>2, <2>3
<1>3. ClientKnown' /\ NeverBug'
  BY DEF IInv, ClientKnown, NeverBug
<1>4. Recorded' /\ CountsExact' /\ LaunchCountsSeen'
  BY <1>1, BooksUntouched DEF IInv, children
<1>5. Noticed'
  BY <1>1 DEF IInv, Noticed, signals, children
<1>6. ServedWithinLimits'
  BY <1>1 DEF IInv, ServedWithinLimits, Serving, OverLimits, children
<1> QED
  BY <1>2, <1>3, <1>4, <1>5, <1>6 DEF IInv

(* A child that is reaped is recorded with its address, and leaves both    *)
(* counts.                                                                 *)
LEMMA ReapSteps ==
  ASSUME IInv, NEW p \in Pids, ReapOne(p)
  PROVE  IInv'
<1> PICK a \in Addresses : a = from[p]
  BY DEF ReapOne, IInv, TypeOK, Recorded, Unreaped
<1>1. /\ pc = "reap" /\ child[p] = "zombie"
      /\ p \in UnreapedOf(a) /\ pid_ip[p] = a
  BY DEF ReapOne, IInv, TypeOK, Recorded, Unreaped, UnreapedOf, Unrecorded
<1>2. Cardinality(UnreapedOf(a)) > 0 /\ ip_count[a] = Cardinality(UnreapedOf(a))
  <2>1. Cardinality(UnreapedOf(a)) # 0
    BY <1>1, ChildrenFinite, FS_EmptySet
  <2> QED
    BY <1>1, <2>1, ChildrenFinite DEF IInv, CountsExact
<1>3. Consistent(pid_ip[p])
  BY <1>1, <1>2, ChildrenFinite, NoneAssumption DEF Consistent
<1>4. /\ child' = [child EXCEPT ![p] = "none"]
      /\ s_children' = s_children - 1
      /\ ip_count' = [ip_count EXCEPT ![a] = @ - 1]
      /\ pid_ip' = [pid_ip EXCEPT ![p] = None]
      /\ UNCHANGED <<pc, client, pending, alarm, reload_due, from, launch>>
  BY <1>1, <1>3 DEF ReapOne, Forget, signals
<1>5. /\ Unreaped' = Unreaped \ {p} /\ p \in Unreaped
      /\ UnreapedOf(a)' = UnreapedOf(a) \ {p}
      /\ \A b : b # a => UnreapedOf(b)' = UnreapedOf(b)
  <2>1. \A q \in Pids : child'[q] = IF q = p THEN "none" ELSE child[q]
    BY <1>4 DEF IInv, TypeOK
  <2>2. Unreaped' = Unreaped \ {p} /\ p \in Unreaped
    BY <1>1, <2>1 DEF Unreaped, UnreapedOf
  <2> QED
    BY <1>4, <2>2 DEF UnreapedOf
<1>6. /\ Cardinality(Unreaped') = Cardinality(Unreaped) - 1
      /\ Cardinality(UnreapedOf(a)') = Cardinality(UnreapedOf(a)) - 1
  BY <1>1, <1>5, ChildrenFinite, FS_RemoveElement
<1>7. TypeOK'
  <2>1. s_children' \in Nat
    BY <1>4, <1>5, <1>6, <1>1, ChildrenFinite, FS_EmptySet DEF IInv, CountsExact
  <2>2. ip_count' \in [Addresses -> Nat]
    BY <1>1, <1>2, <1>4, ChildrenFinite DEF IInv, TypeOK
  <2> QED
    BY <1>4, <2>1, <2>2 DEF IInv, TypeOK
<1>8. CountsExact'
  <2>1. s_children' = Cardinality(Unreaped')
    BY <1>1, <1>4, <1>6, ChildrenFinite DEF IInv, CountsExact
  <2>2. ASSUME NEW b \in Addresses
        PROVE  ip_count'[b] = Cardinality(UnreapedOf(b)')
    <3>1. CASE b = a
      BY <1>2, <1>4, <1>6, <3>1 DEF IInv, TypeOK
    <3>2. CASE b # a
      <4>1. ip_count'[b] = ip_count[b] /\ UnreapedOf(b)' = UnreapedOf(b)
        BY <1>4, <1>5, <3>2 DEF IInv, TypeOK
      <4> QED
        BY <1>1, <4>1, ChildrenFinite DEF IInv, CountsExact
    <3> QED
      BY <3>1, <3>2
  <2> QED
    BY <1>1, <1>4, <1>7, <2>1, <2>2 DEF TypeOK, CountsExact
<1>9. Recorded'
  BY <1>1, <1>4 DEF IInv, TypeOK, Recorded, Unreaped, Unrecorded
<1>10. Noticed' /\ ClientKnown' /\ NeverBug'
  BY <1>1, <1>4 DEF IInv, Noticed, ClientKnown, NeverBug
<1>11. LaunchCountsSeen'
  <2>1. Unreaped' \subseteq Unreaped /\ \A b : UnreapedOf(b)' \subseteq UnreapedOf(b)
    BY <1>4, <1>5 DEF UnreapedOf
  <2> QED
    BY <1>4, <2>1 DEF IInv, LaunchCountsSeen
<1>12. ServedWithinLimits'
  BY <1>4 DEF IInv, TypeOK, ServedWithinLimits, Serving, OverLimits
<1> QED
  BY <1>7, <1>8, <1>9, <1>10, <1>11, <1>12 DEF IInv

(* The client is counted before its child is forked.                       *)
LEMMA CountSteps ==
  ASSUME IInv, handle_ip_count
  PROVE  IInv'
<1>1. /\ pc = "count" /\ pc' = "fork" /\ client \in Addresses
      /\ s_children' = s_children + 1
      /\ ip_count' = [ip_count EXCEPT ![client] = @ + 1]
      /\ UNCHANGED <<client, pid_ip, pending, alarm, reload_due, child, from, launch>>
  BY DEF handle_ip_count, signals, children, IInv, TypeOK, ClientKnown
<1>2. Unreaped' = Unreaped /\ \A b : UnreapedOf(b)' = UnreapedOf(b)
  BY <1>1 DEF Unreaped, UnreapedOf
<1>3. TypeOK' /\ ClientKnown' /\ NeverBug' /\ Noticed'
  BY <1>1, NoneAssumption DEF IInv, TypeOK, Steps, ClientKnown, NeverBug, Noticed
<1>4. Recorded'
  BY <1>1, <1>2 DEF IInv, Recorded, Unrecorded
<1>5. CountsExact'
  BY <1>1, <1>2, ChildrenFinite DEF IInv, TypeOK, CountsExact
<1>6. LaunchCountsSeen'
  BY <1>1, <1>2 DEF IInv, LaunchCountsSeen
<1>7. ServedWithinLimits'
  BY <1>1 DEF IInv, ServedWithinLimits, Serving, OverLimits
<1> QED
  BY <1>3, <1>4, <1>5, <1>6, <1>7 DEF IInv

(* The client is taken off the counts when the fork fails.                 *)
LEMMA ForkFailSteps ==
  ASSUME IInv, ForkFails
  PROVE  IInv'
<1>1. pc = "fork" /\ client \in Addresses /\ client # None
  BY DEF ForkFails, IInv, TypeOK, ClientKnown
<1>2. /\ s_children = Cardinality(Unreaped) + 1
      /\ ip_count[client] = Cardinality(UnreapedOf(client)) + 1
  BY <1>1 DEF IInv, CountsExact
<1>3. Consistent(client)
  BY <1>1, <1>2, ChildrenFinite DEF Consistent
<1>4. /\ pc' = "accept" /\ client' = None
      /\ s_children' = s_children - 1
      /\ ip_count' = [ip_count EXCEPT ![client] = @ - 1]
      /\ UNCHANGED <<pid_ip, pending, alarm, reload_due, child, from, launch>>
  BY <1>3 DEF ForkFails, signals, children
<1>5. Unreaped' = Unreaped /\ \A b : UnreapedOf(b)' = UnreapedOf(b)
  BY <1>4 DEF Unreaped, UnreapedOf
<1>6. TypeOK'
  BY <1>1, <1>2, <1>4, ChildrenFinite DEF IInv, TypeOK, Steps
<1>7. ClientKnown' /\ NeverBug' /\ Noticed'
  BY <1>1, <1>4 DEF IInv, ClientKnown, NeverBug, Noticed
<1>8. Recorded'
  BY <1>1, <1>4, <1>5 DEF IInv, Recorded, Unrecorded
<1>9. CountsExact'
  BY <1>1, <1>2, <1>4, <1>5, ChildrenFinite, NoneAssumption DEF IInv, TypeOK, CountsExact
<1>10. LaunchCountsSeen'
  BY <1>4, <1>5 DEF IInv, LaunchCountsSeen
<1>11. ServedWithinLimits'
  BY <1>4 DEF IInv, ServedWithinLimits, Serving, OverLimits
<1> QED
  BY <1>6, <1>7, <1>8, <1>9, <1>10, <1>11 DEF IInv

(* The forked child has been counted, and is told so: of the children that *)
(* are there now it is the one that has seen all the others.               *)
LEMMA ForkSteps ==
  ASSUME IInv, NEW p \in Pids, Fork(p)
  PROVE  IInv'
<1> PICK a \in Addresses : a = client
  BY DEF Fork, IInv, TypeOK, ClientKnown
<1>1. /\ pc = "fork" /\ pc' = "record" /\ child[p] = "none" /\ pid_ip[p] = None
      /\ child' = [child EXCEPT ![p] = "new"]
      /\ from' = [from EXCEPT ![p] = a]
      /\ launch' = [launch EXCEPT ![p] = [num_children |-> s_children,
                                          num_this_ip |-> ip_count[a]]]
      /\ UNCHANGED <<client, s_children, ip_count, pid_ip, pending, alarm, reload_due>>
  BY DEF Fork, counts, signals, IInv, Recorded
<1>2. /\ \A q \in Pids : child'[q] = IF q = p THEN "new" ELSE child[q]
      /\ \A q \in Pids : from'[q] = IF q = p THEN a ELSE from[q]
      /\ \A q \in Pids \ {p} : launch'[q] = launch[q]
      /\ launch'[p].num_children = s_children /\ launch'[p].num_this_ip = ip_count[a]
  BY <1>1 DEF IInv, TypeOK
<1>3. /\ Unreaped' = Unreaped \cup {p} /\ p \notin Unreaped
      /\ UnreapedOf(a)' = UnreapedOf(a) \cup {p} /\ p \notin UnreapedOf(a)
      /\ \A b \in Addresses : b # a => UnreapedOf(b)' = UnreapedOf(b)
  <2>1. Unreaped' = Unreaped \cup {p} /\ p \notin Unreaped
    BY <1>1, <1>2 DEF Unreaped
  <2> QED
    BY <1>2, <2>1 DEF UnreapedOf, Unreaped
<1>4. /\ s_children = Cardinality(Unreaped') /\ IsFiniteSet(Unreaped')
      /\ ip_count[a] = Cardinality(UnreapedOf(a)') /\ IsFiniteSet(UnreapedOf(a)')
  <2>1. /\ s_children = Cardinality(Unreaped) + 1
        /\ ip_count[a] = Cardinality(UnreapedOf(a)) + 1
    BY <1>1 DEF IInv, CountsExact
  <2> QED
    BY <1>3, <2>1, ChildrenFinite, FS_AddElement
<1>5. TypeOK'
  BY <1>1 DEF IInv, TypeOK, Steps
<1>6. CountsExact'
  <2>1. ASSUME NEW b \in Addresses
        PROVE  ip_count'[b] = Cardinality(UnreapedOf(b)')
    <3>1. CASE b = a
      BY <1>1, <1>4, <3>1
    <3>2. CASE b # a
      <4>1. UnreapedOf(b)' = UnreapedOf(b) /\ ip_count'[b] = ip_count[b]
        BY <1>1, <1>3, <3>2
      <4> QED
        BY <3>2, <4>1, ChildrenFinite DEF IInv, CountsExact
    <3> QED
      BY <3>1, <3>2
  <2> QED
    BY <1>1, <1>4, <1>5, <2>1 DEF TypeOK, CountsExact
<1>7. Recorded'
  <2>1. \A q \in Pids : Unrecorded(q)' <=> q = p
    BY <1>1, <1>2 DEF Unrecorded, IInv, Recorded
  <2>2. \A q \in Unreaped' : from'[q] # None /\ pid_ip'[q] \in {None, from'[q]}
    BY <1>1, <1>2, <1>3, NoneAssumption DEF IInv, Recorded, Unreaped
  <2>3. \A q \in Pids : child'[q] = "none" => pid_ip'[q] = None
    BY <1>1, <1>2 DEF IInv, Recorded
  <2> QED
    BY <1>1, <1>2, <2>1, <2>2, <2>3 DEF Recorded
<1>8. ClientKnown' /\ NeverBug' /\ Noticed'
  BY <1>1, <1>2 DEF IInv, ClientKnown, NeverBug, Noticed
<1>9. LaunchCountsSeen'
  <2>1. ASSUME NEW S \in SUBSET Unreaped', S # {}
        PROVE  \E q \in S : launch'[q].num_children >= Cardinality(S)
    <3>1. CASE p \in S
      <4>1. Cardinality(S) <= Cardinality(Unreaped') /\ Cardinality(S) \in Nat
        BY <1>4, FS_Subset, FS_CardinalityType
      <4> QED
        BY <1>2, <1>4, <3>1, <4>1 DEF IInv, TypeOK
    <3>2. CASE p \notin S
      <4>1. S \in SUBSET Unreaped
        BY <1>3, <3>2
      <4>2. PICK q \in S : launch[q].num_children >= Cardinality(S)
        BY <2>1, <4>1 DEF IInv, LaunchCountsSeen
      <4>3. launch'[q] = launch[q]
        BY <1>2, <3>2, <4>1 DEF Unreaped
      <4> QED
        BY <4>2, <4>3
    <3> QED
      BY <3>1, <3>2
  <2>2. ASSUME NEW b \in Addresses, NEW S \in SUBSET UnreapedOf(b)', S # {}
        PROVE  \E q \in S : launch'[q].num_this_ip >= Cardinality(S)
    <3>1. CASE p \in S
      <4>1. b = a
        BY <1>3, <3>1 DEF Unreaped, UnreapedOf
      <4>2. Cardinality(S) <= Cardinality(UnreapedOf(a)') /\ Cardinality(S) \in Nat
        BY <1>4, <4>1, FS_Subset, FS_CardinalityType
      <4> QED
        BY <1>2, <1>4, <3>1, <4>2 DEF IInv, TypeOK
    <3>2. CASE p \notin S
      <4>1. S \in SUBSET UnreapedOf(b)
        BY <1>3, <3>2
      <4>2. PICK q \in S : launch[q].num_this_ip >= Cardinality(S)
        BY <2>2, <4>1 DEF IInv, LaunchCountsSeen
      <4>3. launch'[q] = launch[q]
        BY <1>2, <3>2, <4>1 DEF Unreaped, UnreapedOf
      <4> QED
        BY <4>2, <4>3
    <3> QED
      BY <3>1, <3>2
  <2> QED
    BY <2>1, <2>2 DEF LaunchCountsSeen
<1>10. ServedWithinLimits'
  BY <1>2 DEF IInv, ServedWithinLimits, Serving, OverLimits
<1> QED
  BY <1>5, <1>6, <1>7, <1>8, <1>9, <1>10 DEF IInv

(* The process id of the child finds no entry of another.                  *)
LEMMA RecordSteps ==
  ASSUME IInv, Record
  PROVE  IInv'
<1>1. PICK p \in Pids : /\ Unrecorded(p)
                        /\ pid_ip' = [pid_ip EXCEPT ![p] = client]
                        /\ pc = "record" /\ pc' = "accept"
  BY DEF Record, IInv, Recorded
<1>2. UNCHANGED <<s_children, ip_count, pending, alarm, reload_due, child, from, launch>> /\ client' = None
  BY DEF Record, signals, children
<1>3. client \in Addresses /\ from[p] = client
  BY <1>1 DEF IInv, TypeOK, ClientKnown, Recorded
<1>4. Unreaped' = Unreaped /\ \A b : UnreapedOf(b)' = UnreapedOf(b)
  BY <1>2 DEF Unreaped, UnreapedOf
<1>5. TypeOK' /\ ClientKnown' /\ NeverBug' /\ Noticed'
  BY <1>1, <1>2, <1>3 DEF IInv, TypeOK, Steps, ClientKnown, NeverBug, Noticed
<1>6. Recorded'
  <2>1. \A q \in Pids : pid_ip'[q] = IF q = p THEN from[p] ELSE pid_ip[q]
    BY <1>1, <1>3 DEF IInv, TypeOK
  <2>2. \A q \in Pids : ~Unrecorded(q)'
    BY <1>1, <1>2, <2>1 DEF IInv, Recorded, Unrecorded, Unreaped
  <2> QED
    BY <1>1, <1>2, <1>4, <2>1, <2>2 DEF IInv, Recorded, Unrecorded, Unreaped
<1>7. CountsExact'
  BY <1>1, <1>2, <1>4 DEF IInv, CountsExact
<1>8. LaunchCountsSeen'
  BY <1>2, <1>4 DEF IInv, LaunchCountsSeen
<1>9. ServedWithinLimits'
  BY <1>2 DEF IInv, ServedWithinLimits, Serving, OverLimits
<1> QED
  BY <1>5, <1>6, <1>7, <1>8, <1>9 DEF IInv

-----------------------------------------------------------------------------
(* One step for each action.                                               *)
LEMMA NextIInv == IInv /\ [Next]_vars => IInv'
<1> SUFFICES ASSUME IInv, [Next]_vars PROVE IInv'
  OBVIOUS
<1>1. ASSUME NEW p \in Pids, ReapOne(p) PROVE IInv'
  BY <1>1, ReapSteps
<1>2. ASSUME NEW p \in Pids, Fork(p) PROVE IInv'
  BY <1>2, ForkSteps
<1>3. CASE UNCHANGED vars
  <2>1. Unreaped' = Unreaped /\ \A a : UnreapedOf(a)' = UnreapedOf(a)
    BY <1>3 DEF Unreaped, UnreapedOf, vars, children
  <2>2. Recorded' /\ CountsExact' /\ LaunchCountsSeen'
    BY <1>3, BooksUntouched DEF IInv, vars, children
  <2>3. TypeOK' /\ ClientKnown' /\ NeverBug' /\ Noticed'
    BY <1>3 DEF IInv, TypeOK, ClientKnown, NeverBug, Noticed, vars, counts, signals, children
  <2>4. ServedWithinLimits'
    BY <1>3 DEF IInv, ServedWithinLimits, Serving, OverLimits, vars, children
  <2> QED
    BY <2>2, <2>3, <2>4 DEF IInv
<1> QED
  BY <1>1, <1>2, <1>3, EnvironmentSteps, ListenerSteps, CountSteps, ForkFailSteps, RecordSteps
  DEF Next, Check, Launch

(* The invariant holds always.                                             *)
LEMMA AlwaysIInv == Spec => []IInv
BY InitIInv, NextIInv, PTL DEF Spec

(* If more than the limit were served, the one of them that was told of    *)
(* them all would have been refused.                                       *)
LEMMA IInvWithinLimits == IInv => WithinLimits
<1> SUFFICES ASSUME IInv PROVE WithinLimits
  OBVIOUS
<1>1. Serving \subseteq Unreaped
  BY DEF Serving, Unreaped
<1>2. ASSUME max_clients > 0 PROVE Cardinality(Serving) <= max_clients
  <2>1. CASE Serving = {}
    BY <2>1, FS_EmptySet, LimitsAssumption
  <2>2. CASE Serving # {}
    <3>1. PICK p \in Serving : launch[p].num_children >= Cardinality(Serving)
      BY <1>1, <2>2 DEF IInv, LaunchCountsSeen
    <3>2. ~(launch[p].num_children > max_clients) /\ launch[p].num_children \in Nat
      BY <1>2 DEF IInv, TypeOK, ServedWithinLimits, OverLimits, Serving
    <3>3. Cardinality(Serving) \in Nat
      BY <1>1, ChildrenFinite, FS_Subset, FS_CardinalityType
    <3> QED
      BY <3>1, <3>2, <3>3, LimitsAssumption
  <2> QED
    BY <2>1, <2>2
<1>3. ASSUME max_per_ip > 0, NEW a \in Addresses
      PROVE  Cardinality({p \in Serving : from[p] = a}) <= max_per_ip
  <2> DEFINE S == {p \in Serving : from[p] = a}
  <2>1. S \subseteq UnreapedOf(a)
    BY <1>1 DEF UnreapedOf
  <2>2. CASE S = {}
    BY <2>2, FS_EmptySet, LimitsAssumption
  <2>3. CASE S # {}
    <3>1. PICK p \in S : launch[p].num_this_ip >= Cardinality(S)
      BY <2>1, <2>3 DEF IInv, LaunchCountsSeen
    <3>2. ~(launch[p].num_this_ip > max_per_ip) /\ launch[p].num_this_ip \in Nat
      BY <1>3 DEF IInv, TypeOK, ServedWithinLimits, OverLimits, Serving
    <3>3. Cardinality(S) \in Nat
      BY <2>1, ChildrenFinite, FS_Subset, FS_CardinalityType
    <3> QED
      BY <3>1, <3>2, <3>3, LimitsAssumption
  <2> QED
    BY <2>2, <2>3
<1> QED
  BY <1>2, <1>3 DEF WithinLimits

-----------------------------------------------------------------------------
(* The listener's counters and its table of addresses agree with the       *)
(* children that exist at every step between two signals, forks and exits  *)
(* (s_children, handle_ip_count and handle_sigchld of standalone.c).       *)
THEOREM CountsAlwaysExact == Spec => []CountsExact
BY AlwaysIInv, PTL DEF IInv

(* handle_sigchld and the hash tables never meet a missing or duplicate    *)
(* entry, so bug() is not called.                                          *)
THEOREM BugNeverCalled == Spec => []NeverBug
BY AlwaysIInv, PTL DEF IInv

(* max_clients and max_per_ip hold for the sessions served at any moment,  *)
(* though check_limits (prelogin.c) looks once, at old counts.             *)
THEOREM LimitsAlwaysKept == Spec => []WithinLimits
BY AlwaysIInv, IInvWithinLimits, PTL

(* No zombie is left behind by an accept() that sleeps: its SIGCHLD is     *)
(* pending and the alarm of sysutil.c runs.                                *)
THEOREM ExitsAlwaysNoticed == Spec => []ExitsNoticed
<1>1. IInv => ExitsNoticed
  BY DEF IInv, Noticed, ExitsNoticed
<1> QED
  BY <1>1, AlwaysIInv, PTL

(* Type correctness.                                                       *)
THEOREM AlwaysTypeOK == Spec => []TypeOK
BY AlwaysIInv, PTL DEF IInv
=============================================================================

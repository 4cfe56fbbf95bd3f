------------------------ MODULE FlyingTransfersProofs -----------------------
(***************************************************************************)
(* Theorems about FlyingTransfers, for every set of transfers and handles, *)
(* all timeouts, any MaxTime, with and without a second thread.            *)
(*                                                                         *)
(* The invariant says where a transfer can be (Life), that the backend has *)
(* accepted a cancellation for as long as its URB is on its way back or    *)
(* the event handler has not told (Cancellation), that a timeout which was *)
(* accepted is marked TIMED_OUT before flying_transfers_lock is released   *)
(* (Timing), so that usbi_handle_transfer_cancellation, which takes the    *)
(* lock, finds the mark (Verdict), and that the list and the timerfd are   *)
(* right (List, Armed).                                                    *)
(***************************************************************************)
EXTENDS FlyingTransfers, FiniteSetTheorems, SequenceTheorems, TLAPS

-----------------------------------------------------------------------------
(* Short names.                                                            *)
f == flying_transfers
handlerAt == pc["handler"]

(* What the list should hold: from the start of a submission until it has  *)
(* failed or remove_from_flying_list has taken the completed transfer      *)
(* out.                                                                    *)
Listed(t) == \/ submit[t] # "idle"
             \/ t \in in_flight /\ ~(handlerAt = "clear" /\ cur["handler"] = t)

(* ListExact by its parts.                                                 *)
Once   == \A i, j \in 1 .. Len(f) : f[i] = f[j] => i = j
Only   == \A i \in 1 .. Len(f) : Listed(f[i])
Every  == \A t \in Transfers : Listed(t) => \E i \in 1 .. Len(f) : f[i] = t
Sorted == \A i, j \in 1 .. Len(f) :
            i < j => timeout[f[j]] = 0 \/ (timeout[f[i]] # 0 /\ timeout[f[i]] <= timeout[f[j]])
List == Once /\ Only /\ Every /\ Sorted

(* The types of what the list consists of.                                 *)
ListType == /\ f \in Seq(Transfers) /\ timeout \in [Transfers -> 0 .. MaxTime]
            /\ timerfd \in 0 .. MaxTime

(* TimerArmed, which holds under the lock as well.                         *)
Armed ==
  \A i \in 1 .. Len(f) :
    timeout[f[i]] # 0 /\ f[i] \notin handled =>
      (timerfd # 0 /\ timerfd <= timeout[f[i]]) \/ f[1] \in handled

-----------------------------------------------------------------------------
(* Where the event handler is with a transfer.                             *)
Completing(t)  == handlerAt \in {"readTimedOut", "remove", "clear"} /\ cur["handler"] = t
CallingBack(t) == handlerAt = "callback" /\ cur["handler"] = t
ToTell(t)      == handlerAt \in {"remove", "clear", "callback"} /\ cur["handler"] = t

(* A cancellation has been accepted and usbi_handle_transfer_cancellation  *)
(* has not looked who asked for it.                                        *)
Cancelled(t)   == urb[t] = "discarded" \/ (handlerAt = "readTimedOut" /\ cur["handler"] = t)

(* handle_timeout has cancelled the transfer and is about to mark it.      *)
Marking(p, t)  == pc[p] = "mark" /\ cur[p] = t

(* Who holds the lock and what each thread works on.                       *)
Threads ==
  /\ \A p \in Pollers : flying_lock = p <=> pc[p] \in {"scan", "mark"}
  /\ \A p \in Pollers : pc[p] = "mark" => cur[p] \in Transfers
  /\ handlerAt \in {"readTimedOut", "remove", "clear", "callback"} => cur["handler"] \in Transfers
  /\ handlerAt = "disconnect" => leaving # None
  /\ handlerAt \in {"idle", "scan", "mark", "readTimedOut"} => leaving = None
  /\ \A p \in Pollers : systime[p] <= now

(* A transfer is submitted, or in flight, or being called back, never two  *)
(* of them; its URB is with the kernel only while one of the first two is  *)
(* true.                                                                   *)
Life ==
  \A t \in Transfers :
    /\ submit[t] # "idle" => t \notin in_flight /\ ~CallingBack(t)
    /\ urb[t] # "none" => (submit[t] = "submitted" \/ t \in in_flight) /\ ~Completing(t)
    /\ submit[t] = "submitted" => urb[t] # "none"
    /\ Completing(t) => t \in in_flight
    /\ CallingBack(t) => t \notin in_flight
    /\ t \in in_flight => status[t] = "none"

(* The backend accepts one cancellation of each submission, and only       *)
(* while the URB is pending.                                               *)
Cancellation ==
  \A t \in Transfers :
    /\ t \in in_flight /\ accepted[t] # "none" => t \in cancelling
    /\ urb[t] \in {"pending", "done", "lost"} /\ t \in in_flight => accepted[t] = "none"
    /\ urb[t] = "discarded" => t \in in_flight
    /\ Cancelled(t) => accepted[t] # "none"

(* TIMED_OUT is marked, or about to be, exactly for those cancelled by     *)
(* their timeout, which is over.                                           *)
Timing ==
  \A t \in Transfers :
    /\ \A p \in Pollers : Marking(p, t) =>
         t \in in_flight /\ accepted[t] = "timer" /\ timeout[t] \in 1 .. now /\ Cancelled(t)
    /\ t \in timed_out => submit[t] = "idle" /\ accepted[t] = "timer" /\ timeout[t] \in 1 .. now
    /\ accepted[t] = "timer" /\ Cancelled(t) =>
         t \in timed_out \/ \E p \in Pollers : Marking(p, t)

(* What a result may be, given who cancelled.                              *)
Told(t, r) ==
  /\ r = "TIMED_OUT" => accepted[t] = "timer"
  /\ r = "CANCELLED" => accepted[t] = "user"
  /\ accepted[t] # "none" => r \in {"TIMED_OUT", "CANCELLED", "NO_DEVICE"}
Verdict ==
  \A t \in Transfers :
    /\ ToTell(t) => Told(t, result)
    /\ status[t] # "none" => Told(t, status[t])

(* The inductive invariant.                                                *)
IInv == /\ TypeOK /\ List /\ Armed
        /\ Threads /\ Life /\ Cancellation /\ Timing /\ Verdict
        /\ NoneLeftBehind

-----------------------------------------------------------------------------
(* The parts are ListExact.                                                *)
LEMMA ListIsExact ==
  ASSUME f \in Seq(Transfers)
  PROVE  List <=> ListExact
<1>1. DOMAIN f = 1 .. Len(f) /\ \A i \in 1 .. Len(f) : f[i] \in Transfers
  OBVIOUS
<1>2. Once <=> IsInjective(f)
  BY <1>1 DEF Once, IsInjective
<1>3. Only /\ Every <=> ToSet(f) = {t \in Transfers : Listed(t)}
  BY <1>1 DEF Only, Every, ToSet
<1>4. Sorted <=> \A i, j \in DOMAIN f :
                   LET a == timeout[f[i]]
                       b == timeout[f[j]]
                   IN  i < j => b = 0 \/ (a # 0 /\ a <= b)
  BY <1>1 DEF Sorted
<1> QED BY <1>2, <1>3, <1>4 DEF List, ListExact, Listed, f, handlerAt

(* A set of numbers has a least one, which Min finds.                      *)
LEMMA LeastOf ==
  ASSUME NEW S \in SUBSET Nat, S # {}
  PROVE  Min(S) \in S /\ \A m \in S : Min(S) <= m
<1> DEFINE T == {0 .. k : k \in S}
<1>1. IsWellFoundedOn(StrictSubsetOrdering(Nat), FiniteSubsetsOf(Nat))
  BY FS_StrictSubsetOrderingWellFounded
<1>2. T \subseteq FiniteSubsetsOf(Nat) /\ T # {}
  <2>1. ASSUME NEW k \in S PROVE 0 .. k \in FiniteSubsetsOf(Nat)
    <3>1. k \in Int /\ 0 \in Int
      OBVIOUS
    <3>2. IsFiniteSet(0 .. k)
      BY <3>1, FS_Interval
    <3>3. 0 .. k \in SUBSET Nat
      OBVIOUS
    <3> QED BY <3>2, <3>3 DEF FiniteSubsetsOf
  <2> QED BY <2>1
<1>3. PICK x \in T : \A y \in T : <<y, x>> \notin StrictSubsetOrdering(Nat)
  <2> HIDE DEF T
  <2> QED BY <1>1, <1>2, WFMin
<1>4. PICK k \in S : x = 0 .. k
  OBVIOUS
<1>5. ASSUME NEW m \in S, m < k PROVE FALSE
  <2>1. 0 .. m \subseteq 0 .. k /\ 0 .. m # 0 .. k
    <3>1. k \in 0 .. k /\ k \notin 0 .. m
      BY <1>5
    <3> QED BY <1>5, <3>1
  <2>2. 0 .. m \in T /\ 0 .. m \in SUBSET Nat /\ 0 .. k \in SUBSET Nat
    BY <1>5
  <2> QED BY <2>1, <2>2, <1>3, <1>4 DEF StrictSubsetOrdering
<1>6. \A m \in S : k <= m
  BY <1>5
<1> QED BY <1>6 DEF Min

(* A sequence without one of its elements.                                 *)
LEMMA RemoveAtProperties ==
  ASSUME NEW T, NEW s \in Seq(T), NEW i \in 1 .. Len(s)
  PROVE  /\ RemoveAt(s, i) \in Seq(T) /\ Len(RemoveAt(s, i)) = Len(s) - 1
         /\ \A j \in 1 .. Len(s) - 1 : RemoveAt(s, i)[j] = IF j < i THEN s[j] ELSE s[j + 1]
<1> DEFINE a == SubSeq(s, 1, i-1)
           b == SubSeq(s, i+1, Len(s))
<1>1. a \in Seq(T) /\ Len(a) = i-1 /\ \A j \in 1 .. i-1 : a[j] = s[j]
  OBVIOUS
<1>2. b \in Seq(T) /\ Len(b) = Len(s)-i /\ \A j \in 1 .. Len(s)-i : b[j] = s[j+i]
  OBVIOUS
<1>3. RemoveAt(s, i) = a \o b
  BY DEF RemoveAt
<1> HIDE DEF a, b
<1>4. /\ a \o b \in Seq(T) /\ Len(a \o b) = Len(a) + Len(b)
      /\ \A j \in 1 .. Len(a) + Len(b) : (a \o b)[j] = IF j <= Len(a) THEN a[j] ELSE b[j - Len(a)]
  BY <1>1, <1>2, ConcatProperties
<1>5. Len(s) \in Nat /\ Len(a) + Len(b) = Len(s) - 1
  BY <1>1, <1>2
<1>6. ASSUME NEW j \in 1 .. Len(s)-1
      PROVE  (a \o b)[j] = IF j < i THEN s[j] ELSE s[j+1]
  <2>1. CASE j < i
    BY <2>1, <1>1, <1>4, <1>5
  <2>2. CASE j >= i
    <3>1. j - (i-1) \in 1 .. Len(s)-i /\ j - (i-1) + i = j + 1
      BY <2>2, <1>5
    <3>2. (a \o b)[j] = b[j - (i-1)]
      BY <2>2, <1>1, <1>4, <1>5
    <3>3. ~(j < i)
      BY <2>2, <1>5
    <3> QED BY <3>1, <3>2, <3>3, <1>2
  <2> QED BY <2>1, <2>2, <1>5
<1> QED BY <1>3, <1>4, <1>5, <1>6

(* A sequence with one more.                                               *)
LEMMA InsertAtProperties ==
  ASSUME NEW T, NEW s \in Seq(T), NEW i \in 1 .. Len(s) + 1, NEW e \in T
  PROVE  /\ InsertAt(s, i, e) \in Seq(T) /\ Len(InsertAt(s, i, e)) = Len(s) + 1
         /\ \A j \in 1 .. Len(s) + 1 :
              InsertAt(s, i, e)[j] = IF j < i THEN s[j] ELSE IF j = i THEN e ELSE s[j - 1]
<1> DEFINE a == SubSeq(s, 1, i-1)
           b == SubSeq(s, i, Len(s))
           c == a \o <<e>>
<1>1. a \in Seq(T) /\ Len(a) = i-1 /\ \A j \in 1 .. i-1 : a[j] = s[j]
  OBVIOUS
<1>2. b \in Seq(T) /\ Len(b) = Len(s)-i+1 /\ \A j \in 1 .. Len(s)-i+1 : b[j] = s[j+i-1]
  OBVIOUS
<1>3. InsertAt(s, i, e) = c \o b
  BY DEF InsertAt
<1>4. c = Append(a, e)
  BY <1>1, AppendIsConcat
<1> HIDE DEF a, b
<1>5. c \in Seq(T) /\ Len(c) = i /\ c[i] = e /\ \A j \in 1 .. i-1 : c[j] = s[j]
  BY <1>4, <1>1, AppendProperties
<1> HIDE DEF c
<1>6. /\ c \o b \in Seq(T) /\ Len(c \o b) = Len(c) + Len(b)
      /\ \A j \in 1 .. Len(c) + Len(b) : (c \o b)[j] = IF j <= Len(c) THEN c[j] ELSE b[j - Len(c)]
  BY <1>5, <1>2, ConcatProperties
<1>7. Len(s) \in Nat /\ Len(c) + Len(b) = Len(s) + 1
  BY <1>5, <1>2
<1>8. ASSUME NEW j \in 1 .. Len(s)+1
      PROVE  (c \o b)[j] = IF j < i THEN s[j] ELSE IF j = i THEN e ELSE s[j-1]
  <2>1. CASE j <= i
    BY <2>1, <1>5, <1>6, <1>7
  <2>2. CASE j > i
    <3>1. j - i \in 1 .. Len(s)-i+1 /\ j - i + i - 1 = j - 1
      BY <2>2, <1>7
    <3>2. (c \o b)[j] = b[j - i]
      BY <2>2, <1>5, <1>6, <1>7
    <3>3. b[j - i] = s[j - i + i - 1]
      BY <3>1, <1>2
    <3>4. ~(j < i) /\ j # i
      BY <2>2, <1>7
    <3> QED BY <3>1, <3>2, <3>3, <3>4
  <2> QED BY <2>1, <2>2, <1>7
<1> QED BY <1>3, <1>6, <1>7, <1>8

(* arm_timerfd_for_next_timeout arms for the first that is not handled,    *)
(* or disarms when all are.                                                *)
LEMMA NextToTimeOut ==
  ASSUME NEW l \in Seq(Transfers), arm_timerfd_for_next_timeout(l)
  PROVE  \/ /\ timerfd' = 0
            /\ \A j \in 1 .. Len(l) : l[j] \in handled /\ timeout[l[j]] # 0
         \/ \E k \in 1 .. Len(l) :
              /\ timerfd' = timeout[l[k]]
              /\ l[k] \notin handled \/ timeout[l[k]] = 0
              /\ \A j \in 1 .. k - 1 : l[j] \in handled /\ timeout[l[j]] # 0
<1> DEFINE I == {i \in 1 .. Len(l) : l[i] \notin handled \/ timeout[l[i]] = 0}
           next == IF I # {} THEN Min(I) ELSE 0
<1>1. timerfd' = IF next = 0 THEN 0 ELSE timeout[l[next]]
  BY DEF arm_timerfd_for_next_timeout, SelectInSeq
<1>2. CASE I = {}
  BY <1>1, <1>2
<1>3. CASE I # {}
  <2>1. Min(I) \in I /\ \A m \in I : Min(I) <= m
    <3>1. I \in SUBSET Nat
      OBVIOUS
    <3> QED BY <3>1, <1>3, LeastOf
  <2>2. PICK k \in 1 .. Len(l) : k = Min(I)
    BY <2>1
  <2>3. next = k /\ k # 0
    BY <2>2, <1>3
  <2>4. k \in I /\ \A j \in 1 .. k - 1 : j \notin I /\ j \in 1 .. Len(l)
    <3>1. \A j \in 1 .. k - 1 : ~(k <= j) /\ j \in 1 .. Len(l)
      BY <2>2
    <3> HIDE DEF I
    <3> QED BY <3>1, <2>1, <2>2
  <2>5. timerfd' = timeout[l[k]]
    BY <2>3, <1>1
  <2> QED BY <2>4, <2>5
<1> QED BY <1>2, <1>3

(* add_to_flying_list stops before the first that times out later, or      *)
(* never.                                                                  *)
LEMMA PlaceProperties ==
  ASSUME f \in Seq(Transfers), NEW tv \in Nat, timeout \in [Transfers -> Nat]
  PROVE  /\ Place(tv) \in 1 .. Len(f) + 1
         /\ tv = 0 => Place(tv) = Len(f) + 1
         /\ tv # 0 => \A j \in 1 .. Place(tv) - 1 : timeout[f[j]] # 0 /\ timeout[f[j]] <= tv
         /\ Place(tv) <= Len(f) => timeout[f[Place(tv)]] = 0 \/ timeout[f[Place(tv)]] > tv
<1> DEFINE I == {i \in 1 .. Len(f) : timeout[f[i]] = 0 \/ timeout[f[i]] > tv}
           later == IF I # {} THEN Min(I) ELSE 0
<1>1. Place(tv) = IF tv = 0 \/ later = 0 THEN Len(f) + 1 ELSE later
  BY DEF Place, SelectInSeq, f
<1>0. Len(f) \in Nat /\ \A i \in 1 .. Len(f) : timeout[f[i]] \in Nat
  OBVIOUS
<1>2. CASE I = {}
  BY <1>0, <1>1, <1>2
<1>3. CASE I # {}
  <2>1. Min(I) \in I /\ \A m \in I : Min(I) <= m
    <3>1. I \in SUBSET Nat
      OBVIOUS
    <3> QED BY <3>1, <1>3, LeastOf
  <2>2. PICK k \in 1 .. Len(f) : k = Min(I)
    BY <2>1
  <2>3. later = k /\ k # 0
    BY <2>2, <1>3
  <2>4. k \in I /\ \A j \in 1 .. k - 1 : j \notin I /\ j \in 1 .. Len(f)
    <3>1. \A j \in 1 .. k - 1 : ~(k <= j) /\ j \in 1 .. Len(f)
      BY <2>2
    <3> HIDE DEF I
    <3> QED BY <3>1, <2>1, <2>2
  <2>5. Place(tv) = IF tv = 0 THEN Len(f) + 1 ELSE k
    BY <2>3, <1>1
  <2> HIDE DEF later
  <2> QED BY <2>4, <2>5, <1>0
<1> QED BY <1>2, <1>3

-----------------------------------------------------------------------------
(* What leaves the list alone.                                             *)
LEMMA ListAlone ==
  ASSUME f \in Seq(Transfers), UNCHANGED <<flying_transfers, timeout>>, List,
         \A u \in Transfers : Listed(u)' <=> Listed(u)
  PROVE  List'
<1>1. /\ f' = f /\ Len(f) \in Nat
      /\ \A i \in 1 .. Len(f) : f[i] \in Transfers
  BY DEF f
<1> QED BY <1>1 DEF List, Once, Only, Every, Sorted

(* The same for the timerfd.                                               *)
LEMMA ArmedAlone ==
  ASSUME UNCHANGED <<list, handled>>, Armed
  PROVE  Armed'
<1>1. f' = f /\ timeout' = timeout /\ timerfd' = timerfd /\ handled' = handled
  BY DEF f, list
<1> QED BY <1>1 DEF Armed

(* add_to_flying_list keeps the list sorted and the timerfd armed for the  *)
(* first of it.                                                            *)
LEMMA AddedToList ==
  ASSUME ListType, List, NEW t \in Transfers, NEW tv \in 0 .. MaxTime, ~Listed(t),
         add_to_flying_list(t, tv),
         \A u \in Transfers : Listed(u)' <=> Listed(u) \/ u = t
  PROVE  /\ ListType' /\ List'
         /\ Armed /\ handled' = handled \ {t} => Armed'
<1> DEFINE p == Place(tv)
<1>0. /\ MaxTime \in Nat /\ tv \in Nat
      /\ timeout \in [Transfers -> Nat] /\ Len(f) \in Nat
      /\ f \in Seq(Transfers) /\ timerfd \in Nat
      /\ \A i \in 1 .. Len(f) : f[i] \in Transfers /\ timeout[f[i]] \in Nat
  BY MaxTimeAssumption DEF ListType
<1>1. /\ p \in 1 .. Len(f) + 1
      /\ tv = 0 => p = Len(f) + 1
      /\ tv # 0 => \A j \in 1 .. p - 1 : timeout[f[j]] # 0 /\ timeout[f[j]] <= tv
      /\ p <= Len(f) => timeout[f[p]] = 0 \/ timeout[f[p]] > tv
  BY <1>0, PlaceProperties
<1>2. f' = InsertAt(f, p, t) /\ timeout' = [timeout EXCEPT ![t] = tv]
      /\ timerfd' = IF p = 1 /\ tv # 0 THEN tv ELSE timerfd
  BY DEF add_to_flying_list, f
<1> HIDE DEF p
<1>3. /\ f' \in Seq(Transfers) /\ Len(f') = Len(f) + 1
      /\ \A j \in 1 .. Len(f) + 1 :
           f'[j] = IF j < p THEN f[j] ELSE IF j = p THEN t ELSE f[j - 1]
  <2>1. /\ InsertAt(f, p, t) \in Seq(Transfers) /\ Len(InsertAt(f, p, t)) = Len(f) + 1
        /\ \A j \in 1 .. Len(f) + 1 :
             InsertAt(f, p, t)[j] = IF j < p THEN f[j] ELSE IF j = p THEN t ELSE f[j - 1]
    BY <1>0, <1>1, InsertAtProperties
  <2> QED BY <2>1, <1>2
<1>4. \A i \in 1 .. Len(f) : f[i] # t
  BY DEF List, Only
<1>5. ListType'
  BY <1>2, <1>3, <1>0 DEF ListType
<1>6. /\ timeout'[t] = tv
      /\ \A u \in Transfers : u # t => timeout'[u] = timeout[u]
      /\ \A i \in 1 .. Len(f) : timeout'[f[i]] = timeout[f[i]]
  BY <1>2, <1>4, <1>0
<1>7. \A j \in 1 .. Len(f) + 1 :
        \/ j < p /\ j \in 1 .. Len(f) /\ f'[j] = f[j]
        \/ j = p /\ f'[j] = t
        \/ j > p /\ j - 1 \in 1 .. Len(f) /\ j - 1 >= p /\ f'[j] = f[j - 1]
  <2> SUFFICES ASSUME NEW j \in 1 .. Len(f) + 1
               PROVE  \/ j < p /\ j \in 1 .. Len(f) /\ f'[j] = f[j]
                      \/ j = p /\ f'[j] = t
                      \/ j > p /\ j - 1 \in 1 .. Len(f) /\ j - 1 >= p /\ f'[j] = f[j - 1]
    OBVIOUS
  <2>1. f'[j] = IF j < p THEN f[j] ELSE IF j = p THEN t ELSE f[j - 1]
    BY <1>3
  <2>2. j \in Nat /\ p \in Nat /\ 1 <= j /\ j <= Len(f) + 1 /\ 1 <= p /\ p <= Len(f) + 1
    BY <1>0, <1>1
  <2> QED BY <2>1, <2>2, <1>0
<1>8. Once'
  <2> SUFFICES ASSUME NEW i \in 1 .. Len(f) + 1, NEW j \in 1 .. Len(f) + 1, f'[i] = f'[j]
               PROVE  i = j
    BY <1>3 DEF Once
  <2>0. p \in Nat /\ i \in Nat /\ j \in Nat
    BY <1>0, <1>1
  <2>1. i = p <=> j = p
    <3>1. \A k \in 1 .. Len(f) + 1 : f'[k] = t => k = p
      BY <1>4, <1>7
    <3>2. f'[p] = t
      BY <1>1, <1>7, <1>0
    <3> QED BY <3>1, <3>2
  <2>2. CASE i = p
    BY <2>1, <2>2
  <2>3. CASE i # p
    <3>1. \A k, m \in 1 .. Len(f) : f[k] = f[m] => k = m
      BY DEF List, Once
    <3>2. PICK k \in 1 .. Len(f) : f'[i] = f[k] /\ ((i < p /\ k = i) \/ (i > p /\ k = i - 1 /\ k >= p))
      BY <2>3, <1>7
    <3>3. j # p
      BY <2>1, <2>3
    <3>4. PICK m \in 1 .. Len(f) : f'[j] = f[m] /\ ((j < p /\ m = j) \/ (j > p /\ m = j - 1 /\ m >= p))
      BY <3>3, <1>7
    <3>5. k = m
      BY <3>1, <3>2, <3>4
    <3> QED BY <3>2, <3>4, <3>5, <2>0
  <2> QED BY <2>2, <2>3
<1>9. Only'
  <2> SUFFICES ASSUME NEW i \in 1 .. Len(f) + 1 PROVE Listed(f[i])'
    BY <1>3 DEF Only
  <2>1. PICK u \in Transfers : u = f'[i] /\ (u = t \/ Listed(u))
    <3>1. CASE f'[i] = t
      BY <3>1
    <3>2. CASE f'[i] # t
      <4>1. PICK k \in 1 .. Len(f) : f'[i] = f[k]
        BY <3>2, <1>7
      <4>2. f[k] \in Transfers /\ Listed(f[k])
        BY <1>0 DEF List, Only
      <4> QED BY <4>1, <4>2
    <3> QED BY <3>1, <3>2
  <2>2. Listed(u)'
    BY <2>1
  <2> QED BY <2>1, <2>2
<1>10. Every'
  <2> SUFFICES ASSUME NEW u \in Transfers, Listed(u)'
               PROVE  \E i \in 1 .. Len(f) + 1 : f'[i] = u
    BY <1>3 DEF Every
  <2>1. CASE u = t
    <3>1. p \in 1 .. Len(f) + 1 /\ f'[p] = t
      BY <1>1, <1>7, <1>0
    <3> QED BY <3>1, <2>1
  <2>2. CASE u # t
    <3>1. PICK i \in 1 .. Len(f) : f[i] = u
      BY <2>2 DEF List, Every
    <3>2. CASE i < p
      <4>1. i \in 1 .. Len(f) + 1
        BY <1>0
      <4>2. f'[i] = f[i]
        BY <3>2, <4>1, <1>3
      <4> QED BY <4>1, <4>2, <3>1
    <3>3. CASE i >= p
      <4>1. i + 1 \in 1 .. Len(f) + 1 /\ i + 1 - 1 = i /\ ~(i + 1 < p) /\ i + 1 # p
        BY <3>3, <1>0, <1>1
      <4>2. f'[i + 1] = f[i]
        BY <4>1, <1>3
      <4> QED BY <4>1, <4>2, <3>1
    <3> QED BY <3>2, <3>3, <1>0, <1>1
  <2> QED BY <2>1, <2>2
<1>s. \A i, j \in 1 .. Len(f) :
        i < j => timeout[f[j]] = 0 \/ (timeout[f[i]] # 0 /\ timeout[f[i]] <= timeout[f[j]])
  BY DEF List, Sorted
<1>11. Sorted'
  <2> SUFFICES ASSUME NEW i \in 1 .. Len(f) + 1, NEW j \in 1 .. Len(f) + 1, i < j
               PROVE  timeout'[f'[j]] = 0
                      \/ (timeout'[f'[i]] # 0 /\ timeout'[f'[i]] <= timeout'[f'[j]])
    BY <1>3 DEF Sorted
  <2>1. CASE j < p
    <3>1. i \in 1 .. Len(f) /\ j \in 1 .. Len(f) /\ f'[i] = f[i] /\ f'[j] = f[j]
      BY <2>1, <1>7, <1>0, <1>1
    <3> QED BY <3>1, <1>6, <1>s
  <2>2. CASE j = p
    <3>1. i \in 1 .. p - 1 /\ i \in 1 .. Len(f) /\ f'[i] = f[i] /\ f'[j] = t
      BY <2>2, <1>7, <1>0, <1>1
    <3> QED BY <3>1, <1>6, <1>1
  <2>3. CASE j > p
    <3>0. p \in Nat /\ i \in Nat /\ j \in Nat /\ j # p /\ ~(j < p)
      BY <2>3, <1>0, <1>1
    <3>1. j - 1 \in 1 .. Len(f) /\ j - 1 >= p /\ f'[j] = f[j - 1]
      BY <3>0, <1>7
    <3>2. CASE i < p
      <4>1. i \in 1 .. Len(f) /\ f'[i] = f[i] /\ i < j - 1
        BY <3>1, <3>2, <1>7, <1>0, <1>1
      <4> QED BY <4>1, <3>1, <1>6, <1>s
    <3>3. CASE i = p
      <4>1. p \in 1 .. Len(f) /\ tv # 0 /\ f'[i] = t
        BY <3>1, <3>3, <1>7, <1>0, <1>1
      <4>3. timeout[f[j - 1]] \in Nat /\ timeout[f[p]] \in Nat
        BY <3>1, <4>1, <1>0
      <4>4. timeout[f[p]] = 0 \/ timeout[f[p]] > tv
        BY <1>1, <4>1
      <4>5. p = j - 1 \/ p < j - 1
        BY <3>0, <3>1
      <4>6. p < j - 1 => timeout[f[j - 1]] = 0
                         \/ (timeout[f[p]] # 0 /\ timeout[f[p]] <= timeout[f[j - 1]])
        BY <4>1, <3>1, <1>s
      <4>7. timeout[f[j - 1]] = 0 \/ timeout[f[j - 1]] > tv
        BY <4>3, <4>4, <4>5, <4>6, <1>0
      <4> QED BY <4>1, <4>3, <4>7, <3>1, <1>6, <1>0
    <3>4. CASE i > p
      <4>1. i - 1 \in 1 .. Len(f) /\ f'[i] = f[i - 1] /\ i - 1 < j - 1
        BY <3>1, <3>4, <1>7, <1>0, <1>1
      <4> QED BY <4>1, <3>1, <1>6, <1>s
    <3> QED BY <3>2, <3>3, <3>4, <1>0, <1>1
  <2> QED BY <2>1, <2>2, <2>3, <1>0, <1>1
<1>12. ASSUME Armed, handled' = handled \ {t} PROVE Armed'
  <2> SUFFICES ASSUME NEW i \in 1 .. Len(f) + 1, timeout'[f'[i]] # 0, f'[i] \notin handled'
               PROVE  (timerfd' # 0 /\ timerfd' <= timeout'[f'[i]]) \/ f'[1] \in handled'
    BY <1>3 DEF Armed
  <2>1. CASE p = 1
    <3>1. CASE tv # 0
      <4>1. timerfd' = tv /\ f'[1] = t /\ timeout'[t] = tv
        <5>1. timerfd' = tv /\ timeout'[t] = tv
          BY <2>1, <3>1, <1>2, <1>6
        <5>2. 1 \in 1 .. Len(f) + 1 /\ ~(1 < p)
          BY <2>1, <1>0
        <5> QED BY <5>1, <5>2, <2>1, <1>3
      <4>2. CASE i = 1
        BY <4>1, <4>2, <3>1, <1>0
      <4>3. CASE i # 1
        <5>1. 1 < i /\ 1 \in 1 .. Len(f) + 1
          BY <4>3, <1>0
        <5>2. timeout'[f'[i]] = 0 \/ (timeout'[f'[1]] # 0 /\ timeout'[f'[1]] <= timeout'[f'[i]])
          BY <5>1, <1>11, <1>3 DEF Sorted
        <5> QED BY <5>2, <4>1, <3>1
      <4> QED BY <4>2, <4>3
    <3>2. CASE tv = 0
      <4>1. Len(f) = 0 /\ i = 1 /\ f'[1] = t
        BY <3>2, <2>1, <1>1, <1>3, <1>0
      <4> QED BY <4>1, <3>2, <1>6
    <3> QED BY <3>1, <3>2
  <2>2. CASE p > 1
    <3>1. /\ 1 \in 1 .. Len(f) /\ f'[1] = f[1] /\ f[1] # t /\ timerfd' = timerfd
          /\ 1 \in 1 .. p - 1
      <4>1. 1 \in 1 .. Len(f) /\ 1 \in 1 .. Len(f) + 1 /\ 1 \in 1 .. p - 1 /\ p # 1 /\ 1 < p
        BY <2>2, <1>1, <1>0
      <4>2. f'[1] = f[1] /\ f[1] # t
        BY <4>1, <1>3, <1>4
      <4> QED BY <4>1, <4>2, <1>2
    <3>2. f[1] \in handled => f'[1] \in handled'
      BY <3>1, <1>12
    <3>3. CASE i = p
      <4>1. tv # 0 /\ f'[i] = t /\ timeout'[t] = tv
        BY <3>3, <1>3, <1>6, <1>0, <1>1
      <4>2. timeout[f[1]] # 0 /\ timeout[f[1]] <= tv
        BY <4>1, <3>1, <1>1
      <4>3. f[1] \notin handled => timerfd # 0 /\ timerfd <= timeout[f[1]]
        BY <4>2, <3>1, <1>12 DEF Armed
      <4> QED BY <4>1, <4>2, <4>3, <3>1, <3>2, <1>0
    <3>4. CASE i # p
      <4>1. PICK k \in 1 .. Len(f) : f'[i] = f[k]
        BY <3>4, <1>7, <1>0, <1>1
      <4>2. timeout[f[k]] # 0 /\ f[k] \notin handled
        BY <4>1, <1>4, <1>6, <1>12
      <4>3. (timerfd # 0 /\ timerfd <= timeout[f[k]]) \/ f[1] \in handled
        BY <4>2, <1>12 DEF Armed
      <4> QED BY <4>1, <4>3, <3>1, <3>2, <1>6
    <3> QED BY <3>3, <3>4
  <2> QED BY <2>1, <2>2, <1>0, <1>1
<1> QED BY <1>5, <1>8, <1>9, <1>10, <1>11, <1>12 DEF List

(* So does remove_from_flying_list, which looks for the next timeout when  *)
(* it has removed the head.                                                *)
LEMMA RemovedFromList ==
  ASSUME ListType, List, Armed, NEW t \in Transfers, Listed(t),
         remove_from_flying_list(t), handled' = handled,
         \A u \in Transfers : Listed(u)' <=> Listed(u) /\ u # t
  PROVE  ListType' /\ List' /\ Armed'
<1>0. /\ MaxTime \in Nat /\ timeout \in [Transfers -> 0 .. MaxTime] /\ Len(f) \in Nat
      /\ f \in Seq(Transfers) /\ timerfd \in Nat
      /\ \A i \in 1 .. Len(f) : f[i] \in Transfers /\ timeout[f[i]] \in Nat
  BY MaxTimeAssumption DEF ListType
<1>1. PICK p \in 1 .. Len(f) : f[p] = t
  BY DEF List, Every
<1>o. \A i, j \in 1 .. Len(f) : f[i] = f[j] => i = j
  BY DEF List, Once
<1>2. RemoveFirst(f, t) = RemoveAt(f, p)
  <2> DEFINE I == {j \in 1 .. Len(f) : f[j] = t}
  <2>1. I = {p}
    BY <1>1, <1>o
  <2>2. Min(I) = p
    BY <2>1, <1>0 DEF Min
  <2>3. SelectInSeq(f, LAMBDA v : v = t) = p
    BY <2>1, <2>2 DEF SelectInSeq
  <2> QED BY <2>3, <1>1 DEF RemoveFirst
<1>3. /\ f' \in Seq(Transfers) /\ Len(f') = Len(f) - 1
      /\ \A j \in 1 .. Len(f) - 1 : f'[j] = IF j < p THEN f[j] ELSE f[j + 1]
  BY <1>0, <1>2, RemoveAtProperties DEF remove_from_flying_list, f
<1>4. /\ timeout' = timeout
      /\ IF timeout[t] # 0 /\ f # << >> /\ f[1] = t THEN arm_timerfd_for_next_timeout(f')
                                                  ELSE timerfd' = timerfd
  BY DEF remove_from_flying_list, f
<1>5. \A j \in 1 .. Len(f) - 1 :
        \/ j < p /\ j \in 1 .. Len(f) /\ f'[j] = f[j]
        \/ j >= p /\ j + 1 \in 1 .. Len(f) /\ f'[j] = f[j + 1]
  <2> SUFFICES ASSUME NEW j \in 1 .. Len(f) - 1
               PROVE  \/ j < p /\ j \in 1 .. Len(f) /\ f'[j] = f[j]
                      \/ j >= p /\ j + 1 \in 1 .. Len(f) /\ f'[j] = f[j + 1]
    OBVIOUS
  <2>1. f'[j] = IF j < p THEN f[j] ELSE f[j + 1]
    BY <1>3
  <2>2. Len(f) \in Nat /\ p \in 1 .. Len(f)
    BY <1>0, <1>1
  <2>3. j \in 1 .. Len(f) /\ j + 1 \in 1 .. Len(f) /\ (j < p \/ j >= p) /\ ~(j < p /\ j >= p)
    BY <2>2
  <2> QED BY <2>1, <2>3
<1>k. \A j \in 1 .. Len(f) - 1 :
        \E k \in 1 .. Len(f) : k # p /\ f'[j] = f[k] /\ k = IF j < p THEN j ELSE j + 1
  <2> SUFFICES ASSUME NEW j \in 1 .. Len(f) - 1
               PROVE  \E k \in 1 .. Len(f) : k # p /\ f'[j] = f[k] /\ k = IF j < p THEN j ELSE j + 1
    OBVIOUS
  <2>1. CASE j < p
    BY <2>1, <1>0, <1>1, <1>3
  <2>2. CASE j >= p
    <3>1. j + 1 \in 1 .. Len(f) /\ j + 1 # p /\ ~(j < p)
      BY <2>2, <1>0, <1>1
    <3> QED BY <3>1, <1>3
  <2> QED BY <2>1, <2>2, <1>0, <1>1
<1>6. arm_timerfd_for_next_timeout(f') =>
        \/ /\ timerfd' = 0
           /\ \A j \in 1 .. Len(f') : f'[j] \in handled /\ timeout[f'[j]] # 0
        \/ \E k \in 1 .. Len(f') :
             /\ timerfd' = timeout[f'[k]]
             /\ f'[k] \notin handled \/ timeout[f'[k]] = 0
             /\ \A j \in 1 .. k - 1 : f'[j] \in handled /\ timeout[f'[j]] # 0
  BY <1>3, NextToTimeOut
<1>7. ListType'
  <2>1. timerfd' \in 0 .. MaxTime
    <3>1. CASE arm_timerfd_for_next_timeout(f')
      <4>1. timerfd' = 0 \/ \E k \in 1 .. Len(f') : timerfd' = timeout[f'[k]]
        BY <3>1, <1>6
      <4>2. \A k \in 1 .. Len(f') : f'[k] \in Transfers
        BY <1>3
      <4> QED BY <4>1, <4>2, <1>0
    <3>2. CASE timerfd' = timerfd
      BY <3>2 DEF ListType
    <3> QED BY <3>1, <3>2, <1>4
  <2> QED BY <2>1, <1>3, <1>4, <1>0 DEF ListType
<1>8. Once'
  <2> SUFFICES ASSUME NEW i \in 1 .. Len(f) - 1, NEW j \in 1 .. Len(f) - 1, f'[i] = f'[j]
               PROVE  i = j
    BY <1>3 DEF Once
  <2>1. PICK k \in 1 .. Len(f) : f'[i] = f[k] /\ k = IF i < p THEN i ELSE i + 1
    BY <1>k
  <2>2. PICK m \in 1 .. Len(f) : f'[j] = f[m] /\ m = IF j < p THEN j ELSE j + 1
    BY <1>k
  <2>3. k = m
    BY <2>1, <2>2, <1>o
  <2>4. i \in Int /\ j \in Int /\ p \in Int
    BY <1>0, <1>1
  <2>5. CASE i < p
    BY <2>1, <2>2, <2>3, <2>4, <2>5
  <2>6. CASE ~(i < p)
    BY <2>1, <2>2, <2>3, <2>4, <2>6
  <2> QED BY <2>5, <2>6
<1>9. Only'
  <2> SUFFICES ASSUME NEW i \in 1 .. Len(f) - 1 PROVE Listed(f[i])'
    BY <1>3 DEF Only
  <2>1. PICK k \in 1 .. Len(f) : k # p /\ f'[i] = f[k]
    BY <1>k
  <2>2. f[k] \in Transfers /\ Listed(f[k]) /\ f[k] # t
    BY <2>1, <1>0, <1>1, <1>o DEF List, Only
  <2>3. PICK u \in Transfers : u = f'[i] /\ Listed(u) /\ u # t
    BY <2>1, <2>2
  <2>4. Listed(u)'
    BY <2>3
  <2> QED BY <2>3, <2>4
<1>10. Every'
  <2> SUFFICES ASSUME NEW u \in Transfers, Listed(u)'
               PROVE  \E i \in 1 .. Len(f) - 1 : f'[i] = u
    BY <1>3 DEF Every
  <2>1. PICK i \in 1 .. Len(f) : f[i] = u /\ i # p
    BY <1>1 DEF List, Every
  <2>2. CASE i < p
    <3>1. i \in 1 .. Len(f) - 1
      <4>1. Len(f) \in Nat /\ p \in 1 .. Len(f)
        BY <1>0, <1>1
      <4> QED BY <4>1, <2>2
    <3>2. f'[i] = f[i]
      BY <2>2, <3>1, <1>3
    <3> QED BY <3>1, <3>2, <2>1
  <2>3. CASE i > p
    <3>1. i - 1 \in 1 .. Len(f) - 1 /\ ~(i - 1 < p) /\ i - 1 + 1 = i
      BY <2>3, <1>0, <1>1
    <3>2. f'[i - 1] = f[i]
      BY <3>1, <1>3
    <3> QED BY <3>1, <3>2, <2>1
  <2> QED BY <2>1, <2>2, <2>3, <1>0, <1>1
<1>s. \A i, j \in 1 .. Len(f) :
        i < j => timeout[f[j]] = 0 \/ (timeout[f[i]] # 0 /\ timeout[f[i]] <= timeout[f[j]])
  BY DEF List, Sorted
<1>11. \A i, j \in 1 .. Len(f) - 1 :
         i < j => timeout[f'[j]] = 0 \/ (timeout[f'[i]] # 0 /\ timeout[f'[i]] <= timeout[f'[j]])
  <2> SUFFICES ASSUME NEW i \in 1 .. Len(f) - 1, NEW j \in 1 .. Len(f) - 1, i < j
               PROVE  timeout[f'[j]] = 0
                      \/ (timeout[f'[i]] # 0 /\ timeout[f'[i]] <= timeout[f'[j]])
    OBVIOUS
  <2>1. PICK k, m \in 1 .. Len(f) : f'[i] = f[k] /\ f'[j] = f[m] /\ k < m
    BY <1>0, <1>1, <1>5
  <2> QED BY <2>1, <1>s
<1>13. Sorted'
  BY <1>11, <1>3, <1>4 DEF Sorted
<1>12. Armed'
  <2> SUFFICES ASSUME NEW i \in 1 .. Len(f) - 1, timeout[f'[i]] # 0, f'[i] \notin handled
               PROVE  (timerfd' # 0 /\ timerfd' <= timeout[f'[i]]) \/ f'[1] \in handled
    BY <1>3, <1>4 DEF Armed
  <2>1. CASE arm_timerfd_for_next_timeout(f')
    <3>1. PICK k \in 1 .. Len(f) - 1 :
             /\ timerfd' = timeout[f'[k]]
             /\ f'[k] \notin handled \/ timeout[f'[k]] = 0
             /\ \A j \in 1 .. k - 1 : f'[j] \in handled /\ timeout[f'[j]] # 0
      BY <2>1, <1>3, <1>6
    <3>2. k <= i
      <4>1. CASE i < k
        BY <4>1, <3>1
      <4> QED BY <4>1, <1>0
    <3>3. k = i \/ (timeout[f'[k]] # 0 /\ timeout[f'[k]] <= timeout[f'[i]])
      <4>1. k = i \/ k < i
        BY <3>2, <1>0
      <4> QED BY <4>1, <1>11
    <3>4. timeout[f'[i]] \in Nat
      <4>1. PICK m \in 1 .. Len(f) : f'[i] = f[m]
        BY <1>k
      <4> QED BY <4>1, <1>0
    <3> QED BY <3>1, <3>3, <3>4
  <2>2. CASE timerfd' = timerfd /\ ~(timeout[t] # 0 /\ f # << >> /\ f[1] = t)
    <3>1. PICK k \in 1 .. Len(f) : f'[i] = f[k] /\ k # p
      BY <1>0, <1>1, <1>5
    <3>2. (timerfd # 0 /\ timerfd <= timeout[f[k]]) \/ f[1] \in handled
      BY <3>1 DEF Armed
    <3>3. f # << >> /\ 1 \in 1 .. Len(f)
      BY <1>0, <1>1
    <3>4. CASE p = 1
      <4>1. timeout[f[1]] = 0 /\ 1 < k
        BY <3>4, <3>3, <2>2, <1>1, <3>1, <1>0
      <4>2. timeout[f[k]] = 0
        BY <4>1, <3>3, <1>s
      <4> QED BY <4>2, <3>1
    <3>5. CASE p # 1
      <4>1. 1 \in 1 .. Len(f) - 1 /\ 1 < p
        <5>1. Len(f) \in Nat /\ p \in 1 .. Len(f)
          BY <1>0, <1>1
        <5> QED BY <5>1, <3>5
      <4>2. f'[1] = f[1]
        BY <4>1, <1>3
      <4> QED BY <4>2, <3>1, <3>2, <2>2
    <3> QED BY <3>4, <3>5
  <2> QED BY <2>1, <2>2, <1>4
<1> QED BY <1>7, <1>8, <1>9, <1>10, <1>12, <1>13 DEF List

(* So does arming again after a scan.                                      *)
LEMMA RearmedForNext ==
  ASSUME ListType, List, arm_timerfd_for_next_timeout(f),
         UNCHANGED <<flying_transfers, timeout, handled>>
  PROVE  timerfd' \in 0 .. MaxTime /\ Armed'
<1>0. /\ MaxTime \in Nat /\ timeout \in [Transfers -> 0 .. MaxTime] /\ Len(f) \in Nat
      /\ f \in Seq(Transfers)
      /\ \A i \in 1 .. Len(f) : f[i] \in Transfers /\ timeout[f[i]] \in Nat
  BY MaxTimeAssumption DEF ListType
<1>1. \/ /\ timerfd' = 0
         /\ \A j \in 1 .. Len(f) : f[j] \in handled /\ timeout[f[j]] # 0
      \/ \E k \in 1 .. Len(f) :
           /\ timerfd' = timeout[f[k]]
           /\ f[k] \notin handled \/ timeout[f[k]] = 0
           /\ \A j \in 1 .. k - 1 : f[j] \in handled /\ timeout[f[j]] # 0
  BY <1>0, NextToTimeOut
<1>2. timerfd' \in 0 .. MaxTime
  BY <1>0, <1>1
<1>3. Armed'
  <2> SUFFICES ASSUME NEW i \in 1 .. Len(f), timeout[f[i]] # 0, f[i] \notin handled
               PROVE  timerfd' # 0 /\ timerfd' <= timeout[f[i]]
    <3>1. f' = f
      BY DEF f
    <3> QED BY <3>1 DEF Armed
  <2>1. PICK k \in 1 .. Len(f) :
             /\ timerfd' = timeout[f[k]]
             /\ f[k] \notin handled \/ timeout[f[k]] = 0
             /\ \A j \in 1 .. k - 1 : f[j] \in handled /\ timeout[f[j]] # 0
    BY <1>1
  <2>2. k <= i
    <3>1. CASE i < k
      BY <3>1, <2>1
    <3> QED BY <3>1, <1>0
  <2>3. k = i \/ (timeout[f[k]] # 0 /\ timeout[f[k]] <= timeout[f[i]])
    BY <2>2, <1>0 DEF List, Sorted
  <2> QED BY <2>1, <2>3, <1>0
<1> QED BY <1>2, <1>3

-----------------------------------------------------------------------------
(* libusb_submit_transfer: the transfer joins the list.                    *)
LEMMA SubmitKeeps ==
  ASSUME IInv, NEW t \in Transfers, NEW d \in Timeouts[t], Submit(t, d)
  PROVE  IInv'
<1>1. /\ submit[t] = "idle" /\ ~Outstanding(t) /\ LockFree /\ now + d <= MaxTime
      /\ duration' = [duration EXCEPT ![t] = d]
      /\ cancelling' = cancelling \ {t} /\ handled' = handled \ {t} /\ timed_out' = timed_out \ {t}
      /\ add_to_flying_list(t, calculate_timeout(t, d))
      /\ submit' = [submit EXCEPT ![t] = "backend"]
      /\ UNCHANGED <<now, flying_lock, in_flight, pc, cur, systime, rearm, result,
                     leaving, urb, gone, fd_removed, status, accepted>>
  BY DEF Submit, ClearFlags, poller, devices, history
<1>2. TypeOK
  BY DEF IInv
<1>a. ListType /\ List /\ Armed /\ handled' = handled \ {t}
  BY <1>1 DEF IInv, ListType, TypeOK, f
<1>b. d \in 0 .. MaxTime /\ calculate_timeout(t, d) \in 0 .. MaxTime
  BY <1>1, <1>2, MaxTimeAssumption, TimeoutsAssumption DEF TypeOK, calculate_timeout
<1>c. ~Listed(t) /\ \A u \in Transfers : Listed(u)' <=> Listed(u) \/ u = t
  BY <1>1, <1>2 DEF Listed, Outstanding, handlerAt, TypeOK
<1>d. ListType' /\ List' /\ Armed'
  BY <1>1, <1>a, <1>b, <1>c, AddedToList
<1>e. \A u \in Transfers \ {t} : timeout'[u] = timeout[u]
  BY <1>1 DEF add_to_flying_list
<1>3. TypeOK'
  BY <1>1, <1>2, <1>b, <1>d DEF TypeOK, ListType, f
<1>4. Threads'
  BY <1>1 DEF IInv, Threads, handlerAt
<1>5. Life'
  BY <1>1 DEF IInv, Life, Completing, CallingBack, handlerAt, Outstanding
<1>6. Cancellation'
  BY <1>1 DEF IInv, Cancellation, Cancelled, handlerAt, Outstanding
<1>7. Timing'
  <2> SUFFICES ASSUME NEW u \in Transfers
               PROVE  /\ \A p \in Pollers : Marking(p, u)' =>
                           /\ u \in in_flight /\ accepted[u] = "timer"
                           /\ timeout'[u] \in 1 .. now /\ Cancelled(u)
                      /\ u \in timed_out' => /\ submit'[u] = "idle" /\ accepted[u] = "timer"
                                           /\ timeout'[u] \in 1 .. now
                      /\ accepted[u] = "timer" /\ Cancelled(u) =>
                           u \in timed_out' \/ \E p \in Pollers : Marking(p, u)'
    BY <1>1 DEF Timing, Cancelled, handlerAt
  <2>1. CASE u = t
    BY <2>1, <1>1 DEF IInv, Life, Timing, Cancelled, Marking, Completing, Outstanding
  <2>2. CASE u # t
    BY <2>2, <1>1, <1>e DEF IInv, Timing, Marking
  <2> QED BY <2>1, <2>2
<1>8. Verdict'
  BY <1>1 DEF IInv, Verdict, Told, ToTell, handlerAt
<1>9. List'
  BY <1>d
<1>10. Armed'
  BY <1>d
<1>11. NoneLeftBehind'
  BY <1>1 DEF IInv, NoneLeftBehind
<1> QED BY <1>3, <1>4, <1>5, <1>6, <1>7, <1>8, <1>9, <1>10, <1>11 DEF IInv

(* The backend takes it.                                                   *)
LEMMA SubmitUrbsKeeps ==
  ASSUME IInv, NEW t \in Transfers, SubmitUrbs(t)
  PROVE  IInv'
<1>1. /\ submit[t] = "backend" /\ dev_handle[t] \notin gone
      /\ urb' = [urb EXCEPT ![t] = "pending"]
      /\ submit' = [submit EXCEPT ![t] = "submitted"]
      /\ UNCHANGED <<now, flying_transfers, timeout, timerfd, handled, timed_out,
                     flying_lock, in_flight, cancelling, duration, pc, cur,
                     systime, rearm, result, leaving, gone, fd_removed, status,
                     accepted>>
  BY DEF SubmitUrbs, list, flags, state, poller, history
<1>2. TypeOK
  BY DEF IInv
<1>3. TypeOK'
  BY <1>1, <1>2 DEF TypeOK
<1>4. Threads'
  BY <1>1 DEF IInv, Threads, handlerAt
<1>5. Life'
  BY <1>1 DEF IInv, Life, TypeOK, Completing, CallingBack, handlerAt
<1>6. Cancellation'
  BY <1>1 DEF IInv, Life, Cancellation, Cancelled, handlerAt
<1>7. Timing'
  BY <1>1 DEF IInv, Life, Timing, Cancelled, Marking, handlerAt
<1>8. Verdict'
  BY <1>1 DEF IInv, Verdict, Told, ToTell, handlerAt
<1>9. List'
  <2>1. \A u \in Transfers : Listed(u)' <=> Listed(u)
    BY <1>1 DEF Listed, handlerAt
  <2> QED BY <2>1, <1>1, ListAlone DEF IInv, TypeOK, f
<1>10. Armed'
  BY <1>1, ArmedAlone DEF IInv, list
<1>11. NoneLeftBehind'
  BY <1>1 DEF IInv, NoneLeftBehind, TypeOK
<1> QED BY <1>3, <1>4, <1>5, <1>6, <1>7, <1>8, <1>9, <1>10, <1>11 DEF IInv

(* It is in flight.                                                        *)
LEMMA SubmitDoneKeeps ==
  ASSUME IInv, NEW t \in Transfers, SubmitDone(t)
  PROVE  IInv'
<1>1. /\ submit[t] = "submitted"
      /\ in_flight' = in_flight \cup {t}
      /\ submit' = [submit EXCEPT ![t] = "idle"]
      /\ status' = [status EXCEPT ![t] = "none"]
      /\ accepted' = [accepted EXCEPT ![t] = "none"]
      /\ UNCHANGED <<now, flying_transfers, timeout, timerfd, handled, timed_out,
                     flying_lock, cancelling, duration, pc, cur, systime, rearm,
                     result, leaving, urb, gone, fd_removed>>
  BY DEF SubmitDone, list, flags, poller, devices
<1>2. TypeOK
  BY DEF IInv
<1>3. TypeOK'
  BY <1>1, <1>2 DEF TypeOK
<1>4. Threads'
  BY <1>1 DEF IInv, Threads, handlerAt
<1>5. Life'
  BY <1>1 DEF IInv, Life, TypeOK, Completing, CallingBack, handlerAt
<1>6. Cancellation'
  BY <1>1 DEF IInv, Life, Cancellation, TypeOK, Cancelled, Completing, handlerAt
<1>7. Timing'
  BY <1>1 DEF IInv, Life, Timing, Cancelled, Marking, handlerAt
<1>8. Verdict'
  BY <1>1 DEF IInv, Life, Verdict, Told, ToTell, TypeOK, Completing, CallingBack,
     handlerAt
<1>9. List'
  <2>1. \A u \in Transfers : Listed(u)' <=> Listed(u)
    BY <1>1 DEF IInv, Listed, handlerAt, Life, Completing
  <2> QED BY <2>1, <1>1, ListAlone DEF IInv, TypeOK, f
<1>10. Armed'
  BY <1>1, ArmedAlone DEF IInv, list
<1>11. NoneLeftBehind'
  BY <1>1 DEF IInv, NoneLeftBehind
<1> QED BY <1>3, <1>4, <1>5, <1>6, <1>7, <1>8, <1>9, <1>10, <1>11 DEF IInv

(* The backend refuses it,                                                 *)
LEMMA SubmitFailsKeeps ==
  ASSUME IInv, NEW t \in Transfers, SubmitFails(t)
  PROVE  IInv'
<1>1. /\ submit[t] = "backend"
      /\ submit' = [submit EXCEPT ![t] = "failed"]
      /\ UNCHANGED <<now, flying_transfers, timeout, timerfd, handled, timed_out,
                     flying_lock, in_flight, cancelling, duration, pc, cur,
                     systime, rearm, result, leaving, urb, gone, fd_removed,
                     status, accepted>>
  BY DEF SubmitFails, list, flags, state, poller, devices, history
<1>2. TypeOK
  BY DEF IInv
<1>3. TypeOK'
  BY <1>1, <1>2 DEF TypeOK
<1>4. Threads'
  BY <1>1 DEF IInv, Threads, handlerAt
<1>5. Life'
  BY <1>1 DEF IInv, Life, Completing, CallingBack, handlerAt
<1>6. Cancellation'
  BY <1>1 DEF IInv, Cancellation, Cancelled, handlerAt
<1>7. Timing'
  BY <1>1 DEF IInv, Timing, Cancelled, Marking, handlerAt
<1>8. Verdict'
  BY <1>1 DEF IInv, Verdict, Told, ToTell, handlerAt
<1>9. List'
  <2>1. \A u \in Transfers : Listed(u)' <=> Listed(u)
    BY <1>1 DEF Listed, handlerAt
  <2> QED BY <2>1, <1>1, ListAlone DEF IInv, TypeOK, f
<1>10. Armed'
  BY <1>1, ArmedAlone DEF IInv, list
<1>11. NoneLeftBehind'
  BY <1>1 DEF IInv, NoneLeftBehind
<1> QED BY <1>3, <1>4, <1>5, <1>6, <1>7, <1>8, <1>9, <1>10, <1>11 DEF IInv

(* and it leaves the list.                                                 *)
LEMMA RemoveFailedKeeps ==
  ASSUME IInv, NEW t \in Transfers, RemoveFailed(t)
  PROVE  IInv'
<1>1. /\ submit[t] = "failed" /\ LockFree
      /\ remove_from_flying_list(t)
      /\ submit' = [submit EXCEPT ![t] = "idle"]
      /\ UNCHANGED <<now, handled, timed_out, flying_lock, in_flight, cancelling,
                     duration, pc, cur, systime, rearm, result, leaving, urb,
                     gone, fd_removed, status, accepted>>
  BY DEF RemoveFailed, flags, state, poller, devices, history
<1>2. TypeOK
  BY DEF IInv
<1>a. ListType /\ List /\ Armed /\ handled' = handled
  BY <1>1 DEF IInv, ListType, TypeOK, f
<1>b. t \in Transfers /\ Listed(t)
  BY <1>1 DEF Listed
<1>c. \A u \in Transfers : Listed(u)' <=> Listed(u) /\ u # t
  BY <1>1 DEF IInv, Listed, handlerAt, Life, TypeOK
<1>d. ListType' /\ List' /\ Armed'
  BY <1>1, <1>a, <1>b, <1>c, RemovedFromList
<1>e. timeout' = timeout
  BY <1>1 DEF remove_from_flying_list
<1>3. TypeOK'
  BY <1>1, <1>2, <1>d DEF TypeOK, ListType, f
<1>4. Threads'
  BY <1>1 DEF IInv, Threads, handlerAt
<1>5. Life'
  BY <1>1 DEF IInv, Life, Completing, CallingBack, handlerAt
<1>6. Cancellation'
  BY <1>1 DEF IInv, Cancellation, Cancelled, handlerAt
<1>7. Timing'
  BY <1>1, <1>e DEF IInv, Timing, Cancelled, Marking, handlerAt
<1>8. Verdict'
  BY <1>1 DEF IInv, Verdict, Told, ToTell, handlerAt
<1>9. List'
  BY <1>d
<1>10. Armed'
  BY <1>d
<1>11. NoneLeftBehind'
  BY <1>1 DEF IInv, NoneLeftBehind
<1> QED BY <1>3, <1>4, <1>5, <1>6, <1>7, <1>8, <1>9, <1>10, <1>11 DEF IInv

(* An URB that was not discarded comes back only if no cancellation was    *)
(* accepted.                                                               *)
LEMMA ReapKeeps ==
  ASSUME IInv, NEW t \in Transfers, Reap(t)
  PROVE  IInv'
<1>1. /\ pc["handler"] = "idle" /\ urb[t] \in {"done", "discarded", "lost"} /\ ~Locked(t)
      /\ urb' = [urb EXCEPT ![t] = "none"]
      /\ cur' = [cur EXCEPT !["handler"] = t]
      /\ \/ /\ urb[t] = "discarded" /\ result' = result
            /\ pc' = [pc EXCEPT !["handler"] = "readTimedOut"]
         \/ /\ urb[t] # "discarded" /\ result' \in {"COMPLETED", "NO_DEVICE"}
            /\ pc' = [pc EXCEPT !["handler"] = "remove"]
      /\ UNCHANGED <<now, flying_transfers, timeout, timerfd, handled, timed_out,
                     flying_lock, in_flight, cancelling, submit, duration,
                     systime, rearm, leaving, gone, fd_removed, status, accepted>>
  BY DEF Reap, Reapable, At, list, flags, state, app, history
<1>2. TypeOK
  BY DEF IInv
<1>3. TypeOK'
  BY <1>1, <1>2 DEF TypeOK, Pollers, Results
<1>4. Threads'
  BY <1>1 DEF IInv, Threads, TypeOK, Pollers, handlerAt
<1>5. Life'
  BY <1>1 DEF IInv, Life, TypeOK, Pollers, Completing, CallingBack, handlerAt, Locked
<1>6. Cancellation'
  BY <1>1 DEF IInv, Cancellation, TypeOK, Pollers, Cancelled, handlerAt
<1>7. Timing'
  BY <1>1 DEF IInv, Timing, TypeOK, Pollers, Cancelled, Marking, handlerAt
<1>8. Verdict'
  <2> SUFFICES ASSUME NEW u \in Transfers
               PROVE  (ToTell(u) => Told(u, result))' /\ (status[u] # "none" => Told(u, status[u]))'
    BY DEF Verdict
  <2>1. (status[u] # "none" => Told(u, status[u]))'
    BY <1>1 DEF IInv, Verdict, Told
  <2>2. ASSUME ToTell(u)' PROVE Told(u, result)'
    <3>1. u = t /\ urb[t] # "discarded" /\ result' \in {"COMPLETED", "NO_DEVICE"}
      BY <2>2, <1>1, <1>2 DEF ToTell, handlerAt, TypeOK, Pollers
    <3>2. t \in in_flight
      BY <1>1 DEF IInv, Life, Locked
    <3>3. accepted[t] = "none"
      BY <3>1, <3>2, <1>1 DEF IInv, Cancellation
    <3> QED BY <3>1, <3>3, <1>1 DEF Told
  <2> QED BY <2>1, <2>2
<1>9. List'
  <2>1. \A u \in Transfers : Listed(u)' <=> Listed(u)
    BY <1>1, <1>2 DEF Listed, handlerAt, TypeOK, Pollers
  <2> QED BY <2>1, <1>1, ListAlone DEF IInv, TypeOK, f
<1>10. Armed'
  BY <1>1, ArmedAlone DEF IInv, list
<1>11. NoneLeftBehind'
  BY <1>1 DEF IInv, NoneLeftBehind
<1> QED BY <1>3, <1>4, <1>5, <1>6, <1>7, <1>8, <1>9, <1>10, <1>11 DEF IInv

(* Until then the backend can accept one.                                  *)
LEMMA UrbComesBack ==
  ASSUME IInv, NEW t \in Transfers, UrbDone(t) \/ UrbLost(t)
  PROVE  IInv'
<1>1. /\ urb[t] = "pending"
      /\ urb' = [urb EXCEPT ![t] = "done"] \/ urb' = [urb EXCEPT ![t] = "lost"]
      /\ UNCHANGED <<now, flying_transfers, timeout, timerfd, handled, timed_out,
                     flying_lock, in_flight, cancelling, submit, duration, pc,
                     cur, systime, rearm, result, leaving, gone, fd_removed,
                     status, accepted>>
  BY DEF UrbDone, UrbLost, list, flags, state, app, poller, history
<1>2. TypeOK
  BY DEF IInv
<1>3. TypeOK'
  BY <1>1, <1>2 DEF TypeOK
<1>4. Threads'
  BY <1>1 DEF IInv, Threads, handlerAt
<1>5. Life'
  BY <1>1 DEF IInv, Life, TypeOK, Completing, CallingBack, handlerAt
<1>6. Cancellation'
  BY <1>1 DEF IInv, Cancellation, TypeOK, Cancelled, handlerAt
<1>7. Timing'
  BY <1>1 DEF IInv, Cancellation, Timing, TypeOK, Cancelled, Marking, handlerAt
<1>8. Verdict'
  BY <1>1 DEF IInv, Verdict, Told, ToTell, handlerAt
<1>9. List'
  <2>1. \A u \in Transfers : Listed(u)' <=> Listed(u)
    BY <1>1 DEF Listed, handlerAt
  <2> QED BY <2>1, <1>1, ListAlone DEF IInv, TypeOK, f
<1>10. Armed'
  BY <1>1, ArmedAlone DEF IInv, list
<1>11. NoneLeftBehind'
  BY <1>1 DEF IInv, NoneLeftBehind
<1> QED BY <1>3, <1>4, <1>5, <1>6, <1>7, <1>8, <1>9, <1>10, <1>11 DEF IInv

(* No thread is between the cancellation and the mark while the lock is    *)
(* free, so the flag tells who cancelled.                                  *)
LEMMA ReadTimedOutKeeps ==
  ASSUME IInv, ReadTimedOut
  PROVE  IInv'
<1>1. /\ pc["handler"] = "readTimedOut" /\ LockFree
      /\ result' = IF cur["handler"] \in timed_out THEN "TIMED_OUT" ELSE "CANCELLED"
      /\ pc' = [pc EXCEPT !["handler"] = "remove"]
      /\ UNCHANGED <<now, flying_transfers, timeout, timerfd, handled, timed_out,
                     flying_lock, in_flight, cancelling, submit, duration, cur,
                     systime, rearm, leaving, urb, gone, fd_removed, status,
                     accepted>>
  BY DEF ReadTimedOut, At, list, flags, state, app, devices, history
<1>2. TypeOK
  BY DEF IInv
<1>3. TypeOK'
  BY <1>1, <1>2 DEF TypeOK, Pollers, Results
<1>4. Threads'
  BY <1>1 DEF IInv, Threads, handlerAt
<1>5. Life'
  BY <1>1 DEF IInv, Life, Completing, CallingBack, handlerAt
<1>6. Cancellation'
  BY <1>1 DEF IInv, Cancellation, Cancelled, handlerAt
<1>7. Timing'
  BY <1>1, NobodyAssumption DEF IInv, Threads, Timing, Pollers, Cancelled, Marking,
     handlerAt, LockFree
<1>8. Verdict'
  <2> SUFFICES ASSUME NEW u \in Transfers
               PROVE  (ToTell(u) => Told(u, result))' /\ (status[u] # "none" => Told(u, status[u]))'
    BY DEF Verdict
  <2>1. (status[u] # "none" => Told(u, status[u]))'
    BY <1>1 DEF IInv, Verdict, Told
  <2>2. ASSUME ToTell(u)' PROVE Told(u, result)'
    <3>1. u = cur["handler"] /\ accepted'[u] = accepted[u]
      BY <2>2, <1>1 DEF ToTell
    <3>2. accepted[u] \in {"user", "timer"}
      BY <3>1, <1>1 DEF IInv, Cancellation, Cancelled, handlerAt, TypeOK
    <3>3. u \in timed_out => accepted[u] = "timer"
      BY DEF IInv, Timing
    <3>4. u \notin timed_out => accepted[u] # "timer"
      <4>1. \A p \in Pollers : pc[p] # "mark"
        BY <1>1, NobodyAssumption DEF IInv, Threads, LockFree, Pollers
      <4> QED BY <4>1, <3>1, <1>1 DEF IInv, Timing, Cancelled, Marking, handlerAt
    <3>5. result' = IF u \in timed_out THEN "TIMED_OUT" ELSE "CANCELLED"
      BY <3>1, <1>1
    <3> QED BY <3>1, <3>2, <3>3, <3>4, <3>5 DEF Told
  <2> QED BY <2>1, <2>2
<1>9. List'
  <2>1. \A u \in Transfers : Listed(u)' <=> Listed(u)
    BY <1>1 DEF Listed, handlerAt
  <2> QED BY <2>1, <1>1, ListAlone DEF IInv, TypeOK, f
<1>10. Armed'
  BY <1>1, ArmedAlone DEF IInv, list
<1>11. NoneLeftBehind'
  BY <1>1 DEF IInv, NoneLeftBehind
<1> QED BY <1>3, <1>4, <1>5, <1>6, <1>7, <1>8, <1>9, <1>10, <1>11 DEF IInv

(* The completed transfer leaves the list.                                 *)
LEMMA RemoveCompletedKeeps ==
  ASSUME IInv, RemoveCompleted
  PROVE  IInv'
<1>1. /\ pc["handler"] = "remove" /\ LockFree
      /\ remove_from_flying_list(cur["handler"])
      /\ pc' = [pc EXCEPT !["handler"] = "clear"]
      /\ UNCHANGED <<now, handled, timed_out, flying_lock, in_flight, cancelling,
                     submit, duration, cur, systime, rearm, result, leaving, urb,
                     gone, fd_removed, status, accepted>>
  BY DEF RemoveCompleted, At, flags, state, app, devices, history
<1>2. TypeOK
  BY DEF IInv
<1>a. ListType /\ List /\ Armed /\ handled' = handled
  BY <1>1 DEF IInv, ListType, TypeOK, f
<1>b. cur["handler"] \in Transfers /\ Listed(cur["handler"])
  BY <1>1 DEF Listed, handlerAt, IInv, Threads, Life, Completing
<1>c. \A u \in Transfers : Listed(u)' <=> Listed(u) /\ u # cur["handler"]
  BY <1>1 DEF IInv, Listed, handlerAt, Life, Completing, TypeOK, Pollers
<1>d. ListType' /\ List' /\ Armed'
  BY <1>1, <1>a, <1>b, <1>c, RemovedFromList
<1>e. timeout' = timeout
  BY <1>1 DEF remove_from_flying_list
<1>3. TypeOK'
  BY <1>1, <1>2, <1>d DEF TypeOK, Pollers, ListType, f
<1>4. Threads'
  BY <1>1 DEF IInv, Threads, handlerAt
<1>5. Life'
  BY <1>1 DEF IInv, Life, Completing, CallingBack, handlerAt
<1>6. Cancellation'
  BY <1>1 DEF IInv, Cancellation, Cancelled, handlerAt
<1>7. Timing'
  BY <1>1, <1>e DEF IInv, Timing, Cancelled, Marking, handlerAt
<1>8. Verdict'
  BY <1>1 DEF IInv, Verdict, Told, ToTell, handlerAt
<1>9. List'
  BY <1>d
<1>10. Armed'
  BY <1>d
<1>11. NoneLeftBehind'
  BY <1>1 DEF IInv, NoneLeftBehind
<1> QED BY <1>3, <1>4, <1>5, <1>6, <1>7, <1>8, <1>9, <1>10, <1>11 DEF IInv

(* It is no longer in flight,                                              *)
LEMMA ClearInFlightKeeps ==
  ASSUME IInv, ClearInFlight
  PROVE  IInv'
<1>1. /\ pc["handler"] = "clear"
      /\ in_flight' = in_flight \ {cur["handler"]}
      /\ pc' = [pc EXCEPT !["handler"] = "callback"]
      /\ UNCHANGED <<now, flying_transfers, timeout, timerfd, handled, timed_out,
                     flying_lock, cancelling, submit, duration, cur, systime,
                     rearm, result, leaving, urb, gone, fd_removed, status,
                     accepted>>
  BY DEF ClearInFlight, At, list, flags, app, devices, history
<1>2. TypeOK
  BY DEF IInv
<1>3. TypeOK'
  BY <1>1, <1>2 DEF TypeOK, Pollers
<1>4. Threads'
  BY <1>1 DEF IInv, Threads, handlerAt
<1>5. Life'
  BY <1>1 DEF IInv, Life, TypeOK, Pollers, Completing, CallingBack, handlerAt
<1>6. Cancellation'
  BY <1>1 DEF IInv, Life, Cancellation, Cancelled, Completing, handlerAt
<1>7. Timing'
  BY <1>1 DEF IInv, Life, Timing, Cancelled, Marking, Completing, handlerAt
<1>8. Verdict'
  BY <1>1 DEF IInv, Verdict, Told, ToTell, handlerAt
<1>9. List'
  <2>1. \A u \in Transfers : Listed(u)' <=> Listed(u)
    BY <1>1 DEF Listed, handlerAt
  <2> QED BY <2>1, <1>1, ListAlone DEF IInv, TypeOK, f
<1>10. Armed'
  BY <1>1, ArmedAlone DEF IInv, list
<1>11. NoneLeftBehind'
  BY <1>1 DEF IInv, NoneLeftBehind
<1> QED BY <1>3, <1>4, <1>5, <1>6, <1>7, <1>8, <1>9, <1>10, <1>11 DEF IInv

(* and its callback is told the result.                                    *)
LEMMA CallbackKeeps ==
  ASSUME IInv, Callback
  PROVE  IInv'
<1>1. /\ pc["handler"] = "callback"
      /\ status' = [status EXCEPT ![cur["handler"]] = result]
      /\ \/ leaving = None /\ pc' = [pc EXCEPT !["handler"] = "idle"]
         \/ leaving # None /\ pc' = [pc EXCEPT !["handler"] = "disconnect"]
      /\ cur' = [cur EXCEPT !["handler"] = None]
      /\ UNCHANGED <<now, flying_transfers, timeout, timerfd, handled, timed_out,
                     flying_lock, in_flight, cancelling, submit, duration,
                     systime, rearm, result, leaving, urb, gone, fd_removed,
                     accepted>>
  BY DEF Callback, At, list, flags, state, app, devices
<1>2. TypeOK
  BY DEF IInv
<1>3. TypeOK'
  <2>1. /\ pc' \in [Pollers -> {"idle", "scan", "mark", "readTimedOut", "remove", "clear",
                               "callback", "disconnect"}]
        /\ pc'["waiter"] \in {"idle", "scan", "mark"}
        /\ cur' \in [Pollers -> Transfers \cup {None}]
    BY <1>1, <1>2 DEF TypeOK, Pollers
  <2>2. status' \in [Transfers -> Results \cup {"none"}]
    BY <1>1, <1>2 DEF TypeOK, Results
  <2> QED BY <1>1, <1>2, <2>1, <2>2 DEF TypeOK
<1>4. Threads'
  BY <1>1 DEF IInv, Threads, TypeOK, Pollers, handlerAt
<1>5. Life'
  BY <1>1 DEF IInv, Life, TypeOK, Pollers, Completing, CallingBack, handlerAt
<1>6. Cancellation'
  BY <1>1, <1>2 DEF IInv, Life, Cancellation, TypeOK, Cancelled, handlerAt
<1>7. Timing'
  BY <1>1 DEF IInv, Timing, TypeOK, Pollers, Cancelled, Marking, handlerAt
<1>8. Verdict'
  BY <1>1 DEF IInv, Verdict, Told, ToTell, TypeOK, handlerAt
<1>9. List'
  <2>1. \A u \in Transfers : Listed(u)' <=> Listed(u)
    BY <1>1, <1>2 DEF Listed, handlerAt, TypeOK
  <2> QED BY <2>1, <1>1, ListAlone DEF IInv, TypeOK, f
<1>10. Armed'
  BY <1>1, ArmedAlone DEF IInv, list
<1>11. NoneLeftBehind'
  BY <1>1 DEF IInv, NoneLeftBehind
<1> QED BY <1>3, <1>4, <1>5, <1>6, <1>7, <1>8, <1>9, <1>10, <1>11 DEF IInv

(* usbi_handle_disconnect begins.                                          *)
LEMMA DisconnectKeeps ==
  ASSUME IInv, NEW h \in Handles, Disconnect(h)
  PROVE  IInv'
<1>1. /\ pc["handler"] = "idle" /\ h \in gone \ fd_removed
      /\ fd_removed' = fd_removed \cup {h} /\ leaving' = h
      /\ pc' = [pc EXCEPT !["handler"] = "disconnect"]
      /\ UNCHANGED <<now, flying_transfers, timeout, timerfd, handled, timed_out,
                     flying_lock, in_flight, cancelling, submit, duration, cur,
                     systime, rearm, result, urb, gone, status, accepted>>
  BY DEF Disconnect, At, list, flags, state, app, history
<1>2. TypeOK
  BY DEF IInv
<1>3. TypeOK'
  BY <1>1, <1>2 DEF TypeOK, Pollers
<1>4. Threads'
  BY <1>1, NobodyAssumption DEF IInv, Threads, TypeOK, Pollers, handlerAt
<1>5. Life'
  BY <1>1 DEF IInv, Life, Completing, CallingBack, handlerAt
<1>6. Cancellation'
  BY <1>1 DEF IInv, Cancellation, Cancelled, handlerAt
<1>7. Timing'
  BY <1>1 DEF IInv, Timing, Cancelled, Marking, handlerAt
<1>8. Verdict'
  BY <1>1 DEF IInv, Verdict, Told, ToTell, handlerAt
<1>9. List'
  <2>1. \A u \in Transfers : Listed(u)' <=> Listed(u)
    BY <1>1 DEF Listed, handlerAt
  <2> QED BY <2>1, <1>1, ListAlone DEF IInv, TypeOK, f
<1>10. Armed'
  BY <1>1, ArmedAlone DEF IInv, list
<1>11. NoneLeftBehind'
  <2>1. fd_removed' \ {leaving'} \subseteq fd_removed \ {leaving}
    BY <1>1, NobodyAssumption DEF IInv, Threads, handlerAt, TypeOK
  <2> QED BY <2>1, <1>1 DEF IInv, NoneLeftBehind
<1> QED BY <1>3, <1>4, <1>5, <1>6, <1>7, <1>8, <1>9, <1>10, <1>11 DEF IInv

(* It ends one transfer of the device,                                     *)
LEMMA DisconnectTransferKeeps ==
  ASSUME IInv, NEW t \in Transfers, DisconnectTransfer(t)
  PROVE  IInv'
<1>1. /\ pc["handler"] = "disconnect" /\ LockFree /\ t \in in_flight
      /\ urb' = [urb EXCEPT ![t] = "none"]
      /\ cur' = [cur EXCEPT !["handler"] = t] /\ result' = "NO_DEVICE"
      /\ pc' = [pc EXCEPT !["handler"] = "remove"]
      /\ UNCHANGED <<now, flying_transfers, timeout, timerfd, handled, timed_out,
                     flying_lock, in_flight, cancelling, submit, duration,
                     systime, rearm, leaving, gone, fd_removed, status, accepted>>
  BY DEF DisconnectTransfer, ToEnd, At, list, flags, state, app, history
<1>2. TypeOK
  BY DEF IInv
<1>3. TypeOK'
  BY <1>1, <1>2 DEF TypeOK, Pollers, Results
<1>4. Threads'
  BY <1>1 DEF IInv, Threads, TypeOK, handlerAt
<1>5. Life'
  BY <1>1 DEF IInv, Life, TypeOK, Completing, CallingBack, handlerAt
<1>6. Cancellation'
  BY <1>1 DEF IInv, Cancellation, Cancelled, handlerAt
<1>7. Timing'
  BY <1>1, NobodyAssumption DEF IInv, Threads, Timing, Pollers, Cancelled, Marking,
     handlerAt, LockFree
<1>8. Verdict'
  BY <1>1 DEF IInv, Verdict, Told
<1>9. List'
  <2>1. \A u \in Transfers : Listed(u)' <=> Listed(u)
    BY <1>1 DEF Listed, handlerAt
  <2> QED BY <2>1, <1>1, ListAlone DEF IInv, TypeOK, f
<1>10. Armed'
  BY <1>1, ArmedAlone DEF IInv, list
<1>11. NoneLeftBehind'
  BY <1>1 DEF IInv, NoneLeftBehind
<1> QED BY <1>3, <1>4, <1>5, <1>6, <1>7, <1>8, <1>9, <1>10, <1>11 DEF IInv

(* and is done when it has waited for every submission and found no        *)
(* transfer in flight: then none is left.                                  *)
LEMMA DisconnectDoneKeeps ==
  ASSUME IInv, DisconnectDone
  PROVE  IInv'
<1>1. /\ pc["handler"] = "disconnect" /\ LockFree
      /\ Examined /\ ~\E i \in DOMAIN flying_transfers : ToEnd(i)
      /\ leaving' = None
      /\ pc' = [pc EXCEPT !["handler"] = "idle"]
      /\ UNCHANGED <<now, flying_transfers, timeout, timerfd, handled, timed_out,
                     flying_lock, in_flight, cancelling, submit, duration, cur,
                     systime, rearm, result, urb, gone, fd_removed, status,
                     accepted>>
  BY DEF DisconnectDone, At, list, flags, state, app, devices, history
<1>2. TypeOK
  BY DEF IInv
<1>3. TypeOK'
  BY <1>1, <1>2 DEF TypeOK, Pollers
<1>4. Threads'
  BY <1>1 DEF IInv, Threads, TypeOK, Pollers, handlerAt
<1>5. Life'
  BY <1>1 DEF IInv, Life, Completing, CallingBack, handlerAt
<1>6. Cancellation'
  BY <1>1 DEF IInv, Cancellation, Cancelled, handlerAt
<1>7. Timing'
  BY <1>1 DEF IInv, Timing, Cancelled, Marking, handlerAt
<1>8. Verdict'
  BY <1>1 DEF IInv, Verdict, Told, ToTell, handlerAt
<1>9. List'
  <2>1. \A u \in Transfers : Listed(u)' <=> Listed(u)
    BY <1>1 DEF Listed, handlerAt
  <2> QED BY <2>1, <1>1, ListAlone DEF IInv, TypeOK, f
<1>10. Armed'
  BY <1>1, ArmedAlone DEF IInv, list
<1>11. NoneLeftBehind'
  <2> SUFFICES ASSUME NEW t \in Transfers, dev_handle[t] \in fd_removed
               PROVE  t \notin in_flight /\ submit[t] # "submitted"
    BY <1>1 DEF NoneLeftBehind
  <2>1. CASE dev_handle[t] # leaving
    BY <2>1 DEF IInv, NoneLeftBehind
  <2>2. CASE dev_handle[t] = leaving
    <3>1. \A i \in 1 .. Len(f) : dev_handle[f[i]] = leaving =>
            f[i] \notin in_flight /\ ~Locked(f[i])
      <4>1. \A i \in 1 .. Len(f) : OfLeaving(i) => f[i] \notin in_flight
        BY <1>1 DEF ToEnd, f
      <4>2. \A i \in 1 .. Len(f) : Passed(i)
        BY <4>1 DEF Passed, f
      <4> QED BY <4>1, <4>2, <1>1 DEF Examined, OfLeaving, f
    <3>2. ~Listed(t) \/ (t \notin in_flight /\ ~Locked(t))
      BY <3>1, <2>2 DEF IInv, List, Every
    <3> QED BY <3>2, <1>1 DEF Listed, Locked, handlerAt
  <2> QED BY <2>1, <2>2
<1> QED BY <1>3, <1>4, <1>5, <1>6, <1>7, <1>8, <1>9, <1>10, <1>11 DEF IInv

(* handle_timeouts_locked takes the lock.                                  *)
LEMMA StartScanKeeps ==
  ASSUME IInv, NEW p \in Pollers, StartScan(p), rearm' \in BOOLEAN
  PROVE  IInv'
<1>1. /\ pc[p] = "idle" /\ LockFree
      /\ flying_lock' = p /\ systime' = [systime EXCEPT ![p] = now]
      /\ pc' = [pc EXCEPT ![p] = "scan"]
      /\ rearm' \in BOOLEAN
      /\ UNCHANGED <<now, flying_transfers, timeout, timerfd, handled, timed_out,
                     in_flight, cancelling, submit, duration, cur, result,
                     leaving, urb, gone, fd_removed, status, accepted>>
  BY DEF StartScan, At, list, flags, state, app, devices, history
<1>2. TypeOK
  BY DEF IInv
<1>3. TypeOK'
  BY <1>1, <1>2 DEF TypeOK
<1>4. Threads'
  BY <1>1, NobodyAssumption DEF IInv, Threads, TypeOK, Pollers, handlerAt, LockFree
<1>5. Life'
  BY <1>1 DEF IInv, Life, Completing, CallingBack, handlerAt
<1>6. Cancellation'
  BY <1>1 DEF IInv, Cancellation, Cancelled, handlerAt
<1>7. Timing'
  BY <1>1 DEF IInv, Timing, Cancelled, Marking, handlerAt
<1>8. Verdict'
  BY <1>1 DEF IInv, Verdict, Told, ToTell, handlerAt
<1>9. List'
  <2>1. \A u \in Transfers : Listed(u)' <=> Listed(u)
    BY <1>1 DEF Listed, handlerAt
  <2> QED BY <2>1, <1>1, ListAlone DEF IInv, TypeOK, f
<1>10. Armed'
  BY <1>1, ArmedAlone DEF IInv, list
<1>11. NoneLeftBehind'
  BY <1>1 DEF IInv, NoneLeftBehind
<1> QED BY <1>3, <1>4, <1>5, <1>6, <1>7, <1>8, <1>9, <1>10, <1>11 DEF IInv

(* The mark is set with the lock held.                                     *)
LEMMA MarkTimedOutKeeps ==
  ASSUME IInv, NEW p \in Pollers, MarkTimedOut(p)
  PROVE  IInv'
<1>1. /\ pc[p] = "mark"
      /\ timed_out' = timed_out \cup {cur[p]}
      /\ pc' = [pc EXCEPT ![p] = "scan"]
      /\ cur' = [cur EXCEPT ![p] = None]
      /\ UNCHANGED <<now, flying_transfers, timeout, timerfd, handled,
                     flying_lock, in_flight, cancelling, submit, duration,
                     systime, rearm, result, leaving, urb, gone, fd_removed,
                     status, accepted>>
  BY DEF MarkTimedOut, At, list, state, app, devices, history
<1>2. TypeOK
  BY DEF IInv
<1>3. TypeOK'
  BY <1>1 DEF TypeOK, IInv, Threads
<1>4. Threads'
  BY <1>1 DEF IInv, Threads, TypeOK, handlerAt
<1>5. Life'
  BY <1>1 DEF IInv, Life, Completing, CallingBack, handlerAt
<1>6. Cancellation'
  BY <1>1 DEF IInv, Cancellation, Cancelled, handlerAt
<1>7. Timing'
  BY <1>1, NobodyAssumption DEF IInv, Life, Timing, Cancelled, Marking, handlerAt
<1>8. Verdict'
  BY <1>1 DEF IInv, Verdict, Told, ToTell, handlerAt
<1>9. List'
  <2>1. \A u \in Transfers : Listed(u)' <=> Listed(u)
    BY <1>1 DEF Listed, handlerAt
  <2> QED BY <2>1, <1>1, ListAlone DEF IInv, TypeOK, f
<1>10. Armed'
  BY <1>1, ArmedAlone DEF IInv, list
<1>11. NoneLeftBehind'
  BY <1>1 DEF IInv, NoneLeftBehind
<1> QED BY <1>3, <1>4, <1>5, <1>6, <1>7, <1>8, <1>9, <1>10, <1>11 DEF IInv

(* The lock is released, the timerfd armed if it had fired.                *)
LEMMA EndScanKeeps ==
  ASSUME IInv, NEW p \in Pollers, EndScan(p)
  PROVE  IInv'
<1>1. /\ pc[p] = "scan"
      /\ arm_timerfd_for_next_timeout(f) \/ timerfd' = timerfd
      /\ flying_lock' = None
      /\ pc' = [pc EXCEPT ![p] = "idle"]
      /\ systime' = [systime EXCEPT ![p] = 0]
      /\ rearm' \in {FALSE, rearm}
      /\ UNCHANGED <<now, flying_transfers, timeout, handled, timed_out,
                     in_flight, cancelling, submit, duration, cur, result,
                     leaving, urb, gone, fd_removed, status, accepted>>
  BY DEF EndScan, Rearm, At, f, flags, state, app, devices, history
<1>2. TypeOK
  BY DEF IInv
<1>a. timerfd' \in 0 .. MaxTime /\ Armed'
  <2>1. ListType /\ List /\ Armed
    BY DEF IInv, ListType, TypeOK, f
  <2>2. CASE arm_timerfd_for_next_timeout(f)
    BY <2>1, <2>2, <1>1, RearmedForNext
  <2>3. CASE timerfd' = timerfd
    <3>1. Armed'
      BY <2>1, <2>3, <1>1, ArmedAlone DEF list
    <3> QED BY <3>1, <2>1, <2>3 DEF ListType
  <2> QED BY <2>2, <2>3, <1>1
<1>3. TypeOK'
  <2>1. /\ pc' \in [Pollers -> {"idle", "scan", "mark", "readTimedOut", "remove", "clear",
                               "callback", "disconnect"}]
        /\ pc'["waiter"] \in {"idle", "scan", "mark"}
    BY <1>1, <1>2 DEF TypeOK
  <2>2. systime' \in [Pollers -> 0 .. MaxTime]
    BY <1>1, <1>2, MaxTimeAssumption DEF TypeOK
  <2>3. rearm' \in BOOLEAN
    BY <1>1, <1>2 DEF TypeOK
  <2> QED BY <1>1, <1>2, <1>a, <2>2, <2>3 DEF TypeOK
<1>4. Threads'
  BY <1>1, NobodyAssumption DEF IInv, Threads, TypeOK, Pollers, handlerAt
<1>5. Life'
  BY <1>1 DEF IInv, Life, Completing, CallingBack, handlerAt
<1>6. Cancellation'
  BY <1>1 DEF IInv, Cancellation, Cancelled, handlerAt
<1>7. Timing'
  BY <1>1 DEF IInv, Timing, Cancelled, Marking, handlerAt
<1>8. Verdict'
  BY <1>1 DEF IInv, Verdict, Told, ToTell, handlerAt
<1>9. List'
  <2>1. \A u \in Transfers : Listed(u)' <=> Listed(u)
    BY <1>1 DEF Listed, handlerAt
  <2> QED BY <2>1, <1>1, ListAlone DEF IInv, TypeOK, f
<1>10. Armed'
  BY <1>a
<1>11. NoneLeftBehind'
  BY <1>1 DEF IInv, NoneLeftBehind
<1> QED BY <1>3, <1>4, <1>5, <1>6, <1>7, <1>8, <1>9, <1>10, <1>11 DEF IInv

(* The user cancels: either is refused after the other.                    *)
LEMMA CancelTransferKeeps ==
  ASSUME IInv, NEW t \in Transfers, CancelTransfer(t)
  PROVE  IInv'
<1>1. /\ t \in in_flight /\ ~Locked(t) /\ cancelling' = cancelling \cup {t}
      /\ \/ /\ urb[t] = "pending" /\ urb' = [urb EXCEPT ![t] = "discarded"]
            /\ accepted' = [accepted EXCEPT ![t] = "user"]
         \/ urb' = urb /\ accepted' = accepted
      /\ UNCHANGED <<now, flying_transfers, timeout, timerfd, handled, timed_out,
                     flying_lock, in_flight, submit, duration, pc, cur, systime,
                     rearm, result, leaving, gone, fd_removed, status>>
  BY DEF CancelTransfer, libusb_cancel_transfer, Accepts, list, flags, app, poller
<1>2. TypeOK
  BY DEF IInv
<1>3. TypeOK'
  BY <1>1, <1>2 DEF TypeOK
<1>4. Threads'
  BY <1>1 DEF IInv, Threads, handlerAt
<1>5. Life'
  BY <1>1 DEF IInv, Life, TypeOK, Completing, CallingBack, handlerAt
<1>6. Cancellation'
  BY <1>1 DEF IInv, Cancellation, TypeOK, Cancelled, handlerAt
<1>7. Timing'
  BY <1>1 DEF IInv, Cancellation, Timing, TypeOK, Cancelled, Marking, handlerAt
<1>8. Verdict'
  BY <1>1 DEF IInv, Life, Verdict, Told, ToTell, TypeOK, Completing, CallingBack,
     handlerAt
<1>9. List'
  <2>1. \A u \in Transfers : Listed(u)' <=> Listed(u)
    BY <1>1 DEF Listed, handlerAt
  <2> QED BY <2>1, <1>1, ListAlone DEF IInv, TypeOK, f
<1>10. Armed'
  BY <1>1, ArmedAlone DEF IInv, list
<1>11. NoneLeftBehind'
  BY <1>1 DEF IInv, NoneLeftBehind
<1> QED BY <1>3, <1>4, <1>5, <1>6, <1>7, <1>8, <1>9, <1>10, <1>11 DEF IInv

(* handle_timeout: all before it on the list are handled, so the head is.  *)
LEMMA HandleTimeoutKeeps ==
  ASSUME IInv, NEW p \in Pollers, NEW i \in DOMAIN flying_transfers, handle_timeout(p, i),
         NEW t, t = flying_transfers[i]
  PROVE  IInv'
<1>1. /\ pc[p] = "scan" /\ ~Locked(t) /\ timeout[t] \in 1 .. systime[p]
      /\ handled' = handled \cup {t}
      /\ cancelling' \in SUBSET (cancelling \cup {t}) /\ cancelling \subseteq cancelling'
      /\ \/ /\ t \in in_flight /\ urb[t] = "pending" /\ t \in cancelling'
            /\ urb' = [urb EXCEPT ![t] = "discarded"]
            /\ accepted' = [accepted EXCEPT ![t] = "timer"]
            /\ pc' = [pc EXCEPT ![p] = "mark"] /\ cur' = [cur EXCEPT ![p] = t]
         \/ urb' = urb /\ accepted' = accepted /\ pc' = pc /\ cur' = cur
      /\ UNCHANGED <<now, flying_transfers, timeout, timerfd, timed_out,
                     flying_lock, in_flight, submit, duration, systime, rearm,
                     result, leaving, gone, fd_removed, status>>
  BY DEF handle_timeout, libusb_cancel_transfer, Accepts, Expired, At, list, app
<1>2. TypeOK
  BY DEF IInv
<1>a. i \in 1 .. Len(f) /\ t = f[i] /\ t \in Transfers
  <2>1. flying_transfers \in Seq(Transfers)
    BY <1>2 DEF TypeOK
  <2> QED BY <2>1 DEF f
<1>3. TypeOK'
  <2>1. /\ urb' \in [Transfers -> {"none", "pending", "done", "discarded", "lost"}]
        /\ accepted' \in [Transfers -> {"none", "user", "timer"}]
    BY <1>1, <1>2 DEF TypeOK
  <2>2. /\ pc' \in [Pollers -> {"idle", "scan", "mark", "readTimedOut", "remove", "clear",
                               "callback", "disconnect"}]
        /\ pc'["waiter"] \in {"idle", "scan", "mark"}
    <3>1. pc' = [pc EXCEPT ![p] = "mark"] \/ pc' = pc
      BY <1>1
    <3>2. /\ pc \in [Pollers -> {"idle", "scan", "mark", "readTimedOut", "remove", "clear",
                                 "callback", "disconnect"}]
          /\ pc["waiter"] \in {"idle", "scan", "mark"}
      BY <1>2 DEF TypeOK
    <3> QED BY <3>1, <3>2 DEF Pollers
  <2>3. cur' \in [Pollers -> Transfers \cup {None}]
    <3>1. cur' = [cur EXCEPT ![p] = t] \/ cur' = cur
      BY <1>1
    <3>2. cur \in [Pollers -> Transfers \cup {None}] /\ t \in Transfers \cup {None}
      BY <1>2 DEF TypeOK
    <3> QED BY <3>1, <3>2
  <2>4. handled' \subseteq Transfers /\ cancelling' \subseteq Transfers
    BY <1>1, <1>2 DEF TypeOK
  <2> QED BY <1>1, <1>2, <2>2, <2>4 DEF TypeOK
<1>b. \/ urb' = urb /\ accepted' = accepted /\ pc' = pc /\ cur' = cur
      \/ /\ t \in in_flight /\ urb[t] = "pending" /\ t \in cancelling'
         /\ urb'[t] = "discarded" /\ accepted'[t] = "timer"
         /\ pc'[p] = "mark" /\ cur'[p] = t
         /\ \A u \in Transfers : u # t => urb'[u] = urb[u] /\ accepted'[u] = accepted[u]
         /\ \A q \in Pollers : q # p => pc'[q] = pc[q] /\ cur'[q] = cur[q]
  <2>1. CASE urb' = urb /\ accepted' = accepted /\ pc' = pc /\ cur' = cur
    BY <2>1
  <2>2. CASE ~(urb' = urb /\ accepted' = accepted /\ pc' = pc /\ cur' = cur)
    <3>1. /\ t \in in_flight /\ urb[t] = "pending" /\ t \in cancelling'
          /\ urb' = [urb EXCEPT ![t] = "discarded"]
          /\ accepted' = [accepted EXCEPT ![t] = "timer"]
          /\ pc' = [pc EXCEPT ![p] = "mark"] /\ cur' = [cur EXCEPT ![p] = t]
      BY <2>2, <1>1
    <3>2. DOMAIN urb = Transfers /\ DOMAIN accepted = Transfers
          /\ DOMAIN pc = Pollers /\ DOMAIN cur = Pollers
      BY <1>2 DEF TypeOK
    <3>3. /\ urb'[t] = "discarded"
          /\ \A u \in Transfers : u # t => urb'[u] = urb[u]
      BY <3>1, <3>2, <1>a
    <3>4. /\ accepted'[t] = "timer"
          /\ \A u \in Transfers : u # t => accepted'[u] = accepted[u]
      BY <3>1, <3>2, <1>a
    <3>5. /\ pc'[p] = "mark" /\ cur'[p] = t
          /\ \A q \in Pollers : q # p => pc'[q] = pc[q] /\ cur'[q] = cur[q]
      BY <3>1, <3>2
    <3> QED BY <3>1, <3>3, <3>4, <3>5
  <2> QED BY <2>1, <2>2
<1>c. {"handler", "waiter"} = Pollers /\ p \in Pollers
  BY DEF Pollers
<1>d. flying_lock = p /\ \A q \in Pollers : pc[q] \in {"scan", "mark"} => q = p
  BY <1>1, <1>c DEF IInv, Threads
<1>4. Threads'
  <2>1. CASE pc' = pc /\ cur' = cur
    BY <2>1, <1>1 DEF IInv, Threads, handlerAt
  <2>2. CASE /\ pc'[p] = "mark" /\ cur'[p] = t
             /\ \A q \in Pollers : q # p => pc'[q] = pc[q] /\ cur'[q] = cur[q]
    <3>1. \A q \in Pollers : flying_lock' = q <=> pc'[q] \in {"scan", "mark"}
      BY <2>2, <1>1, <1>c, <1>d DEF IInv, Threads
    <3>2. \A q \in Pollers : pc'[q] = "mark" => cur'[q] \in Transfers
      BY <2>2, <1>a, <1>c DEF IInv, Threads
    <3>4. p = "handler" => leaving = None
      BY <1>1 DEF IInv, Threads, handlerAt
    <3>5. p # "handler" => pc'["handler"] = pc["handler"] /\ cur'["handler"] = cur["handler"]
      BY <2>2, <1>c
    <3>6. p = "handler" => pc'["handler"] = "mark"
      BY <2>2
    <3> QED BY <3>1, <3>2, <3>4, <3>5, <3>6, <1>1 DEF IInv, Threads, handlerAt
  <2> QED BY <2>1, <2>2, <1>b
<1>5. Life'
  <2>1. \A u \in Transfers : /\ Completing(u)' => Completing(u)
                             /\ CallingBack(u)' => CallingBack(u)
    <3>1. CASE pc' = pc /\ cur' = cur
      BY <3>1 DEF Completing, CallingBack, handlerAt
    <3>2. CASE pc' = [pc EXCEPT ![p] = "mark"] /\ cur' = [cur EXCEPT ![p] = t]
      <4>1. \/ pc'["handler"] = "mark"
            \/ pc'["handler"] = pc["handler"] /\ cur'["handler"] = cur["handler"]
        BY <3>2, <1>2 DEF TypeOK
      <4> QED BY <4>1 DEF Completing, CallingBack, handlerAt
    <3> QED BY <3>1, <3>2, <1>1
  <2>2. \A u \in Transfers : urb'[u] # "none" => urb[u] # "none"
    BY <1>1, <1>2 DEF TypeOK
  <2>3. \A u \in Transfers : urb[u] # "none" => urb'[u] # "none"
    BY <1>1, <1>2 DEF TypeOK
  <2> QED BY <1>1, <2>1, <2>2, <2>3 DEF IInv, Life
<1>6. Cancellation'
  <2>1. CASE urb' = urb /\ accepted' = accepted /\ pc' = pc /\ cur' = cur
    BY <2>1, <1>1 DEF IInv, Cancellation, Cancelled, handlerAt
  <2>2. CASE ~(urb' = urb /\ accepted' = accepted /\ pc' = pc /\ cur' = cur)
    <3>1. \A u \in Transfers : urb'[u] # "discarded" => (Cancelled(u)' => Cancelled(u))
      <4>1. \/ pc'["handler"] = "mark"
            \/ pc'["handler"] = pc["handler"] /\ cur'["handler"] = cur["handler"]
        BY <2>2, <1>b, <1>c
      <4> QED BY <4>1 DEF Cancelled, handlerAt
    <3>2. ASSUME NEW u \in Transfers, u # t
          PROVE  urb'[u] = urb[u] /\ accepted'[u] = accepted[u] /\ (Cancelled(u)' => Cancelled(u))
      BY <3>1, <3>2, <2>2, <1>b DEF Cancelled
    <3> QED BY <3>2, <2>2, <1>1, <1>b DEF IInv, Cancellation, Cancelled
  <2> QED BY <2>1, <2>2
<1>7. Timing'
  <2>1. CASE urb' = urb /\ accepted' = accepted /\ pc' = pc /\ cur' = cur
    BY <2>1, <1>1 DEF IInv, Timing, Marking, Cancelled, handlerAt
  <2>2. CASE ~(urb' = urb /\ accepted' = accepted /\ pc' = pc /\ cur' = cur)
    <3>0. /\ t \in in_flight /\ urb[t] = "pending" /\ urb'[t] = "discarded"
          /\ accepted'[t] = "timer" /\ accepted[t] = "none"
          /\ timeout[t] \in 1 .. now /\ pc'[p] = "mark" /\ cur'[p] = t
      <4>1. systime[p] \in Nat /\ now \in Nat /\ systime[p] <= now
        BY <1>2, <1>c, MaxTimeAssumption DEF IInv, Threads, TypeOK
      <4>2. timeout[t] \in 1 .. now
        BY <4>1, <1>1
      <4> QED BY <4>2, <2>2, <1>a, <1>b DEF IInv, Cancellation
    <3>1. ASSUME NEW u \in Transfers, u # t
          PROVE  /\ urb'[u] = urb[u] /\ accepted'[u] = accepted[u]
                 /\ Cancelled(u)' <=> Cancelled(u)
                 /\ \A q \in Pollers : Marking(q, u)' <=> Marking(q, u)
      <4>1. \A q \in Pollers : Marking(q, u)' <=> Marking(q, u)
        BY <3>0, <3>1, <2>2, <1>1, <1>b, <1>c DEF Marking
      <4>2. urb'[u] = urb[u] /\ accepted'[u] = accepted[u]
        BY <3>1, <2>2, <1>b
      <4>3. \/ pc'["handler"] = "mark" /\ pc["handler"] = "scan"
            \/ pc'["handler"] = pc["handler"] /\ cur'["handler"] = cur["handler"]
        BY <2>2, <1>1, <1>b, <1>c
      <4> QED BY <4>1, <4>2, <4>3 DEF Cancelled, handlerAt
    <3>2. \A q \in Pollers : Marking(q, t)' => q = p
      BY <3>0, <2>2, <1>b, <1>d DEF Marking
    <3>3. Marking(p, t)' /\ Cancelled(t)' /\ t \notin timed_out
      <4>1. t \notin timed_out
        BY <3>0, <1>a DEF IInv, Timing
      <4> QED BY <4>1, <3>0 DEF Marking, Cancelled
    <3>4. ASSUME NEW u \in Transfers, u # t
          PROVE  /\ \A q \in Pollers : Marking(q, u)' =>
                       u \in in_flight' /\ accepted'[u] = "timer" /\ timeout'[u] \in 1 .. now' /\ Cancelled(u)'
                 /\ u \in timed_out' => submit'[u] = "idle" /\ accepted'[u] = "timer" /\ timeout'[u] \in 1 .. now'
                 /\ accepted'[u] = "timer" /\ Cancelled(u)' =>
                      u \in timed_out' \/ \E q \in Pollers : Marking(q, u)'
      BY <3>1, <3>4, <1>1 DEF IInv, Timing
    <3> QED BY <3>0, <3>2, <3>3, <3>4, <1>1, <1>c DEF Timing
  <2> QED BY <2>1, <2>2
<1>8. Verdict'
  <2>1. CASE urb' = urb /\ accepted' = accepted /\ pc' = pc /\ cur' = cur
    BY <2>1, <1>1 DEF IInv, Verdict, Told, ToTell, handlerAt
  <2>2. CASE ~(urb' = urb /\ accepted' = accepted /\ pc' = pc /\ cur' = cur)
    <3>1. \/ pc'["handler"] = "mark"
          \/ pc'["handler"] = pc["handler"] /\ cur'["handler"] = cur["handler"]
      BY <2>2, <1>b, <1>c
    <3>2. \A u \in Transfers : ToTell(u)' => ToTell(u)
      BY <3>1 DEF ToTell, handlerAt
    <3>3. status[t] = "none" /\ ~ToTell(t)
      <4>1. t \in in_flight /\ urb[t] = "pending"
        BY <2>2, <1>b
      <4>2. status[t] = "none" /\ ~Completing(t) /\ ~CallingBack(t)
        BY <4>1, <1>a DEF IInv, Life
      <4> QED BY <4>2 DEF ToTell, Completing, CallingBack
    <3>4. \A u \in Transfers : u # t => accepted'[u] = accepted[u]
      BY <2>2, <1>b
    <3>5. status' = status /\ result' = result
      BY <1>1
    <3>6. ASSUME NEW u \in Transfers, u # t
          PROVE  (ToTell(u)' => Told(u, result)') /\ (status'[u] # "none" => Told(u, status[u])')
      BY <3>2, <3>4, <3>5, <3>6 DEF IInv, Verdict, Told
    <3> QED BY <3>2, <3>3, <3>5, <3>6 DEF Verdict
  <2> QED BY <2>1, <2>2
<1>9. List'
  <2>1. \A u \in Transfers : Listed(u)' <=> Listed(u)
    BY <1>1, <1>2 DEF Listed, handlerAt, TypeOK, Pollers, Completing
  <2> QED BY <2>1, <1>1, ListAlone DEF IInv, TypeOK, f
<1>10. Armed'
  <2>1. f[1] \in handled'
    <3>1. CASE i = 1
      BY <3>1, <1>1, <1>a
    <3>2. CASE i # 1
      <4>1. 1 \in 1 .. i - 1
        BY <3>2, <1>a
      <4> QED BY <4>1 DEF handle_timeout, Expired, f
    <3> QED BY <3>1, <3>2
  <2>2. f' = f
    BY <1>1 DEF f
  <2> QED BY <2>1, <2>2 DEF Armed
<1>11. NoneLeftBehind'
  BY <1>1 DEF IInv, NoneLeftBehind
<1> QED BY <1>3, <1>4, <1>5, <1>6, <1>7, <1>8, <1>9, <1>10, <1>11 DEF IInv

(* A device goes away.                                                     *)
LEMMA UnplugKeeps ==
  ASSUME IInv, NEW h \in Handles, Unplug(h)
  PROVE  IInv'
<1>1. /\ gone' = gone \cup {h}
      /\ UNCHANGED <<now, flying_transfers, timeout, timerfd, handled, timed_out,
                     flying_lock, in_flight, cancelling, submit, duration, pc,
                     cur, systime, rearm, result, leaving, urb, fd_removed,
                     status, accepted>>
  BY DEF Unplug, list, flags, state, app, poller, history
<1>2. TypeOK
  BY DEF IInv
<1>3. TypeOK'
  BY <1>1, <1>2 DEF TypeOK
<1>4. Threads'
  BY <1>1 DEF IInv, Threads, handlerAt
<1>5. Life'
  BY <1>1 DEF IInv, Life, Completing, CallingBack, handlerAt
<1>6. Cancellation'
  BY <1>1 DEF IInv, Cancellation, Cancelled, handlerAt
<1>7. Timing'
  BY <1>1 DEF IInv, Timing, Cancelled, Marking, handlerAt
<1>8. Verdict'
  BY <1>1 DEF IInv, Verdict, Told, ToTell, handlerAt
<1>9. List'
  <2>1. \A u \in Transfers : Listed(u)' <=> Listed(u)
    BY <1>1 DEF Listed, handlerAt
  <2> QED BY <2>1, <1>1, ListAlone DEF IInv, TypeOK, f
<1>10. Armed'
  BY <1>1, ArmedAlone DEF IInv, list
<1>11. NoneLeftBehind'
  BY <1>1 DEF IInv, NoneLeftBehind
<1> QED BY <1>3, <1>4, <1>5, <1>6, <1>7, <1>8, <1>9, <1>10, <1>11 DEF IInv

(* Time passes: what was over stays over.                                  *)
LEMMA TickKeeps ==
  ASSUME IInv, Tick
  PROVE  IInv'
<1>1. /\ now < MaxTime /\ now' = now + 1
      /\ UNCHANGED <<flying_transfers, timeout, timerfd, handled, timed_out,
                     flying_lock, in_flight, cancelling, submit, duration, pc,
                     cur, systime, rearm, result, leaving, urb, gone, fd_removed,
                     status, accepted>>
  BY DEF Tick, list, flags, state, app, poller, devices, history
<1>2. TypeOK
  BY DEF IInv
<1>3. TypeOK'
  BY <1>1, <1>2, MaxTimeAssumption DEF TypeOK
<1>4. Threads'
  BY <1>1 DEF IInv, Threads, TypeOK, handlerAt
<1>5. Life'
  BY <1>1 DEF IInv, Life, Completing, CallingBack, handlerAt
<1>6. Cancellation'
  BY <1>1 DEF IInv, Cancellation, Cancelled, handlerAt
<1>7. Timing'
  BY <1>1 DEF IInv, Timing, TypeOK, Cancelled, Marking, handlerAt
<1>8. Verdict'
  BY <1>1 DEF IInv, Verdict, Told, ToTell, handlerAt
<1>9. List'
  <2>1. \A u \in Transfers : Listed(u)' <=> Listed(u)
    BY <1>1 DEF Listed, handlerAt
  <2> QED BY <2>1, <1>1, ListAlone DEF IInv, TypeOK, f
<1>10. Armed'
  BY <1>1, ArmedAlone DEF IInv, list
<1>11. NoneLeftBehind'
  BY <1>1 DEF IInv, NoneLeftBehind
<1> QED BY <1>3, <1>4, <1>5, <1>6, <1>7, <1>8, <1>9, <1>10, <1>11 DEF IInv

(* Nothing happens.                                                        *)
LEMMA IdleKeeps ==
  ASSUME IInv, UNCHANGED vars
  PROVE  IInv'
<1>1. /\ UNCHANGED <<now, flying_transfers, timeout, timerfd, handled, timed_out,
                     flying_lock, in_flight, cancelling, submit, duration, pc,
                     cur, systime, rearm, result, leaving, urb, gone, fd_removed,
                     status, accepted>>
  BY DEF vars, list, flags, state, app, poller, devices, history
<1>2. TypeOK
  BY DEF IInv
<1>3. TypeOK'
  BY <1>1, <1>2 DEF TypeOK
<1>4. Threads'
  BY <1>1 DEF IInv, Threads, handlerAt
<1>5. Life'
  BY <1>1 DEF IInv, Life, Completing, CallingBack, handlerAt
<1>6. Cancellation'
  BY <1>1 DEF IInv, Cancellation, Cancelled, handlerAt
<1>7. Timing'
  BY <1>1 DEF IInv, Timing, Cancelled, Marking, handlerAt
<1>8. Verdict'
  BY <1>1 DEF IInv, Verdict, Told, ToTell, handlerAt
<1>9. List'
  <2>1. \A u \in Transfers : Listed(u)' <=> Listed(u)
    BY <1>1 DEF Listed, handlerAt
  <2> QED BY <2>1, <1>1, ListAlone DEF IInv, TypeOK, f
<1>10. Armed'
  BY <1>1, ArmedAlone DEF IInv, list
<1>11. NoneLeftBehind'
  BY <1>1 DEF IInv, NoneLeftBehind
<1> QED BY <1>3, <1>4, <1>5, <1>6, <1>7, <1>8, <1>9, <1>10, <1>11 DEF IInv

-----------------------------------------------------------------------------
(* The invariant holds at first.                                           *)
LEMMA InitKeeps == Init => IInv
<1> SUFFICES ASSUME Init PROVE IInv
  OBVIOUS
<1>0. MaxTime \in Nat /\ 1 \in 1 .. MaxTime /\ 0 \in 0 .. MaxTime
  BY MaxTimeAssumption
<1>1. TypeOK
  <2>1. /\ now \in 1 .. MaxTime /\ timerfd \in 0 .. MaxTime
        /\ flying_transfers \in Seq(Transfers) /\ flying_lock \in Pollers \cup {None}
        /\ timeout \in [Transfers -> 0 .. MaxTime] /\ duration \in [Transfers -> 0 .. MaxTime]
        /\ systime \in [Pollers -> 0 .. MaxTime] /\ cur \in [Pollers -> Transfers \cup {None}]
    BY <1>0 DEF Init
  <2>2. /\ pc \in [Pollers -> {"idle", "scan", "mark", "readTimedOut", "remove", "clear",
                              "callback", "disconnect"}]
        /\ pc["waiter"] \in {"idle", "scan", "mark"}
    BY DEF Init, Pollers
  <2>3. /\ submit \in [Transfers -> {"idle", "backend", "submitted", "failed"}]
        /\ urb \in [Transfers -> {"none", "pending", "done", "discarded", "lost"}]
        /\ accepted \in [Transfers -> {"none", "user", "timer"}]
    BY DEF Init
  <2>4. /\ status \in [Transfers -> {"none"} \cup Results] /\ result \in Results
        /\ rearm \in BOOLEAN /\ leaving \in Handles \cup {None}
    BY DEF Init, Results
  <2>5. /\ handled \subseteq Transfers /\ timed_out \subseteq Transfers
        /\ in_flight \subseteq Transfers /\ cancelling \subseteq Transfers
        /\ gone \subseteq Handles /\ fd_removed \subseteq gone
    BY DEF Init
  <2> QED BY <2>1, <2>2, <2>3, <2>4, <2>5 DEF TypeOK
<1>2. f = << >> /\ \A u \in Transfers : ~Listed(u)
  BY DEF Init, f, Listed
<1>3. List /\ Armed
  BY <1>2 DEF List, Once, Only, Every, Sorted, Armed
<1>4. Threads
  BY <1>0, NobodyAssumption DEF Init, Threads, handlerAt, Pollers
<1>5. Life /\ Cancellation /\ Timing /\ Verdict
  BY DEF Init, Life, Cancellation, Timing, Verdict, Completing, CallingBack, ToTell,
     Told, Cancelled, Marking, handlerAt, Pollers
<1>6. NoneLeftBehind
  BY DEF Init, NoneLeftBehind
<1> QED BY <1>1, <1>3, <1>4, <1>5, <1>6 DEF IInv

(* Every step keeps it.                                                    *)
LEMMA NextKeeps == IInv /\ [Next]_vars => IInv'
<1> SUFFICES ASSUME IInv, [Next]_vars PROVE IInv'
  OBVIOUS
<1>1. ASSUME NEW t \in Transfers, NEW d \in Timeouts[t], Submit(t, d) PROVE IInv'
  BY <1>1, SubmitKeeps
<1>2. ASSUME NEW t \in Transfers, Submission(t) PROVE IInv'
  BY <1>2, SubmitUrbsKeeps, SubmitDoneKeeps, SubmitFailsKeeps DEF Submission
<1>3. ASSUME NEW t \in Transfers, RemoveFailed(t) PROVE IInv'
  BY <1>3, RemoveFailedKeeps
<1>4. ASSUME NEW t \in Transfers, CancelTransfer(t) PROVE IInv'
  BY <1>4, CancelTransferKeeps
<1>5. ASSUME NEW t \in Transfers, Reap(t) \/ UrbDone(t) \/ UrbLost(t) PROVE IInv'
  BY <1>5, ReapKeeps, UrbComesBack
<1>6. ASSUME Completion \/ ClearInFlight \/ Callback \/ Leave PROVE IInv'
  BY <1>6, ReadTimedOutKeeps, RemoveCompletedKeeps, ClearInFlightKeeps, CallbackKeeps,
     DisconnectTransferKeeps, DisconnectDoneKeeps DEF Completion, Leave
<1>7. ASSUME TimerFires \/ PollTimesOut \/ WaitTimesOut PROVE IInv'
  <2>1. rearm \in BOOLEAN
    BY DEF IInv, TypeOK
  <2>2. \E p \in Pollers : StartScan(p) /\ rearm' \in BOOLEAN
    BY <1>7, <2>1 DEF TimerFires, PollTimesOut, WaitTimesOut, Pollers
  <2> QED BY <2>2, StartScanKeeps
<1>8. ASSUME NEW p \in Pollers, Scan(p) PROVE IInv'
  <2>1. ASSUME NEW i \in DOMAIN flying_transfers, handle_timeout(p, i) PROVE IInv'
    BY <2>1, HandleTimeoutKeeps
  <2> QED BY <1>8, <2>1, MarkTimedOutKeeps, EndScanKeeps DEF Scan
<1>9. ASSUME NEW h \in Handles, Disconnect(h) \/ Unplug(h) PROVE IInv'
  BY <1>9, DisconnectKeeps, UnplugKeeps
<1>10. ASSUME Tick PROVE IInv'
  BY <1>10, TickKeeps
<1>11. ASSUME UNCHANGED vars PROVE IInv'
  BY <1>11, IdleKeeps
<1> QED BY <1>1, <1>2, <1>3, <1>4, <1>5, <1>6, <1>7, <1>8, <1>9, <1>10, <1>11 DEF Next

(* The invariant holds, for any number of transfers, handles and           *)
(* timeouts: libusb_submit_transfer, handle_timeout and the completion     *)
(* agree on the list, the flags and the timerfd.                           *)
THEOREM Invariant == Safety => []IInv
<1> QED BY InitKeeps, NextKeeps, PTL DEF Safety

(* Types, for any constants: timeout and systime stay within the clock of  *)
(* the model (calculate_timeout, handle_timeouts_locked).                  *)
THEOREM AlwaysTyped == Safety => []TypeOK
<1>1. IInv => TypeOK
  BY DEF IInv
<1> QED BY <1>1, Invariant, PTL

(* add_to_flying_list and remove_from_flying_list keep the list sorted     *)
(* and exactly as long as the transfers that fly.                          *)
THEOREM ListAlwaysExact == Safety => []ListExact
<1>1. IInv => ListExact
  BY ListIsExact DEF IInv, TypeOK, f
<1> QED BY <1>1, Invariant, PTL

(* The timerfd is armed in time for every timeout that is not handled, or  *)
(* a completion is due that looks for it (arm_timerfd_for_next_timeout).   *)
THEOREM TimerAlwaysArmed == Safety => []TimerArmed
<1>1. IInv => TimerArmed
  BY DEF IInv, TypeOK, f, Armed, TimerArmed
<1> QED BY <1>1, Invariant, PTL

(* The status of a callback tells who ended the transfer, whichever of a   *)
(* timeout, a libusb_cancel_transfer and a completion came first           *)
(* (usbi_handle_transfer_cancellation).                                    *)
THEOREM StatusAlwaysTells == Safety => []StatusTellsWho
<1>1. IInv => StatusTellsWho
  BY DEF IInv, Timing, Verdict, Told, StatusTellsWho
<1> QED BY <1>1, Invariant, PTL

(* After usbi_handle_disconnect no transfer of the device is in flight,    *)
(* although a libusb_submit_transfer may run beside it.                    *)
THEOREM NoneIsLeftBehind == Safety => []NoneLeftBehind
<1>1. IInv => NoneLeftBehind
  BY DEF IInv
<1> QED BY <1>1, Invariant, PTL

-----------------------------------------------------------------------------
(* Nothing changes for the user of the transfer.                           *)
Same(u) == /\ Outstanding(u)' = Outstanding(u)
           /\ status'[u] = status[u] /\ accepted'[u] = accepted[u]

(* That is a stuttering step.                                              *)
LEMMA SameStutters ==
  ASSUME NEW u \in Transfers, Same(u)
  PROVE  UNCHANGED Transfer(u)!vars
<1> QED BY DEF Same, Transfer!vars

(* A cancellation that the backend accepts is AsyncTransfer's.             *)
LEMMA AcceptedIsCancel ==
  ASSUME IInv, NEW t \in Transfers, NEW who \in {"user", "timer"},
         t \in in_flight, urb[t] = "pending",
         in_flight' = in_flight, status' = status, accepted' = [accepted EXCEPT ![t] = who],
         pc'["handler"] = "callback" <=> pc["handler"] = "callback",
         pc["handler"] = "callback" => cur'["handler"] = cur["handler"],
         NEW u \in Transfers
  PROVE  [Transfer(u)!Next]_(Transfer(u)!vars)
<1>1. Outstanding(u)' <=> Outstanding(u)
  BY DEF Outstanding
<1>2. accepted \in [Transfers -> {"none", "user", "timer"}] /\ accepted[t] = "none"
  BY DEF IInv, TypeOK, Cancellation
<1>3. CASE u = t
  <2>1. Transfer(u)!Cancel
    BY <1>1, <1>2, <1>3 DEF Transfer!Cancel, Outstanding
  <2> QED BY <2>1 DEF Transfer!Next
<1>4. CASE u # t
  <2>1. Same(u)
    BY <1>1, <1>2, <1>4 DEF Same, Outstanding
  <2> QED BY <2>1, SameStutters
<1> QED BY <1>3, <1>4

(* A submission that succeeds is AsyncTransfer's.                          *)
LEMMA SubmitDoneMaps ==
  ASSUME IInv, NEW t \in Transfers, SubmitDone(t), NEW u \in Transfers
  PROVE  [Transfer(u)!Next]_(Transfer(u)!vars)
<1>1. /\ submit[t] = "submitted" /\ in_flight' = in_flight \cup {t} /\ pc' = pc /\ cur' = cur
      /\ status' = [status EXCEPT ![t] = "none"] /\ accepted' = [accepted EXCEPT ![t] = "none"]
  BY DEF SubmitDone, poller
<1>2. TypeOK
  BY DEF IInv
<1>3. CASE u = t
  <2>1. ~Outstanding(u) /\ Outstanding(u)'
    BY <1>1, <1>3 DEF IInv, Life, CallingBack, handlerAt, Outstanding
  <2>2. status'[u] = "none" /\ accepted'[u] = "none"
    BY <1>1, <1>2, <1>3 DEF TypeOK
  <2>3. Transfer(u)!Submit
    BY <2>1, <2>2 DEF Transfer!Submit
  <2> QED BY <2>3 DEF Transfer!Next
<1>4. CASE u # t
  <2>1. Same(u)
    BY <1>1, <1>2, <1>4 DEF Same, TypeOK, Outstanding
  <2> QED BY <2>1, SameStutters
<1> QED BY <1>3, <1>4

(* A callback reports, and what it may.                                    *)
LEMMA CallbackMaps ==
  ASSUME IInv, Callback, NEW u \in Transfers
  PROVE  [Transfer(u)!Next]_(Transfer(u)!vars)
<1>1. /\ pc["handler"] = "callback" /\ in_flight' = in_flight /\ accepted' = accepted
      /\ status' = [status EXCEPT ![cur["handler"]] = result] /\ pc'["handler"] # "callback"
  BY DEF Callback, At, state, IInv, TypeOK, Pollers
<1>2. TypeOK
  BY DEF IInv
<1>3. CASE u = cur["handler"]
  <2>1. Outstanding(u) /\ ~Outstanding(u)'
    BY <1>1, <1>3 DEF IInv, Life, CallingBack, handlerAt, Outstanding
  <2>2. status'[u] = result /\ result \in Transfer(u)!Statuses
    BY <1>1, <1>2, <1>3 DEF TypeOK, Results, Transfer!Statuses
  <2>3. Told(u, result)
    BY <1>1, <1>3 DEF IInv, Verdict, ToTell, handlerAt
  <2>4. Transfer(u)!Report(result)
    BY <1>1, <2>1, <2>2, <2>3 DEF Told, Transfer!Report
  <2> QED BY <2>2, <2>4 DEF Transfer!Next
<1>4. CASE u # cur["handler"]
  <2>1. Same(u)
    BY <1>1, <1>2, <1>4 DEF Same, TypeOK, Outstanding
  <2> QED BY <2>1, SameStutters
<1> QED BY <1>3, <1>4

(* Every other step changes nothing for the user.                          *)
LEMMA NextMaps ==
  ASSUME IInv, [Next]_vars, NEW u \in Transfers
  PROVE  [Transfer(u)!Next]_(Transfer(u)!vars)
<1>0. TypeOK
  BY DEF IInv
<1> DEFINE Quiet == /\ in_flight' = in_flight /\ status' = status /\ accepted' = accepted
                    /\ pc'["handler"] # "callback"
                    /\ pc["handler"] # "callback"
           Away  == /\ in_flight' = in_flight /\ status' = status /\ accepted' = accepted
                    /\ pc'["handler"] = pc["handler"] /\ cur'["handler"] = cur["handler"]
<1>a. Quiet \/ Away => [Transfer(u)!Next]_(Transfer(u)!vars)
  <2>1. Quiet \/ Away => Same(u)
    BY DEF Same, Outstanding
  <2> QED BY <2>1, SameStutters
<1>1. ASSUME NEW t \in Transfers, NEW d \in Timeouts[t], Submit(t, d) PROVE Away
  BY <1>1 DEF Submit, poller, history
<1>2. ASSUME NEW t \in Transfers, SubmitUrbs(t) \/ SubmitFails(t) \/ RemoveFailed(t) PROVE Away
  BY <1>2 DEF SubmitUrbs, SubmitFails, RemoveFailed, state, poller, history
<1>3. ASSUME NEW t \in Transfers, CancelTransfer(t)
      PROVE  [Transfer(u)!Next]_(Transfer(u)!vars)
  <2>1. CASE Accepts(t)
    <3>1. /\ t \in in_flight /\ urb[t] = "pending" /\ in_flight' = in_flight /\ status' = status
          /\ accepted' = [accepted EXCEPT ![t] = "user"] /\ pc' = pc /\ cur' = cur
      BY <1>3, <2>1 DEF CancelTransfer, libusb_cancel_transfer, Accepts, poller
    <3> QED BY <3>1, AcceptedIsCancel
  <2>2. CASE ~Accepts(t)
    <3>1. Away
      BY <1>3, <2>2 DEF CancelTransfer, libusb_cancel_transfer, poller
    <3> QED BY <3>1, <1>a
  <2> QED BY <2>1, <2>2
<1>4. ASSUME NEW t \in Transfers, UrbDone(t) \/ UrbLost(t) PROVE Away
  BY <1>4 DEF UrbDone, UrbLost, state, poller, history
<1>5. ASSUME NEW t \in Transfers, Reap(t) PROVE Quiet
  BY <1>5, <1>0 DEF Reap, At, state, history, TypeOK, Pollers
<1>6. ASSUME Completion PROVE Quiet
  BY <1>6, <1>0 DEF Completion, ReadTimedOut, RemoveCompleted, At, state, history,
     TypeOK, Pollers
<1>7. ASSUME ClearInFlight PROVE Same(u)
  BY <1>7, <1>0 DEF ClearInFlight, At, state, history, TypeOK, Pollers, IInv, Life,
     Completing,
                   handlerAt, Outstanding, Same
<1>8. ASSUME Leave PROVE Quiet
  BY <1>8, <1>0 DEF Leave, DisconnectTransfer, DisconnectDone, At, state, history,
     TypeOK, Pollers
<1>9. ASSUME NEW p \in Pollers, StartScan(p) PROVE Quiet \/ Away
  BY <1>9, <1>0 DEF StartScan, At, state, history, TypeOK, Pollers
<1>10. ASSUME NEW p \in Pollers, MarkTimedOut(p) \/ EndScan(p) PROVE Quiet \/ Away
  BY <1>10, <1>0 DEF MarkTimedOut, EndScan, At, state, history, TypeOK, Pollers
<1>11. ASSUME NEW p \in Pollers, NEW i \in DOMAIN flying_transfers, handle_timeout(p, i)
       PROVE  [Transfer(u)!Next]_(Transfer(u)!vars)
  <2>1. PICK t \in Transfers : t = flying_transfers[i]
    BY <1>0 DEF TypeOK
  <2>2. CASE Accepts(t)
    <3>1. /\ t \in in_flight /\ urb[t] = "pending" /\ in_flight' = in_flight /\ status' = status
          /\ accepted' = [accepted EXCEPT ![t] = "timer"]
          /\ pc[p] = "scan" /\ pc' = [pc EXCEPT ![p] = "mark"] /\ cur' = [cur EXCEPT ![p] = t]
      BY <1>11, <2>1, <2>2 DEF handle_timeout, libusb_cancel_transfer, Accepts, At
    <3>2. /\ pc'["handler"] = "callback" <=> pc["handler"] = "callback"
          /\ pc["handler"] = "callback" => cur'["handler"] = cur["handler"]
      BY <3>1, <1>0 DEF TypeOK, Pollers
    <3> QED BY <3>1, <3>2, AcceptedIsCancel
  <2>3. CASE ~Accepts(t)
    <3>1. Away
      BY <1>11, <2>1, <2>3 DEF handle_timeout, libusb_cancel_transfer
    <3> QED BY <3>1, <1>a
  <2> QED BY <2>2, <2>3
<1>12. ASSUME NEW h \in Handles, Disconnect(h) PROVE Quiet
  BY <1>12, <1>0 DEF Disconnect, At, state, history, TypeOK, Pollers
<1>13. ASSUME NEW h \in Handles, Unplug(h) PROVE Away
  BY <1>13 DEF Unplug, state, poller, history
<1>14. ASSUME Tick PROVE Away
  BY <1>14 DEF Tick, state, poller, history
<1>15. ASSUME UNCHANGED vars PROVE Away
  BY <1>15 DEF vars, state, poller, history
<1> HIDE DEF Quiet, Away
<1>16. ASSUME NEW p \in Pollers, Scan(p) PROVE [Transfer(u)!Next]_(Transfer(u)!vars)
  BY <1>16, <1>a, <1>10, <1>11 DEF Scan
<1>17. ASSUME NEW t \in Transfers, Submission(t) PROVE [Transfer(u)!Next]_(Transfer(u)!vars)
  BY <1>17, <1>a, <1>2, SubmitDoneMaps DEF Submission
<1>18. ASSUME TimerFires \/ PollTimesOut \/ WaitTimesOut
       PROVE  [Transfer(u)!Next]_(Transfer(u)!vars)
  BY <1>18, <1>a, <1>9 DEF TimerFires, PollTimesOut, WaitTimesOut, Pollers
<1>19. ASSUME ClearInFlight \/ Callback PROVE [Transfer(u)!Next]_(Transfer(u)!vars)
  BY <1>19, <1>7, SameStutters, CallbackMaps
<1> QED BY <1>a, <1>1, <1>2, <1>3, <1>4, <1>5, <1>6, <1>8, <1>12, <1>13, <1>14,
   <1>15, <1>16, <1>17,
           <1>18, <1>19 DEF Next

(* The initial states are those of AsyncTransfer.                          *)
LEMMA InitMaps ==
  ASSUME Init, NEW u \in Transfers
  PROVE  Transfer(u)!Init
<1> QED BY DEF Init, Outstanding, Pollers, Transfer!Init

(* Every transfer is an AsyncTransfer: each submission that succeeds is    *)
(* reported once, as cancelled or timed out only if such a cancellation    *)
(* was accepted, and then always unless the device is gone                 *)
(* (libusb_submit_transfer, libusb_cancel_transfer,                        *)
(* usbi_handle_transfer_completion).                                       *)
THEOREM TransfersImplemented == Safety => ImplementsTransfers
<1>1. Init => \A t \in Transfers : Transfer(t)!Init
  BY InitMaps
<1>2. IInv /\ [Next]_vars => [\A t \in Transfers : [Transfer(t)!Next]_(Transfer(t)!vars)]_vars
  BY NextMaps
<1> QED BY <1>1, <1>2, Invariant, PTL DEF Safety, ImplementsTransfers
=============================================================================

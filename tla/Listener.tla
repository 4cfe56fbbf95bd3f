------------------------------ MODULE Listener ------------------------------
(***************************************************************************)
(* vsftpd's standalone listener (standalone.c of vsftpd 3.0.3; 3.0.2 has   *)
(* the same file): it accepts clients, counts them in all and for each     *)
(* address, forks a session for each, and takes its children off the       *)
(* counts when they have exited.  SIGCHLD and SIGHUP are served            *)
(* synchronously (sysutil.c): a signal handler only marks the signal as    *)
(* pending and starts an alarm, and the listener calls the real handlers   *)
(* after each accept().                                                    *)
(***************************************************************************)
EXTENDS Naturals, FiniteSets

CONSTANTS
  Addresses,     \* addresses clients come from
  Pids,          \* process ids of children; the kernel uses them again
  None,          \* no address
  max_clients,   \* tunable_max_clients, 0: no limit
  max_per_ip     \* tunable_max_per_ip, 0: no limit

ASSUME NoneAssumption   == None \notin Addresses
ASSUME PidsAssumption   == IsFiniteSet(Pids)
ASSUME LimitsAssumption == max_clients \in Nat /\ max_per_ip \in Nat

VARIABLES
  pc,            \* where the listener is
  client,        \* the address accept() has returned, None if it failed
  s_children, ip_count, pid_ip,   \* 0, and None, stand for "no entry"
  pending,       \* signals whose `pending' is set
  alarm,         \* an alarm is running
  reload_due,    \* the configuration has changed since it was last read
  \* the children
  child,         \* state of each process
  from,          \* its client's address
  launch         \* vsf_client_launch, as the child got it

signals  == <<pending, alarm, reload_due>>
counts   == <<s_children, ip_count, pid_ip>>
children == <<child, from, launch>>
vars     == <<pc, client, counts, signals, children>>

Signals == {"HUP", "CHLD"}

Init ==
  /\ pc = "accept" /\ client = None
  /\ s_children = 0 /\ ip_count = [a \in Addresses |-> 0]
  /\ pid_ip = [p \in Pids |-> None]
  /\ pending = {} /\ alarm = FALSE /\ reload_due = FALSE
  /\ child = [p \in Pids |-> "none"] /\ from = [p \in Pids |-> None]
  /\ launch = [p \in Pids |-> [num_children |-> 0, num_this_ip |-> 0]]

-----------------------------------------------------------------------------
(* vsf_sysutil_common_sighandler; a blocked accept() returns with EINTR.   *)
Deliver(s) ==
  /\ pending' = pending \cup {s}
  /\ alarm' = TRUE
  /\ pc' = IF pc = "blocked" THEN "testHUP" ELSE pc

(* SIGALRM fires again every second, until somebody calls alarm(0).        *)
AlarmFires ==
  /\ alarm /\ pc = "blocked"
  /\ pc' = "testHUP"
  /\ UNCHANGED <<client, counts, signals, children>>

SigHup ==
  /\ Deliver("HUP")
  /\ reload_due' = TRUE
  /\ UNCHANGED <<client, counts, children>>

(* Mutant of OverLimits: the client itself is not counted.                 *)
OverLimits_OffByOne(l) ==
  \/ max_clients > 0 /\ l.num_children > max_clients + 1
  \/ max_per_ip > 0 /\ l.num_this_ip > max_per_ip + 1

OverLimits(l) ==
  \/ max_clients > 0 /\ l.num_children > max_clients
  \/ max_per_ip > 0 /\ l.num_this_ip > max_per_ip

(* Sessions: check_limits, and an exit at any moment.                      *)
CheckLimits(p) ==
  /\ child[p] = "new"
  /\ child' = [child EXCEPT ![p] =
                 IF OverLimits(launch[p]) THEN "refused" ELSE "serving"]
  /\ UNCHANGED <<pc, client, counts, signals, from, launch>>

ChildExits(p) ==
  /\ child[p] \in {"new", "serving", "refused"}
  /\ child' = [child EXCEPT ![p] = "zombie"]
  /\ Deliver("CHLD")
  /\ UNCHANGED <<client, counts, reload_due, from, launch>>

-----------------------------------------------------------------------------
(* vsf_sysutil_accept_timeout.  A signal that comes before accept() blocks *)
(* does not interrupt it.                                                  *)
Block ==
  /\ pc = "accept"
  /\ pc' = "blocked"
  /\ UNCHANGED <<client, counts, signals, children>>

Accept(a) ==
  /\ pc \in {"accept", "blocked"}
  /\ client' = a /\ pc' = "testHUP"
  /\ UNCHANGED <<counts, signals, children>>

AcceptFails ==
  /\ pc \in {"accept", "blocked"}
  /\ pc' = "testHUP"
  /\ UNCHANGED <<client, counts, signals, children>>

(* vsf_sysutil_check_pending_actions: signals in the order of their        *)
(* numbers, SIGHUP first.                                                  *)
AfterCheck == IF client = None THEN "accept" ELSE "count"

TestHup ==
  /\ pc = "testHUP"
  /\ IF "HUP" \in pending THEN alarm' = FALSE /\ pc' = "clearHUP"
                          ELSE UNCHANGED alarm /\ pc' = "testCHLD"
  /\ UNCHANGED <<client, counts, pending, reload_due, children>>

TestChld ==
  /\ pc = "testCHLD"
  /\ IF "CHLD" \in pending THEN alarm' = FALSE /\ pc' = "clearCHLD"
                           ELSE UNCHANGED alarm /\ pc' = AfterCheck
  /\ UNCHANGED <<client, counts, pending, reload_due, children>>

ClearHup ==
  /\ pc = "clearHUP"
  /\ pending' = pending \ {"HUP"} /\ pc' = "reload"
  /\ UNCHANGED <<client, counts, alarm, reload_due, children>>

ClearChld ==
  /\ pc = "clearCHLD"
  /\ pending' = pending \ {"CHLD"} /\ pc' = "reap"
  /\ UNCHANGED <<client, counts, alarm, reload_due, children>>

handle_sighup ==
  /\ pc = "reload"
  /\ reload_due' = FALSE /\ pc' = "testCHLD"
  /\ UNCHANGED <<client, counts, pending, alarm, children>>

(* drop_ip_count and hash_free_entry; bug() where an entry is missing.     *)
Consistent(a) == a # None /\ ip_count[a] > 0

(* Mutant of Forget: the entry of the process stays in the hash.           *)
Forget_KeepsPid(p) == UNCHANGED pid_ip

Forget(p) == pid_ip' = [pid_ip EXCEPT ![p] = None]

(* Mutant of ReapOne: `if' for `while', one child for each SIGCHLD.        *)
ReapOne_Once(p) ==
  /\ pc = "reap" /\ child[p] = "zombie"
  /\ child' = [child EXCEPT ![p] = "none"]
  /\ s_children' = s_children - 1
  /\ ip_count' = [ip_count EXCEPT ![pid_ip[p]] = @ - 1]
  /\ Forget(p)
  /\ pc' = AfterCheck
  /\ UNCHANGED <<client, signals, from, launch>>

(* handle_sigchld, one child at a time.                                    *)
ReapOne(p) ==
  /\ pc = "reap" /\ child[p] = "zombie"
  /\ child' = [child EXCEPT ![p] = "none"]
  /\ s_children' = s_children - 1
  /\ IF Consistent(pid_ip[p])
     THEN /\ ip_count' = [ip_count EXCEPT ![pid_ip[p]] = @ - 1]
          /\ Forget(p)
          /\ UNCHANGED pc
     ELSE pc' = "bug" /\ UNCHANGED <<ip_count, pid_ip>>
  /\ UNCHANGED <<client, signals, from, launch>>

ReapedAll ==
  /\ pc = "reap" /\ ~\E p \in Pids : child[p] = "zombie"
  /\ pc' = AfterCheck
  /\ UNCHANGED <<client, counts, signals, children>>

-----------------------------------------------------------------------------
(* A client: counted before the fork, so that the child knows the counts.  *)
handle_ip_count ==
  /\ pc = "count"
  /\ s_children' = s_children + 1
  /\ ip_count' = [ip_count EXCEPT ![client] = @ + 1]
  /\ pc' = "fork"
  /\ UNCHANGED <<client, pid_ip, signals, children>>

(* The child runs, and may exit, before the parent has recorded its pid.   *)
Fork(p) ==
  /\ pc = "fork" /\ child[p] = "none"
  /\ child' = [child EXCEPT ![p] = "new"]
  /\ from' = [from EXCEPT ![p] = client]
  /\ launch' = [launch EXCEPT ![p] = [num_children |-> s_children,
                                      num_this_ip |-> ip_count[client]]]
  /\ pc' = "record"
  /\ UNCHANGED <<client, counts, signals>>

Unrecorded(p) == child[p] # "none" /\ pid_ip[p] = None

Record ==
  /\ pc = "record"
  /\ IF \E p \in Pids : Unrecorded(p)
     THEN /\ \E p \in Pids : Unrecorded(p) /\ pid_ip' = [pid_ip EXCEPT ![p] = client]
          /\ pc' = "accept"
     ELSE pc' = "bug" /\ UNCHANGED pid_ip            \* duplicate hash key
  /\ client' = None
  /\ UNCHANGED <<s_children, ip_count, signals, children>>

(* Mutant of ForkFails: the address keeps the client that got no child.    *)
ForkFails_KeepsIpCount ==
  /\ pc = "fork"
  /\ s_children' = s_children - 1
  /\ client' = None /\ pc' = "accept"
  /\ UNCHANGED <<ip_count, pid_ip, signals, children>>

ForkFails ==
  /\ pc = "fork"
  /\ s_children' = s_children - 1
  /\ IF Consistent(client)
     THEN ip_count' = [ip_count EXCEPT ![client] = @ - 1] /\ pc' = "accept"
     ELSE UNCHANGED ip_count /\ pc' = "bug"
  /\ client' = None
  /\ UNCHANGED <<pid_ip, signals, children>>

-----------------------------------------------------------------------------
Check == \/ TestHup \/ ClearHup \/ handle_sighup \/ TestChld \/ ClearChld
         \/ (\E p \in Pids : ReapOne(p)) \/ ReapedAll

Launch == handle_ip_count \/ (\E p \in Pids : Fork(p)) \/ Record \/ ForkFails

Next ==
  \/ Check \/ Launch \/ Block \/ AcceptFails
  \/ \E a \in Addresses : Accept(a)
  \/ AlarmFires \/ SigHup
  \/ \E p \in Pids : CheckLimits(p) \/ ChildExits(p)

Spec == Init /\ [][Next]_vars

-----------------------------------------------------------------------------
Steps == {"accept", "blocked", "testHUP", "clearHUP", "reload", "testCHLD",
          "clearCHLD", "reap", "count", "fork", "record", "bug"}

TypeOK ==
  /\ pc \in Steps /\ client \in Addresses \cup {None}
  /\ s_children \in Nat /\ ip_count \in [Addresses -> Nat]
  /\ pid_ip \in [Pids -> Addresses \cup {None}]
  /\ pending \subseteq Signals /\ alarm \in BOOLEAN /\ reload_due \in BOOLEAN
  /\ child \in [Pids -> {"none", "new", "serving", "refused", "zombie"}]
  /\ from \in [Pids -> Addresses \cup {None}]
  /\ launch \in [Pids -> [num_children : Nat, num_this_ip : Nat]]

(* Children that have not been reaped, in all and of one address.          *)
Unreaped     == {p \in Pids : child[p] # "none"}
UnreapedOf(a) == {p \in Unreaped : from[p] = a}

(* The counts are exact at all times: they hold the children that have not *)
(* been reaped, and the client whose child is about to be forked.          *)
CountsExact ==
  /\ s_children = Cardinality(Unreaped) + (IF pc = "fork" THEN 1 ELSE 0)
  /\ \A a \in Addresses :
       ip_count[a] = Cardinality(UnreapedOf(a)) + (IF pc = "fork" /\ client = a THEN 1 ELSE 0)

(* bug() is never called: no process id is recorded twice, although the    *)
(* kernel uses them again, and every child that is reaped is known with    *)
(* its address, also one that exits at once.                               *)
NeverBug == pc # "bug"

(* "The maximum number of clients which may be connected" (vsftpd.conf.5): *)
(* no more sessions than the limits allow are served at the same time,     *)
(* though every child only looks at the counts of the moment of its fork.  *)
Serving == {p \in Pids : child[p] = "serving"}
WithinLimits ==
  /\ max_clients > 0 => Cardinality(Serving) <= max_clients
  /\ max_per_ip > 0 => \A a \in Addresses :
       Cardinality({p \in Serving : from[p] = a}) <= max_per_ip

(* No child that has exited is forgotten: when the listener is in accept() *)
(* while one waits to be reaped, a SIGCHLD is still pending, although many *)
(* collapse into one, and an alarm runs that will interrupt accept() if the*)
(* signal came just before it ("fire an alarm repeatedly until the signal  *)
(* is handled", sysutil.c:128).                                            *)
ExitsNoticed ==
  pc \in {"accept", "blocked"} /\ (\E p \in Pids : child[p] = "zombie") =>
    "CHLD" \in pending /\ alarm

(* The same for SIGHUP: the listener does not sleep in accept() on one that*)
(* is pending without an alarm to wake it up.                              *)
HupAlarmed == "HUP" \in pending /\ pc = "blocked" => alarm
=============================================================================

-------------------------- MODULE FtpSessionProofs --------------------------
(***************************************************************************)
(* The safety properties of FtpSession, for any number of lines and chunks *)
(* and any setting of the tunables.                                        *)
(*                                                                         *)
(* A check for signals may come between any two steps, and handle_sigurg   *)
(* in the middle of it.  The argument is therefore about Place, the step   *)
(* of the command loop or of the transfer that the session is at or will   *)
(* go on with, and UrgPlace, the same for handle_sigurg (Shape).  Over     *)
(* these, Owing counts the answers that are due, ShutHasReason and         *)
(* OverMeansComplete follow what a shutdown() can be taken for,            *)
(* IdleHandler says whose alarm a session that waits for a command         *)
(* handles, and LoggedBefore that each transfer has been logged by then.   *)
(***************************************************************************)
EXTENDS FtpSession, SequenceTheorems, TLAPS

Checks == {"checkALRM", "checkURG"}
Urgent == {"urgRead", "urgLine", "urgReturn"}
(* The places a check goes back to.                                        *)
Resumed == {"loop", "getCmd", "dispatch", "accept", "refused", "connected",
            "io", "dispose", "result", "abor", "cleanup"}
Places == Resumed \cup {"mark", "close", "closed"}
(* The places reached by writing an answer.                                *)
Answered == {"loop", "io", "abor", "cleanup", "urgReturn"}
Moving == {"mark", "io", "dispose", "close", "closed"}
Serving == {"dispatch", "accept", "refused", "connected", "result"} \cup Moving

PlaceIn(p, s)    == IF s = <<>> THEN p ELSE s[Len(s)]
UrgPlaceIn(p, s) == IF Len(s) = 2 THEN s[1]
                    ELSE IF p \in Urgent THEN p ELSE "none"

(* At pc p with the stack s, where u tells that handle_sigurg runs.        *)
ShapeIn(p, s, u) ==
  \/ p = "exit" /\ s = <<>>
  \/ p \in Places /\ s = <<>> /\ ~u
  \/ p \in Checks /\ ~u /\ \E l \in Resumed : s = <<l>>
  \/ p \in Checks /\ u /\ \E q \in Urgent, l \in Resumed : s = <<q, l>>
  \/ p \in Urgent /\ u /\ \E l \in Resumed : s = <<l>>

Place    == PlaceIn(pc, stack)
UrgPlace == UrgPlaceIn(pc, stack)

Shape ==
  /\ ShapeIn(pc, stack, urg_running)
  /\ unsent \subseteq Answered
  /\ blocked => pc \in Waits \cup Answered

(* pasv_cleanup and port_cleanup precede each other's start.               *)
OneWay == ~(pasv_fd /\ port_sockaddr)

(* A transfer is logged before the next command is read.                   *)
LoggedBefore == Place \in {"getCmd", "dispatch"} => ~log_entry

(* There is a data connection only while it is being used, and only then   *)
(* does handle_sigurg read a line.                                         *)
DataWhileMoving ==
  /\ data_fd => Place \in Moving \cup {"exit"}
  /\ UrgPlace # "none" => Place \in Moving

(* What is due: an answer to the command, to the line that handle_sigurg   *)
(* has read, and to an ABOR.  A transfer that was found stalled is not     *)
(* answered, but then the session ends.                                    *)
Due == (IF UrgPlace = "urgLine" THEN 1 ELSE 0) + (IF abor_received THEN 1 ELSE 0)

Owing ==
  /\ Place \in Serving => owed >= Due + 1 /\ (~merged => owed = Due + 1)
  /\ Place = "getCmd" => owed >= Due /\ (~merged => owed = Due)
  /\ Place \in {"abor", "cleanup", "loop"} =>
       owed >= Due /\ (~merged /\ ~data_timeout => owed = Due)
  /\ abor_received => Place \in Moving \cup {"result", "abor", "exit"}

(* Only an ABOR or a stall shuts the data connection down.                 *)
ShutHasReason == Place \in Moving => (shut => abor_received \/ data_timeout)

AllMoved == IF cmd = "STOR" THEN peer = "ended" ELSE left = 0

OverMeansComplete ==
  /\ Place \in {"dispose", "close", "closed"} /\ retval = 0 =>
       AllMoved \/ (cmd = "STOR" /\ shut)
  /\ Place = "result" /\ retval = 0 => AllMoved /\ ~abor_received /\ ~shut

(* A session that waits for a command has replaced the handler of the last *)
(* transfer, if it has one to replace it by.                               *)
IdleHandler ==
  idle_session_timeout /\ Place = "getCmd" => handler = "idle" /\ ~data_timeout

Account ==
  /\ OneWay /\ DataWhileMoving /\ Owing /\ ShutHasReason /\ OverMeansComplete
  /\ IdleHandler /\ LoggedBefore

IInv == TypeOK /\ Shape /\ Account

-----------------------------------------------------------------------------
(* How the helpers of FtpSession move the session.                         *)
LEMMA PairConcat ==
  ASSUME NEW S, NEW u \in S, NEW l \in S
  PROVE  <<u>> \o <<l>> = <<u, l>>
<1>1. <<u>> \in Seq(S)
  OBVIOUS
<1>2. <<l>> \in Seq(S)
  OBVIOUS
<1>3. <<u, l>> \in Seq(S)
  OBVIOUS
<1>4. Len(<<u>>) = 1 /\ Len(<<l>>) = 1 /\ Len(<<u, l>>) = 2
  OBVIOUS
<1>5. <<u>> \o <<l>> \in Seq(S)
  BY <1>1, <1>2, ConcatProperties
<1>6. Len(<<u>> \o <<l>>) = 2
  BY <1>1, <1>2, <1>4, ConcatProperties
<1>7. (<<u>> \o <<l>>)[1] = u
  BY <1>1, <1>2, <1>4, ConcatProperties
<1>8. (<<u>> \o <<l>>)[2] = l
  BY <1>1, <1>2, <1>4, ConcatProperties
<1>9. ASSUME NEW i \in 1..2
      PROVE  (<<u>> \o <<l>>)[i] = <<u, l>>[i]
  <2>1. i = 1 \/ i = 2
    OBVIOUS
  <2>2. CASE i = 1
    BY <2>2, <1>7
  <2>3. CASE i = 2
    BY <2>3, <1>8
  <2> QED
    BY <2>1, <2>2, <2>3
<1>10. Len(<<u>> \o <<l>>) = Len(<<u, l>>)
       /\ \A i \in 1..Len(<<u>> \o <<l>>) : (<<u>> \o <<l>>)[i] = <<u, l>>[i]
  BY <1>4, <1>6, <1>9
<1> QED
  BY <1>3, <1>5, <1>10, SeqEqual

(* The stack, with nothing, one place and two places on it.                *)
LEMMA One ==
  ASSUME NEW l
  PROVE  Len(<<l>>) = 1 /\ <<l>> # <<>> /\ Head(<<l>>) = l /\ Tail(<<l>>) = <<>>
OBVIOUS

LEMMA Two ==
  ASSUME NEW u, NEW l
  PROVE  /\ Len(<<u, l>>) = 2 /\ <<u, l>> # <<>>
         /\ Head(<<u, l>>) = u /\ Tail(<<u, l>>) = <<l>>
<1>1. Len(<<u, l>>) = 2 /\ <<u, l>> # <<>>
  OBVIOUS
<1>2. Head(<<u, l>>) = u
  OBVIOUS
<1>3. Tail(<<u, l>>) = <<l>>
  OBVIOUS
<1> QED
  BY <1>1, <1>2, <1>3

LEMMA Push == \A l : <<l>> \o <<>> = <<l>>
OBVIOUS

(* Where the session is, in each of its shapes.                            *)
LEMMA AtPlace ==
  ASSUME NEW p, p \notin Urgent
  PROVE  PlaceIn(p, <<>>) = p /\ UrgPlaceIn(p, <<>>) = "none"
BY DEF PlaceIn, UrgPlaceIn

LEMMA InCheck ==
  ASSUME NEW p \in Checks, NEW l
  PROVE  PlaceIn(p, <<l>>) = l /\ UrgPlaceIn(p, <<l>>) = "none"
<1>1. p \notin Urgent
  BY DEF Checks, Urgent
<1> QED
  BY <1>1, One DEF PlaceIn, UrgPlaceIn

LEMMA InUrgent ==
  ASSUME NEW p \in Urgent, NEW l
  PROVE  PlaceIn(p, <<l>>) = l /\ UrgPlaceIn(p, <<l>>) = p
BY One DEF PlaceIn, UrgPlaceIn

LEMMA InUrgentCheck ==
  ASSUME NEW p, NEW u, NEW l
  PROVE  PlaceIn(p, <<u, l>>) = l /\ UrgPlaceIn(p, <<u, l>>) = u
BY Two DEF PlaceIn, UrgPlaceIn

(* What pc tells of the stack.                                             *)
LEMMA Disjoint ==
  /\ \A p \in Places : p \notin Checks /\ p \notin Urgent /\ p # "exit" /\ p # "none"
  /\ \A p \in Checks : p \notin Urgent /\ p # "exit" /\ p # "none"
  /\ \A p \in Urgent : p # "exit" /\ p # "none"
  /\ \A p \in Resumed : p \in Places
BY DEF Places, Resumed, Checks, Urgent

LEMMA AtPlaces ==
  ASSUME Shape, pc \in Places
  PROVE  stack = <<>> /\ ~urg_running /\ Place = pc /\ UrgPlace = "none"
<1>1. stack = <<>> /\ ~urg_running
  BY Disjoint DEF Shape, ShapeIn
<1> QED
  BY <1>1, Disjoint, AtPlace DEF Place, UrgPlace

LEMMA AtUrgent ==
  ASSUME Shape, pc \in Urgent
  PROVE  /\ urg_running /\ UrgPlace = pc
         /\ Place \in Resumed /\ stack = <<Place>>
<1>1. urg_running /\ \E l \in Resumed : stack = <<l>>
  BY Disjoint DEF Shape, ShapeIn
<1>2. PICK l \in Resumed : stack = <<l>>
  BY <1>1
<1>3. Place = l /\ UrgPlace = pc
  BY <1>2, InUrgent DEF Place, UrgPlace
<1> QED
  BY <1>1, <1>2, <1>3

LEMMA AtChecks ==
  ASSUME Shape, pc \in Checks
  PROVE  /\ Place \in Resumed
         /\ \/ ~urg_running /\ stack = <<Place>> /\ UrgPlace = "none"
            \/ urg_running /\ stack = <<UrgPlace, Place>> /\ UrgPlace \in Urgent
<1>1. CASE ~urg_running
  <2>1. PICK l \in Resumed : stack = <<l>>
    BY <1>1, Disjoint DEF Shape, ShapeIn
  <2>2. Place = l /\ UrgPlace = "none"
    BY <2>1, InCheck DEF Place, UrgPlace
  <2> QED
    BY <1>1, <2>1, <2>2
<1>2. CASE urg_running
  <2>1. PICK u \in Urgent, l \in Resumed : stack = <<u, l>>
    BY <1>2, Disjoint DEF Shape, ShapeIn
  <2>2. Place = l /\ UrgPlace = u
    BY <2>1, InUrgentCheck DEF Place, UrgPlace
  <2> QED
    BY <1>2, <2>1, <2>2
<1> QED
  BY <1>1, <1>2

(* How the helpers of FtpSession move the session.                         *)
LEMMA GotoMoves ==
  ASSUME Shape, NEW l \in Places, Goto(l), pc \in Places, UNCHANGED urg_running,
         unsent' \subseteq Answered
  PROVE  Shape' /\ Place' = l /\ UrgPlace' = "none"
<1>1. pc' = l /\ stack' = <<>> /\ ~urg_running' /\ ~blocked'
  BY AtPlaces DEF Goto
<1>2. Shape'
  BY <1>1 DEF Shape, ShapeIn
<1> QED
  BY <1>1, <1>2, Disjoint, AtPlace DEF Place, UrgPlace

LEMMA CheckMoves ==
  ASSUME Shape, NEW l \in Resumed, CheckThen(l), pc \in Places,
         UNCHANGED urg_running, unsent' \subseteq Answered
  PROVE  Shape' /\ Place' = l /\ UrgPlace' = "none"
<1>1. stack = <<>> /\ ~urg_running
  BY AtPlaces
<1>2. pc' = "checkALRM" /\ stack' = <<l>> /\ ~blocked' /\ "checkALRM" \in Checks
  BY <1>1, Push DEF CheckThen, Checks
<1>3. Shape'
  BY <1>1, <1>2 DEF Shape, ShapeIn
<1> QED
  BY <1>2, <1>3, InCheck DEF Place, UrgPlace

LEMMA UrgentCheckMoves ==
  ASSUME Shape, NEW u \in Urgent, CheckThen(u), pc \in Urgent,
         UNCHANGED urg_running, unsent' \subseteq Answered
  PROVE  Shape' /\ Place' = Place /\ UrgPlace' = u
<1>1. urg_running /\ Place \in Resumed /\ stack = <<Place>>
  BY AtUrgent
<1>2. PICK l : l = Place
  OBVIOUS
<1>3. stack' = <<u, l>>
  <2>1. u \in {u, l} /\ l \in {u, l}
    OBVIOUS
  <2>2. <<u>> \o <<l>> = <<u, l>>
    BY <2>1, PairConcat
  <2> QED
    BY <1>1, <1>2, <2>2 DEF CheckThen
<1>4. pc' = "checkALRM" /\ ~blocked' /\ "checkALRM" \in Checks
  BY DEF CheckThen, Checks
<1>5. Shape'
  BY <1>1, <1>2, <1>3, <1>4 DEF Shape, ShapeIn
<1>6. Place' = l /\ UrgPlace' = u
  BY <1>3, InUrgentCheck DEF Place, UrgPlace
<1> QED
  BY <1>2, <1>5, <1>6

(* A check goes on, and ends.                                              *)
LEMMA CheckGoesOn ==
  ASSUME Shape, Goto("checkURG"), pc \in Checks,
         UNCHANGED <<urg_running, unsent>>
  PROVE  Shape' /\ Place' = Place /\ UrgPlace' = UrgPlace
<1>1. PICK l, u : l = Place /\ u = UrgPlace
  OBVIOUS
<1>2. pc' = "checkURG" /\ "checkURG" \in Checks /\ ~blocked'
  BY DEF Goto, Checks
<1>3. l \in Resumed
  BY <1>1, AtChecks
<1>4. CASE ~urg_running
  <2>1. stack' = <<l>> /\ u = "none"
    BY <1>1, <1>4, AtChecks DEF Goto
  <2>2. Shape'
    BY <1>2, <1>3, <1>4, <2>1 DEF Shape, ShapeIn
  <2>3. Place' = l /\ UrgPlace' = u
    BY <1>2, <2>1, InCheck DEF Place, UrgPlace
  <2> QED
    BY <1>1, <2>2, <2>3
<1>5. CASE urg_running
  <2>1. stack' = <<u, l>> /\ u \in Urgent
    BY <1>1, <1>5, AtChecks DEF Goto
  <2>2. Shape'
    BY <1>2, <1>3, <1>5, <2>1 DEF Shape, ShapeIn
  <2>3. Place' = l /\ UrgPlace' = u
    BY <2>1, InUrgentCheck DEF Place, UrgPlace
  <2> QED
    BY <1>1, <2>2, <2>3
<1> QED
  BY <1>4, <1>5

LEMMA ResumeMoves ==
  ASSUME Shape, Resume, pc \in Checks, UNCHANGED <<urg_running, unsent>>
  PROVE  Shape' /\ Place' = Place /\ UrgPlace' = UrgPlace
<1>1. PICK l, u : l = Place /\ u = UrgPlace
  OBVIOUS
<1>2. l \in Resumed
  BY <1>1, AtChecks
<1>3. CASE ~urg_running
  <2>1. stack = <<l>> /\ u = "none"
    BY <1>1, <1>3, AtChecks
  <2>2. pc' = l /\ stack' = <<>> /\ ~blocked'
    BY <2>1, One DEF Resume
  <2>3. Shape'
    BY <1>2, <1>3, <2>2, Disjoint DEF Shape, ShapeIn
  <2>4. Place' = l /\ UrgPlace' = u
    BY <1>2, <2>1, <2>2, Disjoint, AtPlace DEF Place, UrgPlace
  <2> QED
    BY <1>1, <2>3, <2>4
<1>4. CASE urg_running
  <2>1. stack = <<u, l>> /\ u \in Urgent
    BY <1>1, <1>4, AtChecks
  <2>2. pc' = u /\ stack' = <<l>> /\ ~blocked'
    BY <2>1, Two DEF Resume
  <2>3. Shape'
    BY <1>2, <1>4, <2>1, <2>2 DEF Shape, ShapeIn
  <2>4. Place' = l /\ UrgPlace' = u
    BY <2>1, <2>2, InUrgent DEF Place, UrgPlace
  <2> QED
    BY <1>1, <2>3, <2>4
<1> QED
  BY <1>3, <1>4

(* handle_sigurg begins, and returns.                                      *)
LEMMA UrgentBegins ==
  ASSUME Shape, Goto("urgRead"), pc \in Checks, ~urg_running, urg_running' = TRUE,
         UNCHANGED unsent
  PROVE  Shape' /\ Place' = Place /\ UrgPlace' = "urgRead" /\ UrgPlace = "none"
<1>1. PICK l : l = Place
  OBVIOUS
<1>2. l \in Resumed /\ stack = <<l>> /\ UrgPlace = "none"
  BY <1>1, AtChecks
<1>3. pc' = "urgRead" /\ stack' = <<l>> /\ ~blocked' /\ "urgRead" \in Urgent
  BY <1>2 DEF Goto, Urgent
<1>4. Shape'
  BY <1>2, <1>3 DEF Shape, ShapeIn
<1>5. Place' = l /\ UrgPlace' = "urgRead"
  BY <1>3, InUrgent DEF Place, UrgPlace
<1> QED
  BY <1>1, <1>2, <1>4, <1>5

LEMMA UrgentReturns ==
  ASSUME Shape, Resume, pc \in Urgent, urg_running' = FALSE, UNCHANGED unsent
  PROVE  Shape' /\ Place' = Place /\ UrgPlace' = "none"
<1>1. PICK l : l = Place
  OBVIOUS
<1>2. l \in Resumed /\ stack = <<l>>
  BY <1>1, AtUrgent
<1>3. pc' = l /\ stack' = <<>> /\ ~blocked'
  BY <1>2, One DEF Resume
<1>4. Shape'
  BY <1>2, <1>3, Disjoint DEF Shape, ShapeIn
<1>5. Place' = l /\ UrgPlace' = "none"
  BY <1>2, <1>3, Disjoint, AtPlace DEF Place, UrgPlace
<1> QED
  BY <1>1, <1>4, <1>5

LEMMA ExitMoves ==
  ASSUME Exit, unsent' \subseteq Answered
  PROVE  Shape' /\ Place' = "exit" /\ UrgPlace' = "none"
<1>1. pc' = "exit" /\ stack' = <<>> /\ ~blocked' /\ "exit" \notin Urgent
  BY DEF Exit, Urgent
<1>2. Shape'
  BY <1>1 DEF Shape, ShapeIn
<1> QED
  BY <1>1, <1>2, AtPlace DEF Place, UrgPlace

LEMMA StaysPut ==
  ASSUME Shape, UNCHANGED <<pc, stack, urg_running, unsent>>,
         blocked' => pc \in Waits \cup Answered
  PROVE  Shape' /\ Place' = Place /\ UrgPlace' = UrgPlace
BY DEF Shape, Place, UrgPlace

(* A signal moves the session only from close() to the close() after it.   *)
LEMMA DeliverMoves ==
  ASSUME Shape, NEW s, Deliver(s), UNCHANGED <<urg_running, unsent>>
  PROVE  /\ Shape' /\ UrgPlace' = UrgPlace
         /\ Place' = Place \/ (Place = "close" /\ Place' = "closed")
<1>1. CASE ~blocked
  BY <1>1, StaysPut DEF Deliver
<1>2. CASE blocked /\ pc = "close"
  <2>1. Goto("closed") /\ pc \in Places /\ "closed" \in Places
    BY <1>2 DEF Deliver, Places
  <2> QED
    BY <1>2, <2>1, GotoMoves, AtPlaces DEF Shape
<1>3. CASE blocked /\ pc \in {"getCmd", "accept", "io", "loop", "abor", "cleanup"}
  <2>1. CheckThen(pc) /\ pc \in Places /\ pc \in Resumed
    BY <1>3 DEF Deliver, Places, Resumed
  <2>2. PICK l \in Resumed : l = pc
    BY <2>1
  <2>3. Shape' /\ Place' = l /\ UrgPlace' = "none"
    BY <2>1, <2>2, CheckMoves DEF Shape
  <2> QED
    BY <2>1, <2>2, <2>3, AtPlaces
<1>4. CASE blocked /\ pc \in {"urgRead", "urgReturn"}
  <2>1. PICK u \in Urgent : u = pc
    BY <1>4 DEF Urgent
  <2>2. CheckThen(u) /\ pc \in Urgent
    BY <1>4, <2>1 DEF Deliver
  <2>3. Shape' /\ Place' = Place /\ UrgPlace' = u
    BY <2>2, UrgentCheckMoves DEF Shape
  <2> QED
    BY <2>1, <2>2, <2>3, AtUrgent
<1> QED
  BY <1>1, <1>2, <1>3, <1>4 DEF Shape, Waits, Answered

(* An answer is to be written before the session goes on, and is written.  *)
LEMMA SayMoves ==
  ASSUME Shape, NEW code, NEW n, NEW l \in Resumed \cap Answered,
         Say(code, n, l), pc \in Places, UNCHANGED urg_running
  PROVE  /\ Shape' /\ UrgPlace' = "none" /\ Place' = l
         /\ reply' = code /\ owed' = owed - n
<1>1. Goto(l) /\ l \in Places /\ unsent' \subseteq Answered
  BY Disjoint DEF Say, Shape
<1> QED
  BY <1>1, GotoMoves DEF Say

LEMMA UrgentSayMoves ==
  ASSUME Shape, NEW code, NEW n, NEW u \in Urgent \cap Answered,
         Say(code, n, u), pc \in Urgent, UNCHANGED urg_running
  PROVE  /\ Shape' /\ UrgPlace' = u /\ Place' = Place
         /\ reply' = code /\ owed' = owed - n
<1>1. PICK l : l = Place
  OBVIOUS
<1>2. urg_running /\ l \in Resumed /\ stack = <<l>>
  BY <1>1, AtUrgent
<1>3. pc' = u /\ stack' = <<l>> /\ ~blocked' /\ unsent' \subseteq Answered
  BY <1>2 DEF Say, Goto, Shape
<1>4. Shape'
  BY <1>2, <1>3 DEF Shape, ShapeIn
<1>5. Place' = l /\ UrgPlace' = u
  BY <1>3, InUrgent DEF Place, UrgPlace
<1> QED
  BY <1>1, <1>4, <1>5 DEF Say

LEMMA WrittenMoves ==
  ASSUME Shape, Written
  PROVE  Shape' /\ Place' = Place /\ UrgPlace' = UrgPlace
<1>1. pc \in Answered /\ unsent' \subseteq Answered /\ UNCHANGED urg_running
  BY DEF Written, Shape, signals
<1>2. CheckThen(pc)
  BY DEF Written
<1>3. CASE pc \in Urgent
  <2>1. PICK u \in Urgent : u = pc
    BY <1>3
  <2>2. Shape' /\ Place' = Place /\ UrgPlace' = u
    BY <1>1, <1>2, <1>3, <2>1, UrgentCheckMoves
  <2> QED
    BY <1>3, <2>1, <2>2, AtUrgent
<1>4. CASE pc \in Resumed
  <2>1. PICK l \in Resumed : l = pc
    BY <1>4
  <2>2. pc \in Places
    BY <1>4, Disjoint
  <2>3. Shape' /\ Place' = l /\ UrgPlace' = "none"
    BY <1>1, <1>2, <2>1, <2>2, CheckMoves
  <2> QED
    BY <2>1, <2>2, <2>3, AtPlaces
<1> QED
  BY <1>1, <1>3, <1>4 DEF Answered, Resumed, Urgent

(* A line is logged, or it is not.                                         *)
LEMMA LogMoves ==
  ASSUME Shape, NEW l \in Resumed, LogThen(l), pc \in Places,
         UNCHANGED <<urg_running, unsent>>
  PROVE  Shape' /\ Place' = l /\ UrgPlace' = "none"
<1>1. l \in Places /\ unsent' \subseteq Answered
  BY Disjoint DEF Shape
<1> QED
  BY <1>1, GotoMoves, CheckMoves DEF LogThen

-----------------------------------------------------------------------------
(* The account is kept.  A session that ends owes nothing any more.        *)
LEMMA ExitKeeps ==
  ASSUME Place' = "exit", UrgPlace' = "none", OneWay'
  PROVE  Account'
BY DEF Account, OneWay, DataWhileMoving, Owing, Serving, Moving, ShutHasReason,
       OverMeansComplete, IdleHandler, LoggedBefore

(* What the account is about, but for where the session is.                *)
books == <<pasv_fd, port_sockaddr, data_fd, cmd, left, peer, shut, retval,
           abor_received, data_timeout, log_entry, owed, merged, handler>>

LEMMA StayKeeps ==
  ASSUME Account, UNCHANGED books, UrgPlace' = UrgPlace,
         Place' = Place \/ (Place = "close" /\ Place' = "closed")
  PROVE  Account'
<1>1. CASE Place' = Place
  BY <1>1
  DEF Account, OneWay, DataWhileMoving, Owing, Due, Serving, Moving,
      ShutHasReason, AllMoved, OverMeansComplete, IdleHandler, LoggedBefore, books
<1>2. CASE Place = "close" /\ Place' = "closed"
  BY <1>2
  DEF Account, OneWay, DataWhileMoving, Owing, Due, Serving, Moving,
      ShutHasReason, AllMoved, OverMeansComplete, IdleHandler, LoggedBefore, books
<1> QED
  BY <1>1, <1>2

LEMMA SayKeeps ==
  ASSUME IInv, NEW code, NEW l \in {"loop", "cleanup"}, Say(code, 1, l),
         pc \in {"dispatch", "refused"}, OneWay',
         UNCHANGED <<urg_running, data_fd, cmd, left, peer, shut, retval,
                     abor_received, data_timeout, merged, handler>>
  PROVE  Shape' /\ Account'
<1>1. pc \in Places /\ l \in Resumed \cap Answered
  BY DEF Places, Resumed, Answered
<1>2. Shape' /\ UrgPlace' = "none" /\ Place' = l /\ owed' = owed - 1
  BY <1>1, SayMoves DEF IInv
<1>3. Place = pc /\ UrgPlace = "none"
  BY <1>1, AtPlaces DEF IInv
<1>4. ~data_fd /\ ~abor_received
  BY <1>3 DEF IInv, Account, DataWhileMoving, Owing, Moving
<1>5. owed >= 1 /\ (~merged => owed = 1)
  BY <1>3, <1>4 DEF IInv, Account, Owing, Due, Serving
<1>6. Owing'
  BY <1>2, <1>3, <1>4, <1>5 DEF IInv, TypeOK, Owing, Due, Serving, Moving
<1> QED
  BY <1>2, <1>4, <1>6
  DEF Account, DataWhileMoving, Moving, ShutHasReason, OverMeansComplete,
      IdleHandler, LoggedBefore

-----------------------------------------------------------------------------
(* The signals, and what the client does.                                  *)
LEMMA OutsideKeeps ==
  ASSUME IInv,
         \/ TimePasses \/ Sigalrm \/ HangUp \/ Block \/ Ended \/ Written
         \/ \E c \in Commands : SendLine(c)
  PROVE  Shape' /\ Account'
<1>1. UNCHANGED books /\ UNCHANGED urg_running
  BY DEF TimePasses, Sigalrm, HangUp, Block, Ended, SendLine, Written, vars,
         books, client, conn, sockets, flags, signals, told
<1>2. /\ Shape' /\ UrgPlace' = UrgPlace
      /\ Place' = Place \/ (Place = "close" /\ Place' = "closed")
  <2>1. CASE UNCHANGED <<pc, stack, unsent>> /\ (blocked' => pc \in Waits \cup Answered)
    BY <1>1, <2>1, StaysPut DEF IInv
  <2>2. CASE (\E s : Deliver(s)) /\ UNCHANGED unsent
    <3>1. PICK s : Deliver(s)
      BY <2>2
    <3> QED
      BY <1>1, <2>2, <3>1, DeliverMoves DEF IInv
  <2>3. CASE TimePasses
    BY <2>1, <2>3 DEF TimePasses, IInv, Shape, told
  <2>4. CASE Sigalrm
    BY <2>2, <2>4 DEF Sigalrm, told
  <2>5. CASE HangUp
    BY <2>1, <2>5 DEF HangUp, IInv, Shape, told
  <2>6. CASE Block
    BY <2>1, <2>6 DEF Block, IInv, Shape, told
  <2>7. CASE Ended
    BY <2>1, <2>7 DEF Ended, vars, IInv, Shape, told
  <2>8. CASE \E c \in Commands : SendLine(c)
    BY <2>1, <2>2, <2>8 DEF SendLine, IInv, Shape, told
  <2>9. CASE Written
    BY <2>9, WrittenMoves DEF IInv
  <2> QED
    BY <2>3, <2>4, <2>5, <2>6, <2>7, <2>8, <2>9
<1>3. Account'
  BY <1>1, <1>2, StayKeeps DEF IInv
<1> QED
  BY <1>2, <1>3

LEMMA PeerEndsKeeps ==
  ASSUME IInv, NEW how, PeerEnds(how)
  PROVE  Shape' /\ Account'
<1>1. Shape' /\ Place' = Place /\ UrgPlace' = UrgPlace
  BY StaysPut DEF IInv, PeerEnds, signals, told, Shape
<1>2. UNCHANGED <<pasv_fd, port_sockaddr, data_fd, cmd, left, shut, retval,
                  abor_received, data_timeout, log_entry, owed, merged, handler>>
  BY DEF PeerEnds, sockets, flags, signals, told
<1>3. AllMoved => AllMoved'
  BY <1>2 DEF AllMoved, PeerEnds
<1>4. OverMeansComplete'
  BY <1>1, <1>2, <1>3 DEF IInv, Account, OverMeansComplete
<1> QED
  BY <1>1, <1>2, <1>4
  DEF IInv, Account, OneWay, DataWhileMoving, Owing, Due, ShutHasReason,
      IdleHandler, LoggedBefore

(* The two checks.                                                         *)
LEMMA CheckAlrmKeeps ==
  ASSUME IInv, CheckAlrm
  PROVE  Shape' /\ Account'
<1>1. pc \in Checks
  BY DEF CheckAlrm, Checks
<1>2. Shape' /\ Place' = Place /\ UrgPlace' = UrgPlace
  BY <1>1, CheckGoesOn DEF IInv, CheckAlrm, told
<1>3. UNCHANGED <<pasv_fd, port_sockaddr, data_fd, cmd, left, peer, retval,
                  abor_received, log_entry, owed, merged>>
  BY DEF CheckAlrm, sockets, told
<1>4. Place \in Resumed
  BY <1>1, AtChecks DEF IInv
<1>5. CASE UNCHANGED <<shut, data_timeout, handler>>
  BY <1>2, <1>3, <1>5, StayKeeps DEF IInv, books
<1>6. CASE /\ handler # "idle" /\ data_timeout' = TRUE
           /\ shut' = (shut \/ data_fd) /\ UNCHANGED handler
  <2>1. ~(idle_session_timeout /\ Place = "getCmd")
    BY <1>6 DEF IInv, Account, IdleHandler
  <2>2. Place = "result" => ~data_fd
    BY DEF IInv, Account, DataWhileMoving, Moving
  <2>3. (shut => shut') /\ (Place = "result" /\ ~shut => ~shut')
    BY <1>6, <2>2
  <2>4. OverMeansComplete'
    BY <1>2, <1>3, <1>6, <2>2, <2>3
    DEF IInv, TypeOK, Account, OverMeansComplete, AllMoved
  <2>5. ShutHasReason' /\ IdleHandler'
    BY <1>2, <1>6, <2>1 DEF ShutHasReason, IdleHandler
  <2>6. Owing'
    BY <1>2, <1>3, <1>6 DEF IInv, Account, Owing, Due
  <2> QED
    BY <1>2, <1>3, <2>4, <2>5, <2>6
    DEF IInv, Account, OneWay, DataWhileMoving, LoggedBefore
<1>7. CASE /\ handler # "idle" /\ UNCHANGED <<shut, data_timeout>>
           /\ handler' \in {"data", handler}
  <2>1. ~(idle_session_timeout /\ Place = "getCmd")
    BY <1>7 DEF IInv, Account, IdleHandler
  <2> QED
    BY <1>2, <1>3, <1>7, <2>1
    DEF IInv, Account, OneWay, DataWhileMoving, Owing, Due, ShutHasReason,
        AllMoved, OverMeansComplete, IdleHandler, LoggedBefore
<1> QED
  BY <1>5, <1>6, <1>7
  DEF CheckAlrm, handle_alarm_timeout, handle_sigalrm, start_data_alarm

LEMMA CheckUrgKeeps ==
  ASSUME IInv, CheckUrg
  PROVE  Shape' /\ Account'
<1>1. pc \in Checks
  BY DEF CheckUrg, Checks
<1>2. UNCHANGED books
  BY DEF CheckUrg, books, conn, sockets, flags, told
<1>3. CASE Resume /\ UNCHANGED urg_running
  BY <1>1, <1>2, <1>3, ResumeMoves, StayKeeps DEF IInv, CheckUrg, told
<1>4. CASE Goto("urgRead") /\ ~urg_running /\ urg_running' = TRUE /\ data_fd
  <2>1. Shape' /\ Place' = Place /\ UrgPlace' = "urgRead" /\ UrgPlace = "none"
    BY <1>1, <1>4, UrgentBegins DEF IInv, CheckUrg, told
  <2>2. Place \in Resumed
    BY <1>1, AtChecks DEF IInv
  <2>3. Place \in Moving
    BY <1>4, <2>2 DEF IInv, Account, DataWhileMoving, Resumed
  <2> QED
    BY <1>2, <2>1, <2>3
    DEF IInv, Account, OneWay, DataWhileMoving, Owing, Due, ShutHasReason,
        AllMoved, OverMeansComplete, IdleHandler, LoggedBefore, books
<1> QED
  BY <1>3, <1>4 DEF CheckUrg

(* handle_sigurg.                                                          *)
LEMMA UrgReadKeeps ==
  ASSUME IInv, UrgRead
  PROVE  Shape' /\ Account'
<1>1. pc \in Urgent /\ "urgLine" \in Urgent /\ pc = "urgRead"
  BY DEF UrgRead, Urgent
<1>2. UNCHANGED <<pasv_fd, port_sockaddr, data_fd, cmd, left, peer, shut,
                  retval, abor_received, data_timeout, merged, handler,
                  urg_running, unsent>>
  BY DEF UrgRead, TakeLine, conn, sockets, flags, signals, told
<1>3. UrgPlace = "urgRead" /\ Place \in Moving
  BY <1>1, AtUrgent DEF IInv, Account, DataWhileMoving
<1>4. CASE Exit
  BY <1>2, <1>4, ExitMoves, ExitKeeps DEF IInv, Shape, Account, OneWay
<1>5. CASE TakeLine /\ CheckThen("urgLine")
  <2>1. Shape' /\ Place' = Place /\ UrgPlace' = "urgLine"
    BY <1>1, <1>2, <1>5, UrgentCheckMoves DEF IInv, Shape
  <2>2. owed' = owed + 1 /\ owed \in Int
    BY <1>5 DEF TakeLine, IInv, TypeOK
  <2>3. Owing'
    BY <1>2, <1>3, <2>1, <2>2 DEF IInv, Account, Owing, Due, Moving, Serving
  <2> QED
    BY <1>2, <1>3, <2>1, <2>3
    DEF IInv, Account, OneWay, DataWhileMoving, ShutHasReason, AllMoved,
        OverMeansComplete, IdleHandler, LoggedBefore, Moving
<1> QED
  BY <1>4, <1>5 DEF UrgRead

LEMMA UrgAborKeeps ==
  ASSUME IInv, UrgAbor
  PROVE  Shape' /\ Account'
<1>1. pc \in Urgent /\ pc = "urgLine"
  BY DEF UrgAbor, Urgent
<1>2. UrgPlace = "urgLine" /\ Place \in Moving /\ Place \in Resumed
  BY <1>1, AtUrgent DEF IInv, Account, DataWhileMoving
<1>3. Shape' /\ Place' = Place /\ UrgPlace' = "none"
  BY <1>1, UrgentReturns DEF IInv, UrgAbor
<1>4. UNCHANGED <<pasv_fd, port_sockaddr, data_fd, cmd, left, peer, retval,
                  data_timeout, handler, owed>>
  BY DEF UrgAbor, sockets
<1>5. abor_received' = TRUE /\ shut' = TRUE /\ merged' = (merged \/ abor_received)
  BY DEF UrgAbor
<1>6. Owing'
  BY <1>2, <1>3, <1>4, <1>5 DEF IInv, TypeOK, Account, Owing, Due, Moving, Serving
<1>7. OverMeansComplete'
  BY <1>2, <1>3, <1>4, <1>5
  DEF IInv, TypeOK, Account, OverMeansComplete, AllMoved, Moving
<1> QED
  BY <1>2, <1>3, <1>4, <1>5, <1>6, <1>7
  DEF IInv, Account, OneWay, DataWhileMoving, ShutHasReason, IdleHandler,
      LoggedBefore, Moving

LEMMA UrgOtherKeeps ==
  ASSUME IInv, UrgOther
  PROVE  Shape' /\ Account'
<1>1. pc \in Urgent /\ pc = "urgLine" /\ "urgReturn" \in Urgent \cap Answered
  BY DEF UrgOther, Urgent, Answered
<1>2. UrgPlace = "urgLine" /\ Place \in Moving
  BY <1>1, AtUrgent DEF IInv, Account, DataWhileMoving
<1>3. UNCHANGED <<pasv_fd, port_sockaddr, data_fd, cmd, left, peer, shut,
                  retval, abor_received, data_timeout, merged, handler,
                  urg_running>>
  BY DEF UrgOther, conn, sockets, flags, signals
<1>4. Shape' /\ Place' = Place /\ UrgPlace' = "urgReturn" /\ owed' = owed - 1
  BY <1>1, <1>3, UrgentSayMoves DEF IInv, UrgOther
<1>5. Owing'
  BY <1>2, <1>3, <1>4 DEF IInv, TypeOK, Account, Owing, Due, Moving, Serving
<1> QED
  BY <1>2, <1>3, <1>4, <1>5
  DEF IInv, Account, OneWay, DataWhileMoving, ShutHasReason, AllMoved,
      OverMeansComplete, IdleHandler, LoggedBefore, Moving

LEMMA UrgReturnKeeps ==
  ASSUME IInv, UrgReturn
  PROVE  Shape' /\ Account'
<1>1. pc \in Urgent /\ pc = "urgReturn"
  BY DEF UrgReturn, At, Urgent
<1>2. UrgPlace = "urgReturn" /\ Place \in Moving
  BY <1>1, AtUrgent DEF IInv, Account, DataWhileMoving
<1>3. Shape' /\ Place' = Place /\ UrgPlace' = "none"
  BY <1>1, UrgentReturns DEF IInv, UrgReturn, told
<1>4. UNCHANGED books
  BY DEF UrgReturn, books, conn, sockets, flags, told
<1> QED
  BY <1>2, <1>3, <1>4
  DEF IInv, Account, OneWay, DataWhileMoving, Owing, Due, ShutHasReason,
      AllMoved, OverMeansComplete, IdleHandler, LoggedBefore, books

-----------------------------------------------------------------------------
(* The command loop.                                                       *)
LEMMA LeaveKeeps ==
  ASSUME IInv, TimedOut \/ Quit \/ WriteDies
  PROVE  Shape' /\ Account'
<1>1. Exit /\ UNCHANGED <<sockets, unsent>>
  BY DEF TimedOut, Quit, WriteDies, told
<1>2. OneWay' /\ unsent' \subseteq Answered
  BY <1>1 DEF IInv, Shape, Account, OneWay, sockets
<1> QED
  BY <1>1, <1>2, ExitMoves, ExitKeeps

LEMMA LogFailedKeeps ==
  ASSUME IInv, LogFailed
  PROVE  Shape' /\ Account'
<1>1. pc = "loop" /\ pc \in Places /\ "loop" \in Resumed
  BY DEF LogFailed, At, Places, Resumed
<1>2. UNCHANGED <<pasv_fd, port_sockaddr, data_fd, abor_received, data_timeout,
                  owed, merged, urg_running, unsent>>
  BY DEF LogFailed, sockets, told, signals
<1>3. Place = "loop" /\ UrgPlace = "none"
  BY <1>1, AtPlaces DEF IInv
<1>4. Shape' /\ Place' = "loop" /\ UrgPlace' = "none"
  BY <1>1, <1>2, LogMoves DEF IInv, LogFailed
<1>5. Owing'
  BY <1>2, <1>3, <1>4 DEF IInv, Account, Owing, Due, Serving, Moving
<1> QED
  BY <1>2, <1>3, <1>4, <1>5
  DEF IInv, Account, OneWay, DataWhileMoving, ShutHasReason,
      OverMeansComplete, IdleHandler, LoggedBefore, Moving

LEMMA LoopKeeps ==
  ASSUME IInv, Loop
  PROVE  Shape' /\ Account'
<1>1. pc = "loop" /\ pc \in Places /\ "getCmd" \in Places
  BY DEF Loop, At, Places, Resumed
<1>2. UNCHANGED <<pasv_fd, port_sockaddr, data_fd, cmd, left, peer, shut,
                  retval, abor_received, data_timeout, owed, merged,
                  log_entry, urg_running, unsent>>
  BY DEF Loop, conn, sockets, flags, told
<1>3. CASE Exit
  BY <1>2, <1>3, ExitMoves, ExitKeeps DEF IInv, Shape, Account, OneWay
<1>4. CASE ~data_timeout /\ SetAlarm /\ Goto("getCmd")
  <2>1. Place = "loop" /\ UrgPlace = "none"
    BY <1>1, AtPlaces DEF IInv
  <2>2. Shape' /\ Place' = "getCmd" /\ UrgPlace' = "none"
    BY <1>1, <1>2, <1>4, GotoMoves DEF IInv, Shape
  <2>3. Owing'
    BY <1>2, <1>4, <2>1, <2>2 DEF IInv, Account, Owing, Due, Serving, Moving
  <2>4. IdleHandler'
    BY <1>2, <1>4 DEF SetAlarm, IdleHandler
  <2> QED
    BY <1>2, <2>1, <2>2, <2>3, <2>4
    DEF IInv, Account, OneWay, DataWhileMoving, ShutHasReason,
        OverMeansComplete, LoggedBefore, Loop, Moving
<1> QED
  BY <1>3, <1>4 DEF Loop

LEMMA GetCmdKeeps ==
  ASSUME IInv, GetCmd
  PROVE  Shape' /\ Account'
<1>1. pc = "getCmd" /\ pc \in Places /\ "dispatch" \in Resumed
  BY DEF GetCmd, Places, Resumed
<1>2. UNCHANGED <<pasv_fd, port_sockaddr, data_fd, left, peer, shut, retval,
                  abor_received, data_timeout, log_entry, merged, handler,
                  urg_running, unsent>>
  BY DEF GetCmd, TakeLine, conn, sockets, flags, signals, told
<1>3. CASE Exit
  BY <1>2, <1>3, ExitMoves, ExitKeeps DEF IInv, Shape, Account, OneWay
<1>4. CASE TakeLine /\ CheckThen("dispatch")
  <2>1. Place = "getCmd" /\ UrgPlace = "none"
    BY <1>1, AtPlaces DEF IInv
  <2>2. Shape' /\ Place' = "dispatch" /\ UrgPlace' = "none"
    BY <1>1, <1>2, <1>4, CheckMoves DEF IInv, Shape
  <2>3. owed' = owed + 1 /\ owed \in Int
    BY <1>4 DEF TakeLine, IInv, TypeOK
  <2>4. Owing'
    BY <1>2, <2>1, <2>2, <2>3 DEF IInv, Account, Owing, Due, Serving, Moving
  <2> QED
    BY <1>2, <2>1, <2>2, <2>4
    DEF IInv, Account, OneWay, DataWhileMoving, ShutHasReason,
        OverMeansComplete, IdleHandler, LoggedBefore, Moving
<1> QED
  BY <1>3, <1>4 DEF GetCmd

LEMMA SimpleKeeps ==
  ASSUME IInv, NEW c, NEW code, Simple(c, code)
  PROVE  Shape' /\ Account'
<1>1. pc = "dispatch" /\ Say(code, 1, "loop")
  BY DEF Simple, Dispatch
<1>2. OneWay'
  BY DEF IInv, Account, OneWay, Simple, sockets
<1> QED
  BY <1>1, <1>2, SayKeeps DEF Simple, conn, sockets, flags, signals

LEMMA PasvKeeps ==
  ASSUME IInv, handle_pasv
  PROVE  Shape' /\ Account'
<1>1. pc = "dispatch" /\ OneWay'
  BY DEF handle_pasv, Dispatch, OneWay
<1>2. CASE Exit /\ UNCHANGED <<reply, owed, unsent>>
  BY <1>1, <1>2, ExitMoves, ExitKeeps DEF IInv, Shape
<1>3. CASE Say("227", 1, "loop")
  BY <1>1, <1>3, SayKeeps DEF handle_pasv, conn, flags, signals
<1> QED
  BY <1>2, <1>3 DEF handle_pasv

LEMMA PortKeeps ==
  ASSUME IInv, handle_port
  PROVE  Shape' /\ Account'
<1>1. pc = "dispatch" /\ OneWay'
  BY DEF handle_port, Dispatch, OneWay
<1>2. \E code : Say(code, 1, "loop")
  BY DEF handle_port
<1>3. PICK code : Say(code, 1, "loop")
  BY <1>2
<1> QED
  BY <1>1, <1>3, SayKeeps DEF handle_port, conn, flags, signals

LEMMA RefusalsKeep ==
  ASSUME IInv, TransferRefused \/ Refused
  PROVE  Shape' /\ Account'
<1>1. /\ pc \in {"dispatch", "refused"}
      /\ \E code : \E l \in {"loop", "cleanup"} : Say(code, 1, l)
  BY DEF TransferRefused, Refused, Dispatch
<1>2. PICK code, l : l \in {"loop", "cleanup"} /\ Say(code, 1, l)
  BY <1>1
<1>3. UNCHANGED <<conn, sockets, abor_received, data_timeout, signals, merged,
                  cmd, retval>>
  BY DEF TransferRefused, Refused, flags
<1>4. OneWay'
  BY <1>3 DEF IInv, Account, OneWay, sockets
<1> QED
  BY <1>1, <1>2, <1>3, <1>4, SayKeeps DEF conn, sockets, signals

-----------------------------------------------------------------------------
(* A transfer.                                                             *)
LEMMA TransferOpensKeeps ==
  ASSUME IInv, TransferOpens
  PROVE  Shape' /\ Account'
<1>1. pc = "dispatch" /\ pc \in Places /\ "accept" \in Places
  BY DEF TransferOpens, Dispatch, Places, Resumed
<1>2. Goto("accept") /\ UNCHANGED urg_running
  <2>1. ~log_entry
    BY <1>1, AtPlaces DEF IInv, Account, LoggedBefore
  <2> QED
    BY <2>1 DEF IInv, Account, OneWay, TransferOpens, Impossible, signals
<1>3. Place = "dispatch" /\ UrgPlace = "none"
  BY <1>1, AtPlaces DEF IInv
<1>4. Shape' /\ Place' = "accept" /\ UrgPlace' = "none"
  BY <1>1, <1>2, GotoMoves DEF IInv, Shape, TransferOpens, told
<1>5. UNCHANGED <<pasv_fd, port_sockaddr, data_fd, owed, merged>> /\ ~abor_received'
  BY DEF TransferOpens, sockets, told
<1>6. ~abor_received
  BY <1>3 DEF IInv, Account, Owing, Moving
<1>7. Owing'
  BY <1>3, <1>4, <1>5, <1>6 DEF IInv, Account, Owing, Due, Serving, Moving
<1> QED
  BY <1>3, <1>4, <1>5, <1>7
  DEF IInv, Account, OneWay, DataWhileMoving, ShutHasReason,
      OverMeansComplete, IdleHandler, LoggedBefore, Moving

LEMMA AcceptKeeps ==
  ASSUME IInv, Accept
  PROVE  Shape' /\ Account'
<1>1. pc = "accept" /\ pc \in Places
  BY DEF Accept, Places, Resumed
<1>2. PICK l \in {"connected", "refused"} : CheckThen(l)
  BY DEF Accept
<1>3. l \in Resumed /\ UNCHANGED urg_running
  BY DEF Resumed, Accept, signals
<1>4. Place = "accept" /\ UrgPlace = "none"
  BY <1>1, AtPlaces DEF IInv
<1>5. Shape' /\ Place' = l /\ UrgPlace' = "none"
  BY <1>1, <1>2, <1>3, CheckMoves DEF IInv, Shape, Accept, told
<1>6. UNCHANGED <<pasv_fd, port_sockaddr, data_fd, owed, merged, abor_received>>
  BY DEF Accept, sockets, told, flags
<1>7. Owing'
  BY <1>4, <1>5, <1>6 DEF IInv, Account, Owing, Due, Serving, Moving
<1> QED
  BY <1>4, <1>5, <1>6, <1>7
  DEF IInv, Account, OneWay, DataWhileMoving, ShutHasReason,
      OverMeansComplete, IdleHandler, LoggedBefore, Moving

LEMMA ConnectedKeeps ==
  ASSUME IInv, Connected
  PROVE  Shape' /\ Account'
<1>1. pc = "connected" /\ pc \in Places /\ "mark" \in Places
  BY DEF Connected, Places, Resumed
<1>2. Place = "connected" /\ UrgPlace = "none"
  BY <1>1, AtPlaces DEF IInv
<1>3. ~data_fd
  BY <1>2 DEF IInv, Account, DataWhileMoving, Moving
<1>4. Goto("mark") /\ UNCHANGED urg_running
  BY <1>3 DEF Connected
<1>5. Shape' /\ Place' = "mark" /\ UrgPlace' = "none"
  BY <1>1, <1>4, GotoMoves DEF IInv, Shape, Connected, told
<1>6. UNCHANGED <<pasv_fd, port_sockaddr, owed, merged, abor_received>> /\ ~shut'
  BY DEF Connected, told
<1>7. Owing'
  BY <1>2, <1>5, <1>6 DEF IInv, Account, Owing, Due, Serving, Moving
<1> QED
  BY <1>2, <1>5, <1>6, <1>7
  DEF IInv, Account, OneWay, DataWhileMoving, ShutHasReason,
      OverMeansComplete, IdleHandler, LoggedBefore, Moving

LEMMA MarkKeeps ==
  ASSUME IInv, Mark
  PROVE  Shape' /\ Account'
<1>1. /\ pc = "mark" /\ pc \in Places /\ "io" \in Resumed \cap Answered
      /\ Say("150", 0, "io")
  BY DEF Mark, Places, Resumed, Answered
<1>2. UNCHANGED <<conn, sockets, flags, signals, merged, cmd, retval>>
  BY DEF Mark
<1>3. Place = "mark" /\ UrgPlace = "none"
  BY <1>1, AtPlaces DEF IInv
<1>4. Shape' /\ UrgPlace' = "none" /\ Place' = "io" /\ owed' = owed - 0
  BY <1>1, <1>2, SayMoves DEF IInv, signals
<1>5. owed' = owed
  BY <1>4 DEF IInv, TypeOK
<1>6. Owing'
  BY <1>2, <1>3, <1>4, <1>5 DEF IInv, Account, Owing, Due, Serving, Moving, flags
<1> QED
  BY <1>2, <1>3, <1>4, <1>6
  DEF IInv, Account, OneWay, DataWhileMoving, ShutHasReason, conn, sockets,
      flags, OverMeansComplete, IdleHandler, LoggedBefore, Moving

LEMMA ChunkKeeps ==
  ASSUME IInv, Chunk
  PROVE  Shape' /\ Account'
<1>1. pc = "io" /\ pc \in Places /\ "io" \in Resumed
  BY DEF Chunk, At, Places, Resumed
<1>2. UNCHANGED <<pasv_fd, port_sockaddr, data_fd, owed, merged, abor_received,
                  data_timeout, shut, urg_running, unsent>>
  BY DEF Chunk, sockets, told, signals
<1>3. Place = "io" /\ UrgPlace = "none"
  BY <1>1, AtPlaces DEF IInv
<1>4. Shape' /\ Place' = "io" /\ UrgPlace' = "none"
  BY <1>1, <1>2, CheckMoves DEF IInv, Shape, Chunk
<1>5. Owing'
  BY <1>2, <1>3, <1>4 DEF IInv, Account, Owing, Due
<1> QED
  BY <1>2, <1>3, <1>4, <1>5
  DEF IInv, Account, OneWay, DataWhileMoving, ShutHasReason,
      OverMeansComplete, IdleHandler, LoggedBefore

LEMMA StreamEndsKeeps ==
  ASSUME IInv, StreamOver \/ StreamFails \/ LocalFails
  PROVE  Shape' /\ Account'
<1>1. pc = "io" /\ pc \in Places /\ "dispose" \in Resumed /\ "dispose" \in Places
  BY DEF StreamOver, StreamFails, LocalFails, At, Places, Resumed
<1>2. UNCHANGED <<conn, sockets, flags, signals, told, cmd>>
  BY DEF StreamOver, StreamFails, LocalFails
<1>3. Place = "io" /\ UrgPlace = "none"
  BY <1>1, AtPlaces DEF IInv
<1>4. Goto("dispose") \/ CheckThen("dispose")
  BY DEF StreamOver, StreamFails, LocalFails
<1>5. Shape' /\ Place' = "dispose" /\ UrgPlace' = "none"
  BY <1>1, <1>2, <1>4, GotoMoves, CheckMoves DEF IInv, Shape, signals, told
<1>6. Owing'
  BY <1>2, <1>3, <1>5
  DEF IInv, Account, Owing, Due, Serving, Moving, told, flags
<1>7. retval' = 0 => AllMoved' \/ (cmd' = "STOR" /\ shut')
  BY <1>2 DEF StreamOver, StreamFails, LocalFails, AllMoved, conn
<1> QED
  BY <1>2, <1>3, <1>5, <1>6, <1>7
  DEF IInv, Account, OneWay, DataWhileMoving, ShutHasReason,
      OverMeansComplete, IdleHandler, LoggedBefore, Moving, conn, sockets, flags

LEMMA DisposeKeeps ==
  ASSUME IInv, Dispose \/ LingerOver
  PROVE  Shape' /\ Account'
<1>1. pc \in {"dispose", "close"} /\ pc \in Places
  BY DEF Dispose, LingerOver, Places, Resumed
<1>2. PICK l \in {"close", "closed"} : Goto(l)
  BY DEF Dispose, LingerOver
<1>3. l \in Places
  BY DEF Places
<1>4. UNCHANGED <<conn, sockets, flags, urg_running, told, cmd, retval>>
  BY DEF Dispose, LingerOver, signals
<1>5. Place \in {"dispose", "close"} /\ UrgPlace = "none"
  BY <1>1, AtPlaces DEF IInv
<1>6. Shape' /\ Place' = l /\ UrgPlace' = "none"
  BY <1>1, <1>2, <1>3, <1>4, GotoMoves DEF IInv, Shape, told
<1>7. Owing'
  BY <1>4, <1>5, <1>6
  DEF IInv, Account, Owing, Due, Serving, Moving, told, flags
<1>8. OverMeansComplete'
  BY <1>4, <1>5, <1>6
  DEF IInv, Account, OverMeansComplete, AllMoved, conn, flags
<1> QED
  BY <1>4, <1>5, <1>6, <1>7, <1>8
  DEF IInv, Account, OneWay, DataWhileMoving, ShutHasReason, IdleHandler, LoggedBefore,
      Moving, conn, sockets, flags

LEMMA ClosedKeeps ==
  ASSUME IInv, Closed
  PROVE  Shape' /\ Account'
<1>1. /\ pc = "closed" /\ pc \in Places
      /\ "result" \in Places /\ "result" \in Resumed
  BY DEF Closed, Places, Resumed
<1>2. UNCHANGED <<conn, pasv_fd, port_sockaddr, abor_received, data_timeout,
                  urg_running, told, cmd>>
  BY DEF Closed
<1>3. Place = "closed" /\ UrgPlace = "none"
  BY <1>1, AtPlaces DEF IInv
<1>4. Shape' /\ Place' = "result" /\ UrgPlace' = "none"
  <2>1. LogThen("result") \/ Goto("result")
    BY DEF Closed
  <2> QED
    BY <1>1, <1>2, <2>1, LogMoves, GotoMoves DEF IInv, Shape, told
<1>5. Owing'
  BY <1>2, <1>3, <1>4 DEF IInv, Account, Owing, Due, Serving, Moving, told
<1>6. ASSUME retval' = 0
      PROVE  AllMoved' /\ ~abor_received' /\ ~shut'
  <2>1. retval = 0 /\ ~abor_received /\ ~data_timeout
    BY <1>6 DEF Closed, DisposeResult
  <2>2. ~shut
    BY <1>3, <2>1 DEF IInv, TypeOK, Account, ShutHasReason, Moving
  <2>3. AllMoved
    BY <1>3, <2>1, <2>2 DEF IInv, Account, OverMeansComplete
  <2> QED
    BY <1>2, <2>1, <2>2, <2>3 DEF AllMoved, conn
<1>7. ~data_fd'
  BY DEF Closed
<1> QED
  BY <1>2, <1>3, <1>4, <1>5, <1>6, <1>7
  DEF IInv, Account, OneWay, DataWhileMoving, ShutHasReason,
      OverMeansComplete, IdleHandler, LoggedBefore, Moving

LEMMA ResultKeeps ==
  ASSUME IInv, Result
  PROVE  Shape' /\ Account'
<1>1. /\ pc = "result" /\ pc \in Places
      /\ "abor" \in Places /\ "abor" \in Resumed \cap Answered
  BY DEF Result, Places, Resumed, Answered
<1>2. UNCHANGED <<conn, sockets, flags, signals, merged, cmd>>
  BY DEF Result
<1>3. Place = "result" /\ UrgPlace = "none"
  BY <1>1, AtPlaces DEF IInv
<1>4. ~data_fd
  BY <1>3 DEF IInv, Account, DataWhileMoving, Moving
<1>5. \/ \E code : Say(code, 1, "abor")
      \/ Goto("abor") /\ data_timeout /\ UNCHANGED <<owed, unsent>>
  BY DEF Result
<1>6. ASSUME UrgPlace' = "none", Place' = "abor",
             \/ owed' = owed - 1
             \/ owed' = owed /\ data_timeout
      PROVE  Account'
  <2>1. Owing'
    BY <1>2, <1>3, <1>6
    DEF IInv, TypeOK, Account, Owing, Due, Serving, Moving, flags
  <2> QED
    BY <1>2, <1>4, <1>6, <2>1
    DEF IInv, Account, OneWay, DataWhileMoving, ShutHasReason,
        OverMeansComplete, IdleHandler, LoggedBefore, Moving, sockets
<1>7. CASE \E code : Say(code, 1, "abor")
  <2>1. PICK code : Say(code, 1, "abor")
    BY <1>7
  <2>2. Shape' /\ UrgPlace' = "none" /\ Place' = "abor" /\ owed' = owed - 1
    BY <1>1, <1>2, <2>1, SayMoves DEF IInv, signals
  <2> QED
    BY <1>6, <2>2
<1>8. CASE Goto("abor") /\ data_timeout /\ UNCHANGED <<owed, unsent>>
  <2>1. Shape' /\ Place' = "abor" /\ UrgPlace' = "none"
    BY <1>1, <1>2, <1>8, GotoMoves DEF IInv, Shape, signals
  <2> QED
    BY <1>6, <1>8, <2>1
<1> QED
  BY <1>5, <1>7, <1>8

LEMMA CheckAborKeeps ==
  ASSUME IInv, check_abor
  PROVE  Shape' /\ Account'
<1>1. /\ pc = "abor" /\ pc \in Places
      /\ "cleanup" \in Places /\ "cleanup" \in Resumed \cap Answered
  BY DEF check_abor, At, Places, Resumed, Answered
<1>2. UNCHANGED <<sockets, data_timeout, merged, signals, cmd>> /\ ~abor_received'
  BY DEF check_abor
<1>3. Place = "abor" /\ UrgPlace = "none"
  BY <1>1, AtPlaces DEF IInv
<1>4. ~data_fd
  BY <1>3 DEF IInv, Account, DataWhileMoving, Moving
<1>5. ASSUME UrgPlace' = "none", Place' = "cleanup",
             \/ abor_received /\ owed' = owed - 1
             \/ ~abor_received /\ owed' = owed
      PROVE  Account'
  <2>1. Owing'
    BY <1>2, <1>3, <1>5
    DEF IInv, TypeOK, Account, Owing, Due, Serving, Moving
  <2> QED
    BY <1>2, <1>4, <1>5, <2>1
    DEF IInv, Account, OneWay, DataWhileMoving, ShutHasReason,
        OverMeansComplete, IdleHandler, LoggedBefore, Moving, sockets
<1>6. CASE abor_received
  <2>1. Shape' /\ UrgPlace' = "none" /\ Place' = "cleanup" /\ owed' = owed - 1
    BY <1>1, <1>2, <1>6, SayMoves DEF IInv, check_abor, signals
  <2> QED
    BY <1>5, <1>6, <2>1
<1>7. CASE ~abor_received
  <2>1. Shape' /\ Place' = "cleanup" /\ UrgPlace' = "none"
    BY <1>1, <1>2, <1>7, GotoMoves DEF IInv, Shape, check_abor, signals
  <2> QED
    BY <1>5, <1>7, <2>1 DEF check_abor
<1> QED
  BY <1>6, <1>7

LEMMA CleanupKeeps ==
  ASSUME IInv, Cleanup
  PROVE  Shape' /\ Account'
<1>1. pc = "cleanup" /\ pc \in Places /\ "loop" \in Places
  BY DEF Cleanup, At, Places, Resumed
<1>2. /\ UNCHANGED <<data_fd, abor_received, data_timeout, owed, merged,
                     urg_running, unsent>>
      /\ ~pasv_fd'
  BY DEF Cleanup, flags, told, signals
<1>3. Place = "cleanup" /\ UrgPlace = "none"
  BY <1>1, AtPlaces DEF IInv
<1>4. Shape' /\ Place' = "loop" /\ UrgPlace' = "none"
  BY <1>1, <1>2, GotoMoves DEF IInv, Shape, Cleanup
<1>5. Owing'
  BY <1>2, <1>3, <1>4 DEF IInv, Account, Owing, Due, Serving, Moving
<1> QED
  BY <1>2, <1>3, <1>4, <1>5
  DEF IInv, Account, OneWay, DataWhileMoving, ShutHasReason,
      OverMeansComplete, IdleHandler, LoggedBefore, Moving

LEMMA StutterKeeps ==
  ASSUME IInv, UNCHANGED vars
  PROVE  Shape' /\ Account'
<1>1. UNCHANGED books /\ UNCHANGED <<pc, stack, blocked, urg_running, unsent>>
  BY DEF vars, books, client, conn, sockets, flags, signals, told
<1>2. blocked' => pc \in Waits \cup Answered
  BY <1>1 DEF IInv, Shape
<1> QED
  BY <1>1, <1>2, StaysPut, StayKeeps DEF IInv

LEMMA StepKeeps ==
  ASSUME IInv, [Next]_vars
  PROVE  Shape' /\ Account'
<1>1. CASE SessionStep
  <2>1. CASE Block
    BY <2>1, OutsideKeeps
  <2>2. CASE CheckAlrm \/ CheckUrg
    BY <2>2, CheckAlrmKeeps, CheckUrgKeeps
  <2>3. CASE UrgRead \/ UrgAbor \/ UrgOther \/ UrgReturn
    BY <2>3, UrgReadKeeps, UrgAborKeeps, UrgOtherKeeps, UrgReturnKeeps
  <2>4. CASE TimedOut \/ Quit \/ WriteDies
    BY <2>4, LeaveKeeps
  <2>5. CASE LogFailed \/ Loop \/ GetCmd
    BY <2>5, LogFailedKeeps, LoopKeeps, GetCmdKeeps
  <2>6. CASE Simple("NOOP", "200") \/ Simple("ABOR", "225")
    BY <2>6, SimpleKeeps
  <2>7. CASE handle_pasv \/ handle_port
    BY <2>7, PasvKeeps, PortKeeps
  <2>8. CASE TransferRefused \/ Refused
    BY <2>8, RefusalsKeep
  <2>9. CASE TransferOpens \/ Accept \/ Connected \/ Mark
    BY <2>9, TransferOpensKeeps, AcceptKeeps, ConnectedKeeps, MarkKeeps
  <2>10. CASE StreamOver \/ StreamFails \/ LocalFails
    BY <2>10, StreamEndsKeeps
  <2>11. CASE Dispose \/ LingerOver
    BY <2>11, DisposeKeeps
  <2>12. CASE Closed \/ Result \/ check_abor \/ Cleanup
    BY <2>12, ClosedKeeps, ResultKeeps, CheckAborKeeps, CleanupKeeps
  <2> QED
    BY <1>1, <2>1, <2>2, <2>3, <2>4, <2>5, <2>6, <2>7, <2>8, <2>9, <2>10,
       <2>11, <2>12
    DEF SessionStep
<1>2. CASE ClientStep
  <2>1. CASE HangUp \/ Written \/ \E c \in Commands : SendLine(c)
    BY <2>1, OutsideKeeps
  <2>2. CASE \E how \in {"ended", "reset"} : PeerEnds(how)
    BY <2>2, PeerEndsKeeps
  <2>3. CASE Chunk
    BY <2>3, ChunkKeeps
  <2> QED
    BY <1>2, <2>1, <2>2, <2>3 DEF ClientStep
<1>3. CASE TimePasses \/ Sigalrm \/ Ended
  BY <1>3, OutsideKeeps
<1>4. CASE UNCHANGED vars
  BY <1>4, StutterKeeps
<1> QED
  BY <1>1, <1>2, <1>3, <1>4 DEF Next

-----------------------------------------------------------------------------
(* The types of the variables.                                             *)
LEMMA ShapeTypes ==
  ASSUME NEW p, NEW s, NEW u, ShapeIn(p, s, u)
  PROVE  p \in Labels /\ s \in Seq(Labels)
<1>1. \A l : l \in Resumed \/ l \in Places \/ l \in Checks \/ l \in Urgent
             => l \in Labels
  BY DEF Places, Resumed, Checks, Urgent, Labels
<1>2. p \in Labels
  BY <1>1 DEF ShapeIn, Labels
<1>3. CASE s = <<>>
  BY <1>2, <1>3
<1>4. CASE \E l \in Resumed : s = <<l>>
  <2>1. PICK l \in Labels : s = <<l>>
    BY <1>1, <1>4
  <2> QED
    BY <1>2, <2>1
<1>5. CASE \E q \in Urgent, l \in Resumed : s = <<q, l>>
  <2>1. PICK q \in Labels, l \in Labels : s = <<q, l>>
    BY <1>1, <1>5
  <2> QED
    BY <1>2, <2>1
<1> QED
  BY <1>3, <1>4, <1>5 DEF ShapeIn

LEMMA ShapeTyped ==
  ASSUME Shape'
  PROVE  pc' \in Labels /\ stack' \in Seq(Labels) /\ unsent' \subseteq Labels
BY ShapeTypes DEF Shape, Answered, Labels

LEMMA TakeLineTypes ==
  ASSUME TypeOK, TakeLine
  PROVE  /\ Head(control) \in Lines /\ control' \in Seq(Lines)
         /\ owed' \in Int /\ UNCHANGED <<sent, hungup, reply, unsent, merged>>
BY DEF TypeOK, TakeLine

LEMMA AlarmTypes ==
  ASSUME TypeOK, start_data_alarm
  PROVE  handler' \in {"none", "idle", "data"} /\ alarm' \in {"off", "set", "due"}
BY DEF TypeOK, start_data_alarm

Bools ==
  /\ hungup \in BOOLEAN /\ read_shut \in BOOLEAN /\ shut \in BOOLEAN
  /\ blocked \in BOOLEAN /\ merged \in BOOLEAN /\ urg_running \in BOOLEAN
  /\ pasv_fd \in BOOLEAN /\ port_sockaddr \in BOOLEAN /\ data_fd \in BOOLEAN
  /\ data_progress \in BOOLEAN /\ data_timeout \in BOOLEAN
  /\ idle_timeout \in BOOLEAN /\ abor_received \in BOOLEAN
  /\ log_entry \in BOOLEAN

Data ==
  /\ control \in Seq(Lines) /\ sent \in Nat
  /\ peer \in {"none", "open", "ended", "reset"}
  /\ left \in Nat /\ retval \in {0, -1, -2}
  /\ cmd \in Lines /\ urg_cmd \in Lines
  /\ file \in {"none", "partial", "stored", "deleted"}
  /\ handler \in {"none", "idle", "data"} /\ alarm \in {"off", "set", "due"}
  /\ pending \subseteq {"ALRM", "URG"}
  /\ reply \in Replies /\ owed \in Int


(* The session is blocked, or not.                                         *)
LEMMA Unblocks ==
  /\ \A l : Goto(l) \/ CheckThen(l) \/ LogThen(l) => blocked' \in BOOLEAN
  /\ Resume \/ Exit => blocked' \in BOOLEAN
  /\ \A code, n, l : Say(code, n, l) => blocked' \in BOOLEAN
  /\ \A s : Deliver(s) /\ blocked \in BOOLEAN => blocked' \in BOOLEAN
BY DEF Goto, CheckThen, LogThen, Resume, Exit, Say, Deliver

LEMMA BoolsKept ==
  ASSUME Bools, [Next]_vars
  PROVE  Bools'
<1> USE Unblocks DEF Bools, client, conn, sockets, flags, signals, told
<1>1. CASE Block
  BY <1>1 DEF Block
<1>2. CASE TimedOut
  BY <1>2 DEF TimedOut
<1>3. CASE Quit
  BY <1>3 DEF Quit
<1>4. CASE Loop
  BY <1>4 DEF Loop
<1>5. CASE Accept
  BY <1>5 DEF Accept
<1>6. CASE CheckAlrm
  <2>1. blocked' \in BOOLEAN
    BY <1>6 DEF CheckAlrm
  <2>2. CASE handle_alarm_timeout
    BY <1>6, <2>1, <2>2 DEF CheckAlrm, handle_alarm_timeout
  <2>3. CASE handle_sigalrm
    <3>1. /\ data_progress' \in BOOLEAN /\ data_timeout' \in BOOLEAN
          /\ idle_timeout' \in BOOLEAN /\ read_shut' \in BOOLEAN /\ shut' \in BOOLEAN
      <4>1. CASE data_progress
        BY <2>3, <4>1 DEF handle_sigalrm
      <4>2. CASE ~data_progress
        BY <2>3, <4>2 DEF handle_sigalrm
      <4> QED BY <4>1, <4>2
    <3> QED BY <1>6, <2>1, <3>1 DEF CheckAlrm
  <2>4. CASE UNCHANGED <<data_progress, data_timeout, idle_timeout, read_shut, shut>>
    BY <1>6, <2>1, <2>4 DEF CheckAlrm
  <2> QED
    BY <1>6, <2>2, <2>3, <2>4 DEF CheckAlrm
<1>7. CASE CheckUrg
  <2>1. blocked' \in BOOLEAN /\ urg_running' \in BOOLEAN
    BY <1>7 DEF CheckUrg
  <2> QED
    BY <1>7, <2>1 DEF CheckUrg
<1>8. CASE UrgRead \/ GetCmd
  BY <1>8 DEF UrgRead, GetCmd, TakeLine
<1>9. CASE UrgAbor
  BY <1>9 DEF UrgAbor
<1>10. CASE UrgReturn
  BY <1>10 DEF UrgReturn
<1>11. CASE UrgOther \/ Refused \/ Mark
  BY <1>11 DEF UrgOther, Refused, Mark
<1>12. CASE Simple("NOOP", "200") \/ Simple("ABOR", "225")
  BY <1>12 DEF Simple
<1>13. CASE handle_pasv
  <2>1. blocked' \in BOOLEAN
    BY <1>13 DEF handle_pasv
  <2>2. pasv_fd' \in BOOLEAN /\ port_sockaddr' \in BOOLEAN
    BY <1>13 DEF handle_pasv
  <2> QED
    BY <1>13, <2>1, <2>2 DEF handle_pasv
<1>14. CASE handle_port
  <2>1. blocked' \in BOOLEAN
    BY <1>14 DEF handle_port
  <2>2. pasv_fd' \in BOOLEAN /\ port_sockaddr' \in BOOLEAN
    BY <1>14 DEF handle_port
  <2> QED
    BY <1>14, <2>1, <2>2 DEF handle_port
<1>15. CASE Result
  BY <1>15 DEF Result
<1>16. CASE check_abor
  <2>1. blocked' \in BOOLEAN
    BY <1>16 DEF check_abor
  <2> QED
    BY <1>16, <2>1 DEF check_abor
<1>17. CASE TransferOpens
  BY <1>17 DEF TransferOpens
<1>18. CASE Connected
  BY <1>18 DEF Connected
<1>19. CASE Chunk
  BY <1>19 DEF Chunk
<1>20. CASE StreamOver
  BY <1>20 DEF StreamOver
<1>21. CASE StreamFails \/ LocalFails
  BY <1>21 DEF StreamFails, LocalFails
<1>22. CASE Dispose
  BY <1>22 DEF Dispose
<1>23. CASE LingerOver
  BY <1>23 DEF LingerOver
<1>24. CASE Closed
  <2>1. blocked' \in BOOLEAN /\ log_entry' \in BOOLEAN
    BY <1>24 DEF Closed
  <2> QED BY <1>24, <2>1 DEF Closed
<1>25. CASE Cleanup
  BY <1>25 DEF Cleanup
<1>26. CASE TimePasses
  BY <1>26 DEF TimePasses
<1>27. CASE HangUp
  BY <1>27 DEF HangUp
<1>28. CASE Sigalrm
  BY <1>28 DEF Sigalrm
<1>29. CASE \E c \in Commands : SendLine(c)
  BY <1>29 DEF SendLine
<1>30. CASE \E how \in {"ended", "reset"} : PeerEnds(how)
  BY <1>30 DEF PeerEnds
<1>31. CASE UNCHANGED vars
  BY <1>31 DEF vars
<1>32. CASE Written \/ WriteDies
  BY <1>32 DEF Written, WriteDies
<1>33. CASE LogFailed
  BY <1>33 DEF LogFailed
<1>34. CASE TransferRefused
  <2>1. log_entry' \in BOOLEAN /\ blocked' \in BOOLEAN
    BY <1>34 DEF TransferRefused
  <2> QED
    BY <1>34, <2>1 DEF TransferRefused
<1> QED
  BY <1>1, <1>2, <1>3, <1>4, <1>5, <1>6, <1>7, <1>8, <1>9, <1>10, <1>11,
     <1>12, <1>13, <1>14, <1>15, <1>16, <1>17, <1>18, <1>19, <1>20, <1>21,
     <1>22, <1>23, <1>24, <1>25, <1>26, <1>27, <1>28, <1>29, <1>30, <1>31,
     <1>32, <1>33, <1>34
  DEF Next, SessionStep, ClientStep, Ended

(* Where an answer is written, which one it is.                            *)
LEMMA DataOfSay ==
  ASSUME TypeOK,
         UNCHANGED <<control, sent, peer, left, retval, cmd, urg_cmd, file,
                     handler, alarm, pending>>,
         \/ \E code \in Replies, n \in Int : \E l : Say(code, n, l)
         \/ UNCHANGED <<reply, owed>>
  PROVE  Data'
<1>1. reply' \in Replies /\ owed' \in Int
  <2>1. CASE UNCHANGED <<reply, owed>>
    BY <2>1 DEF TypeOK
  <2>2. ASSUME NEW code \in Replies, NEW n \in Int, NEW l, Say(code, n, l)
        PROVE  reply' \in Replies /\ owed' \in Int
    <3>1. CASE reply' = code /\ owed' = owed - n
      BY <3>1 DEF TypeOK
    <3> QED
      BY <2>1, <2>2, <3>1 DEF Say
  <2> QED
    BY <2>1, <2>2
<1> QED
  BY <1>1 DEF TypeOK, Data

LEMMA DataKept ==
  ASSUME TypeOK, [Next]_vars
  PROVE  Data'
<1> USE DEF TypeOK, Data, client, conn, sockets, flags, signals, told
<1>1. CASE Block
  BY <1>1 DEF Block
<1>2. CASE TimedOut
  BY <1>2 DEF TimedOut
<1>3. CASE Quit \/ WriteDies \/ Written
  BY <1>3 DEF Quit, WriteDies, Written
<1>4. CASE Loop \/ LogFailed
  BY <1>4 DEF Loop, LogFailed, SetAlarm
<1>5. CASE Accept
  BY <1>5 DEF Accept
<1>6. CASE CheckAlrm
  BY <1>6, AlarmTypes DEF CheckAlrm, handle_alarm_timeout, handle_sigalrm
<1>7. CASE CheckUrg
  BY <1>7 DEF CheckUrg
<1>8. CASE UrgAbor
  BY <1>8 DEF UrgAbor
<1>9. CASE UrgReturn
  BY <1>9 DEF UrgReturn
<1>10. CASE TransferOpens
  BY <1>10 DEF TransferOpens
<1>11. CASE Connected
  BY <1>11, AlarmTypes, BoundsAssumption DEF Connected
<1>12. CASE Chunk
  BY <1>12 DEF Chunk
<1>13. CASE StreamOver
  BY <1>13 DEF StreamOver
<1>14. CASE StreamFails
  BY <1>14 DEF StreamFails
<1>15. CASE LocalFails
  BY <1>15 DEF LocalFails
<1>16. CASE Dispose
  BY <1>16, AlarmTypes DEF Dispose
<1>17. CASE LingerOver
  BY <1>17 DEF LingerOver
<1>18. CASE Closed
  BY <1>18 DEF Closed, DisposeResult
<1>19. CASE Cleanup
  BY <1>19 DEF Cleanup
<1>20. CASE TimePasses \/ HangUp
  <2>1. CASE TimePasses
    BY <2>1 DEF TimePasses
  <2>2. CASE HangUp
    BY <2>2 DEF HangUp
  <2> QED BY <1>20, <2>1, <2>2
<1>21. CASE Sigalrm
  BY <1>21 DEF Sigalrm, Deliver, Refire
<1>22. CASE \E how \in {"ended", "reset"} : PeerEnds(how)
  BY <1>22 DEF PeerEnds
<1>23. CASE UNCHANGED vars
  BY <1>23 DEF vars
<1>24. CASE UrgRead
  <2>1. CASE TakeLine /\ urg_cmd' = Head(control)
    <3>1. urg_cmd' \in Lines /\ control' \in Seq(Lines) /\ owed' \in Int
      BY <2>1, TakeLineTypes
    <3> QED
      BY <1>24, <2>1, <3>1, TakeLineTypes DEF UrgRead
  <2>2. CASE UNCHANGED <<client, told, urg_cmd>>
    BY <1>24, <2>2 DEF UrgRead
  <2> QED
    BY <1>24, <2>1, <2>2 DEF UrgRead
<1>25. CASE GetCmd
  <2>1. CASE TakeLine /\ cmd' = Head(control)
    <3>1. cmd' \in Lines /\ control' \in Seq(Lines) /\ owed' \in Int
      BY <2>1, TakeLineTypes
    <3> QED
      BY <1>25, <2>1, <3>1, TakeLineTypes DEF GetCmd
  <2>2. CASE UNCHANGED <<client, told, cmd>>
    BY <1>25, <2>2 DEF GetCmd
  <2> QED
    BY <1>25, <2>1, <2>2 DEF GetCmd
<1>26. CASE \/ UrgOther \/ Refused \/ Mark \/ TransferRefused \/ handle_port
            \/ handle_pasv \/ Simple("NOOP", "200") \/ Simple("ABOR", "225")
  <2>1. \/ \E code \in Replies, n \in Int : \E l : Say(code, n, l)
        \/ UNCHANGED <<reply, owed>>
    <3>1. CASE TransferRefused
      <4>1. Say("425", 1, "loop") \/ Say("550", 1, "loop")
        BY <3>1 DEF TransferRefused
      <4>2. "425" \in Replies /\ "550" \in Replies /\ 1 \in Int
        BY DEF Replies
      <4>3. CASE Say("425", 1, "loop")
        BY <4>2, <4>3
      <4>4. CASE Say("550", 1, "loop")
        BY <4>2, <4>4
      <4> QED
        BY <4>1, <4>3, <4>4
    <3>2. CASE ~TransferRefused
      BY <1>26, <3>2
      DEF UrgOther, Refused, Mark, handle_port, handle_pasv, Simple, Replies
    <3> QED
      BY <3>1, <3>2
  <2> QED
    BY <1>26, <2>1, DataOfSay
    DEF UrgOther, Refused, Mark, TransferRefused, handle_port, handle_pasv,
        Simple
<1>27. CASE Result \/ check_abor
  <2>1. \/ \E code \in Replies, n \in Int : \E l : Say(code, n, l)
        \/ UNCHANGED <<reply, owed>>
    <3>1. CASE Result
      <4>1. {"226", "426", "451"} \subseteq Replies /\ 1 \in Int
        BY DEF Replies
      <4> HIDE DEF TypeOK, Data, client, conn, sockets, flags, signals, told
      <4>2. \/ Say("226", 1, "abor") \/ Say("426", 1, "abor")
            \/ Say("451", 1, "abor") \/ UNCHANGED <<reply, owed>>
        BY <3>1 DEF Result
      <4>3. CASE Say("226", 1, "abor")
        BY <4>1, <4>3
      <4>4. CASE Say("426", 1, "abor")
        BY <4>1, <4>4
      <4>5. CASE Say("451", 1, "abor")
        BY <4>1, <4>5
      <4> QED
        BY <4>2, <4>3, <4>4, <4>5
    <3>2. CASE check_abor
      BY <3>2 DEF check_abor, Replies
    <3> QED
      BY <1>27, <3>1, <3>2
  <2> QED
    BY <1>27, <2>1, DataOfSay DEF Result, check_abor
<1>28. ASSUME NEW c \in Commands, SendLine(c)
       PROVE  Data'
  <2>1. c \in Lines
    BY TransfersAssumption DEF Commands, Lines
  <2>2. control' \in Seq(Lines)
    BY <1>28, <2>1 DEF SendLine
  <2>3. pending' \subseteq {"ALRM", "URG"}
    BY <1>28 DEF SendLine, Deliver
  <2> QED
    BY <1>28, <2>2, <2>3 DEF SendLine
<1> QED
  BY <1>1, <1>2, <1>3, <1>4, <1>5, <1>6, <1>7, <1>8, <1>9, <1>10, <1>11,
     <1>12, <1>13, <1>14, <1>15, <1>16, <1>17, <1>18, <1>19, <1>20, <1>21,
     <1>22, <1>23, <1>24, <1>25, <1>26, <1>27, <1>28
  DEF Next, SessionStep, ClientStep, Ended

LEMMA TypeKept ==
  ASSUME TypeOK, [Next]_vars, Shape'
  PROVE  TypeOK'
<1>1. Bools
  BY DEF TypeOK, Bools
<1> QED
  BY <1>1, BoolsKept, DataKept, ShapeTyped DEF TypeOK, Bools, Data

-----------------------------------------------------------------------------
(* The account holds of every state a session can be in.                   *)
LEMMA InitAccounts == Init => IInv
<1> SUFFICES ASSUME Init
             PROVE  IInv
  OBVIOUS
<1>1. pc = "loop" /\ stack = <<>> /\ ~urg_running /\ ~blocked
  BY DEF Init
<1>2. Shape
  BY <1>1 DEF Init, Shape, ShapeIn, Places, Resumed
<1>3. Place = "loop" /\ UrgPlace = "none"
  BY <1>1, AtPlace DEF Place, UrgPlace, Urgent
<1>4. Account
  BY <1>3
  DEF Init, Account, OneWay, DataWhileMoving, Owing, Due, Serving, Moving,
      ShutHasReason, OverMeansComplete, IdleHandler, LoggedBefore
<1>5. Bools
  BY DEF Init, Bools
<1>6. Data
  BY DEF Init, Data, Lines, Replies
<1>7. pc \in Labels /\ stack \in Seq(Labels) /\ unsent \subseteq Labels
  BY <1>1 DEF Init, Labels
<1> QED
  BY <1>2, <1>4, <1>5, <1>6, <1>7 DEF IInv, TypeOK, Bools, Data

LEMMA StepAccounts == IInv /\ [Next]_vars => IInv'
BY StepKeeps, TypeKept DEF IInv

LEMMA AlwaysAccounts == Spec => []IInv
<1> QED
  BY InitAccounts, StepAccounts, PTL DEF Spec

(* The variables keep their types, among them the stack of places a check  *)
(* goes back to.                                                           *)
THEOREM AlwaysTypeOK == Spec => []TypeOK
<1>1. IInv => TypeOK
  BY DEF IInv
<1> QED
  BY <1>1, AlwaysAccounts, PTL

(* A session never calls bug(): PASV and PORT undo each other, and no      *)
(* transfer begins with a data connection still open or a transfer still   *)
(* to be logged (postlogin.c:522 and 545, ftpdataio.c:236, logging.c:85).  *)
THEOREM NeverCallsBug == Spec => []NeverBug
<1>1. IInv => NeverBug
  BY DEF IInv, Shape, ShapeIn, NeverBug, Places, Resumed, Checks, Urgent
<1> QED
  BY <1>1, AlwaysAccounts, PTL

(* Each command a session has read, from the loop or in the middle of a    *)
(* transfer, has had exactly one answer when it waits for the next one     *)
(* (check_abor, postlogin.c:1458).                                         *)
THEOREM CommandsAnswered == Spec => []RepliesMatchCommands
<1>1. IInv => RepliesMatchCommands
  <2> SUFFICES ASSUME IInv, pc = "getCmd"
               PROVE  owed >= 0 /\ (~merged => owed = 0) /\ ~abor_received
    BY DEF RepliesMatchCommands
  <2>1. Place = "getCmd" /\ UrgPlace = "none"
    BY AtPlaces DEF IInv, Places, Resumed
  <2>2. ~abor_received
    BY <2>1 DEF IInv, Account, Owing, Moving
  <2> QED
    BY <2>1, <2>2 DEF IInv, TypeOK, Account, Owing, Due
<1> QED
  BY <1>1, AlwaysAccounts, PTL

(* With an idle timeout, no session waits for a command that was found     *)
(* stalled: the loop replaces the handler of the transfer before it reads  *)
(* (postlogin.c:459, ftpdataio.c:196).                                     *)
THEOREM IdleNeverStalled ==
  ASSUME idle_session_timeout
  PROVE  Spec => []IdleIsNotStalled
<1>1. IInv => IdleIsNotStalled
  <2> SUFFICES ASSUME IInv, pc = "getCmd"
               PROVE  ~data_timeout
    BY DEF IdleIsNotStalled
  <2>1. Place = "getCmd"
    BY AtPlaces DEF IInv, Places, Resumed
  <2> QED
    BY <2>1 DEF IInv, Account, IdleHandler
<1> QED
  BY <1>1, AlwaysAccounts, PTL

-----------------------------------------------------------------------------
(* "Transfer complete" is said of nothing else than a complete transfer:   *)
(* no shutdown() of its connection, by an ABOR or a stall, was taken for   *)
(* the end of a file (postlogin.c:779 and 1160), whatever is handled at    *)
(* the write of the log before it (logging.c:164 and 174).                 *)
THEOREM CompleteOnlyIfComplete == Spec => CompleteMeansComplete
<1> DEFINE Complete ==
      (reply' = "226" /\ owed' < owed) =>
        /\ IF cmd = "STOR" THEN peer = "ended" ELSE left = 0
        /\ ~abor_received /\ ~shut
<1>1. ASSUME IInv, Next, reply' = "226", owed' < owed
      PROVE  Result
  <2>1. owed \in Int
    BY <1>1 DEF IInv, TypeOK
  <2>2. ~(owed' = owed) /\ ~(owed' = owed + 1) /\ ~(owed' = owed - 0)
    BY <1>1, <2>1
  <2>3. ASSUME NEW code, NEW n, NEW l, Say(code, n, l)
        PROVE  code = "226"
    BY <1>1, <2>2, <2>3 DEF Say
  <2>4. ~UNCHANGED told /\ ~TakeLine
    BY <2>2 DEF told, TakeLine
  <2>5. CASE SessionStep
    BY <2>2, <2>3, <2>4, <2>5
    DEF SessionStep, Block, CheckAlrm, CheckUrg, UrgRead, UrgAbor, UrgOther,
        WriteDies, UrgReturn, TimedOut, LogFailed, Loop, GetCmd, Quit, Simple, handle_pasv,
        handle_port, TransferRefused, TransferOpens, Accept, Refused,
        Connected, Mark, StreamOver, StreamFails, LocalFails, Dispose,
        LingerOver, Closed, check_abor, Cleanup
  <2>6. CASE ClientStep \/ TimePasses \/ Sigalrm \/ Ended
    BY <2>2, <2>4, <2>6
    DEF ClientStep, SendLine, HangUp, PeerEnds, Chunk, Written, TimePasses,
        Sigalrm, Ended, vars
  <2> QED
    BY <1>1, <2>5, <2>6 DEF Next
<1>2. ASSUME IInv, Result, reply' = "226", owed' < owed
      PROVE  AllMoved /\ ~abor_received /\ ~shut
  <2>1. Place = "result"
    BY <1>2, AtPlaces DEF IInv, Result, Places, Resumed
  <2>2. owed' # owed
    BY <1>2 DEF IInv, TypeOK
  <2>3. ASSUME NEW code, NEW n, NEW l, Say(code, n, l)
        PROVE  code = "226"
    BY <1>2, <2>2, <2>3 DEF Say
  <2>4. retval = 0
    BY <1>2, <2>2, <2>3 DEF Result
  <2> QED
    BY <1>2, <2>1, <2>4 DEF IInv, Account, OverMeansComplete
<1>3. IInv /\ [Next]_vars => [Complete]_vars
  BY <1>1, <1>2 DEF AllMoved
<1> QED
  BY <1>3, AlwaysAccounts, PTL DEF Spec, CompleteMeansComplete

=============================================================================

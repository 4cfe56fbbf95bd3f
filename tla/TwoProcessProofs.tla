-------------------------- MODULE TwoProcessProofs --------------------------
(***************************************************************************)
(* Proofs about the two processes of a session: neither ever takes a       *)
(* message for what it is not, and the requests of the session are served  *)
(* as PrivService says, whatever ends when.                                *)
(*                                                                         *)
(* The streams have no frames, so nothing in a message says which request  *)
(* or which answer it is part of; that must follow from where both sides   *)
(* are.  The invariant therefore is about the conversation as a whole:     *)
(* what the child has still to write and the parent still to read make up  *)
(* the end of one request, what the parent has still to write and the      *)
(* child still to read the end of one answer, and never is there both.     *)
(***************************************************************************)
EXTENDS TwoProcess, SequenceTheorems, TLAPS

(* The requests of both children, and the kinds and values of messages.    *)
Known == Service!Requests \cup {"LOGIN"}
Kinds == {"cmd", "str", "int", "fd", "result"}
Values == Known \cup {"none", "user", "pass", "ssl", "port", "file", "0", "1", "fd",
                    "-1", "-2", "OK", "BAD"}
Messages == [kind : Kinds, val : Values]

(* All that a child writes to make a request.                              *)
Whole(req) == <<Msg("cmd", req)>> \o Rest(req)

(* How much of the request is yet to be read by the parent, and how much   *)
(* of the answer by the child.                                             *)
Unread == Len(to_parent[serving]) + Len(asking)
Outstanding == Len(to_child[serving]) + Len(sending)

(* The parent goes on with the conversation; it waits for a new request.   *)
Going == ppc \in {"context", "read", "perform", "write", "wait"}
AwaitsCommand == ppc = "context" \/ (ppc = "read" /\ Head(reading) = "cmd")

SequencesOK ==
  /\ to_parent \in [Children -> Seq(Messages)]
  /\ to_child \in [Children -> Seq(Messages)]
  /\ asking \in Seq(Messages) /\ sending \in Seq(Messages)
  /\ reading \in Seq(Kinds) /\ expecting \in Seq(Kinds) /\ todo \in Seq(Known)
  /\ request \in Known \cup {"none"} /\ job \in Known \cup {"none"}

(* The children take turns: the second is forked when the first has been   *)
(* reaped, and finds an unused pair and no passive socket.  Only a parent  *)
(* that has accepted a login lets its child end.                           *)
Turns ==
  /\ serving = "pre" => /\ state["pre"] \notin {"unborn", "reaped"} \/ ppc = "dead"
                        /\ state["post"] = "unborn"
                        /\ to_parent["post"] = <<>> /\ to_child["post"] = <<>>
                        /\ ~listening /\ ~seen
  /\ serving = "post" => state["pre"] = "reaped" /\ state["post"] # "unborn"
  /\ Alive("pre") => login_fails < max_login_fails
  /\ chld_handler = "null" => serving = "pre" /\ ppc \in {"write", "wait", "dead"}

(* What the parent is doing fits what is left of the request.              *)
ParentPhase ==
  /\ ppc # "refused"
  /\ AwaitsCommand => Unread \in {0, Len(Whole(request))} /\ sending = <<>>
  /\ ppc = "read" =>
       /\ reading # <<>>
       /\ Head(reading) = "cmd" => Len(reading) = 1
       /\ Head(reading) # "cmd" =>
            /\ job = request
            /\ Unread = Len(reading) /\ Outstanding = 0
            /\ Len(reading) < Len(Whole(request))
            /\ \A i \in 1..Len(reading) :
                 reading[i] = Whole(request)[Len(Whole(request)) - Len(reading) + i].kind
  /\ ppc = "perform" => /\ job = request /\ Unread = 0 /\ Outstanding = 0
                        /\ Allowed(job) /\ Possible(job)
  /\ ppc = "write" => job = request /\ Unread = 0 /\ sending # <<>>
  /\ ppc = "wait" => Unread = 0 /\ sending = <<>> /\ chld_handler = "null"

(* The messages under way and those still to be written are the end of the *)
(* request.                                                                *)
Streams ==
  LET W == Whole(request) IN
  /\ Unread <= Len(W) /\ (Unread > 0 => Outstanding = 0)
  /\ \A i \in 1..Len(asking) : asking[i] = W[Len(W) - Len(asking) + i]
  /\ \A i \in 1..Len(to_parent[serving]) :
        to_parent[serving][i] = W[Len(W) - Unread + i]

(* The passive socket after a request; the answers a request may have.     *)
After(req, on) ==
  CASE req = "PASV_LISTEN"  -> TRUE
    [] req = "PASV_CLEANUP" -> FALSE
    [] OTHER                -> on

AnswersTo(req, on, ok) ==
  IF req = "LOGIN" THEN (IF ok THEN {"OK"} ELSE {"BAD"})
  ELSE Service!Answers(req, on)

(* The messages under way and those still to be written are the end of an  *)
(* answer, and the child expects the first of them.                        *)
Answering(ans) ==
  LET w == Written(request, ans) IN
  /\ Outstanding <= Len(w)
  /\ \A i \in 1..Len(sending) : sending[i] = w[Len(w) - Len(sending) + i]
  /\ \A i \in 1..Len(to_child[serving]) :
       to_child[serving][i] = w[Len(w) - Outstanding + i]
  /\ Len(expecting) = 1 /\ expecting[1] = w[Len(w) - Outstanding + 1].kind

(* What the child is doing fits what is left of the request and of its     *)
(* answer.                                                                 *)
ChildPhase ==
  /\ state[serving] \in {"forked", "idle"} =>
       Unread = 0 /\ Outstanding = 0 /\ (Going => AwaitsCommand)
  /\ state[serving] = "idle" => request = "none"
  /\ state[serving] = "ask" => asking # <<>> /\ Outstanding = 0
  /\ state[serving] = "await" => asking = <<>>
  /\ state[serving] \in {"ask", "await"} \/ Unread > 0 =>
       request \in Known /\ Allowed(request)
  /\ Unread > 0 => Possible(request)
  /\ state[serving] \in {"ask", "await"} /\ Outstanding = 0 =>
       /\ expecting = <<First(request)>>
       /\ Going => Unread > 0 \/ ppc = "perform"
  /\ state[serving] = "await" /\ Outstanding > 0 =>
       /\ Unread = 0
       /\ Going => ppc \in {"write", "wait"} \/ AwaitsCommand
       /\ \E ans \in AnswersTo(request, seen, chld_handler = "null") : Answering(ans)

(* The socket is as the session saw it last, or as the request left it.  *)
Knows ==
  /\ state["post"] \in {"forked", "idle", "ask"} => seen = listening
  /\ state["post"] = "await" =>
       listening = IF Outstanding = 0 THEN seen ELSE After(request, seen)

(* What the session is to ask for next suits the socket as it will be.     *)
Planned ==
  Alive("post") /\ state["post"] # "forked" =>
    \A i \in 1..Len(todo) :
      /\ todo[i] \in Service!Requests
      /\ todo[i] = "PASV_LISTEN" =>
           \/ i = 1 /\ (request = "PASV_CLEANUP" \/ (request = "none" /\ ~listening))
           \/ i = 2 /\ todo[1] = "PASV_CLEANUP"
      /\ todo[i] \in {"PASV_ACCEPT", "GET_DATA_SOCK"} =>
           /\ todo[i] = "PASV_ACCEPT" <=> listening
           /\ request \in {"none", "CHOWN"}
           /\ \A j \in 1..(i-1) : todo[j] = "CHOWN"

Conversation ==
  SequencesOK /\ Turns /\ ParentPhase /\ Streams /\ ChildPhase /\ Knows /\ Planned

IInv == TypeOK /\ Conversation

-----------------------------------------------------------------------------
(* The requests, one by one.                                               *)
LEMMA RequestsAreKnown ==
  Known = {"LOGIN", "PASV_CLEANUP", "PASV_ACTIVE", "PASV_LISTEN",
           "PASV_ACCEPT", "GET_DATA_SOCK", "CHOWN"}
  BY DEF Known, Service!Requests

(* What is in a message.                                                   *)
LEMMA MsgFacts ==
  ASSUME NEW k \in Kinds, NEW v \in Values
  PROVE  Msg(k, v) \in Messages /\ Msg(k, v).kind = k /\ Msg(k, v).val = v
  BY DEF Msg, Messages

(* A sequence of one message.                                              *)
LEMMA OneMessage ==
  ASSUME NEW a \in Messages
  PROVE  <<a>> \in Seq(Messages) /\ Len(<<a>>) = 1 /\ <<a>>[1] = a
  OBVIOUS

(* The same of two.                                                        *)
LEMMA TwoMessages ==
  ASSUME NEW a \in Messages, NEW b \in Messages
  PROVE  /\ <<a, b>> \in Seq(Messages) /\ Len(<<a, b>>) = 2
         /\ <<a, b>>[1] = a /\ <<a, b>>[2] = b
  OBVIOUS

(* No message of a request after the first is a command.                   *)
LEMMA RestFacts ==
  ASSUME NEW req
  PROVE  /\ Rest(req) \in Seq(Messages)
         /\ \A i \in 1..Len(Rest(req)) : Rest(req)[i].kind # "cmd"
<1> DEFINE user == Msg("str", "user")
           pass == Msg("str", "pass")
           ssl  == Msg("int", "ssl")
           port == Msg("int", "port")
           file == Msg("fd", "file")
<1>0. /\ {user, pass, ssl, port, file} \subseteq Messages
      /\ \A m \in {user, pass, ssl, port, file} : m.kind # "cmd"
  BY MsgFacts DEF Kinds, Values
<1>1. CASE req = "LOGIN"
  <2>1. Rest(req) = <<user, pass, ssl, ssl>> BY <1>1 DEF Rest
  <2> HIDE DEF user, pass, ssl
  <2> QED BY <1>0, <2>1
<1>2. CASE req = "GET_DATA_SOCK"
  <2>1. Rest(req) = <<port>> BY <1>2 DEF Rest
  <2> HIDE DEF port
  <2> QED BY <1>0, <2>1
<1>3. CASE req = "CHOWN"
  <2>1. Rest(req) = <<file>> BY <1>3 DEF Rest
  <2> HIDE DEF file
  <2> QED BY <1>0, <2>1
<1>4. CASE req \notin {"LOGIN", "GET_DATA_SOCK", "CHOWN"} BY <1>4 DEF Rest
<1> QED BY <1>1, <1>2, <1>3, <1>4

(* A request is its command and then the rest.                             *)
LEMMA WholeFacts ==
  ASSUME NEW req \in Known \cup {"none"}
  PROVE  /\ Whole(req) \in Seq(Messages)
         /\ Len(Whole(req)) = Len(Rest(req)) + 1
         /\ Len(Rest(req)) \in Nat
         /\ Whole(req)[1] = Msg("cmd", req)
         /\ \A i \in 1..Len(Rest(req)) :
              /\ Whole(req)[i + 1] = Rest(req)[i]
              /\ Whole(req)[i + 1].kind # "cmd"
<1> DEFINE cmd == Msg("cmd", req)
<1>0. cmd \in Messages BY MsgFacts DEF Kinds, Values
<1>1. Rest(req) \in Seq(Messages) BY RestFacts
<1> HIDE DEF cmd
<1>2. <<cmd>> \in Seq(Messages) /\ Len(<<cmd>>) = 1 /\ <<cmd>>[1] = cmd
  BY <1>0
<1>3. Whole(req) = <<cmd>> \o Rest(req) BY DEF Whole, cmd
<1>4. Whole(req) \in Seq(Messages) /\ Len(Whole(req)) = Len(Rest(req)) + 1
  BY <1>1, <1>2, <1>3, ConcatProperties
<1>5. Len(Rest(req)) \in Nat BY <1>1, LenProperties
<1>6. \A i \in 1..Len(Rest(req)) : Whole(req)[i + 1] = Rest(req)[i]
  BY <1>1, <1>2, <1>3, <1>5, ConcatProperties
<1>7. Whole(req)[1] = cmd
  BY <1>1, <1>2, <1>3, <1>5, ConcatProperties
<1> QED BY <1>4, <1>5, <1>6, <1>7, RestFacts DEF cmd

(* An answer is of one or two messages.  The first is of the kind the      *)
(* child reads first; the last carries the answer; a result announces a    *)
(* second message to the child exactly if there is one, and of its kind.   *)
LEMMA WrittenFacts ==
  ASSUME NEW req \in Known, NEW on \in BOOLEAN, NEW ok \in BOOLEAN,
         NEW ans \in AnswersTo(req, on, ok)
  PROVE  /\ Written(req, ans) \in Seq(Messages)
         /\ Len(Written(req, ans)) \in {1, 2}
         /\ Written(req, ans)[1].kind = First(req)
         /\ Written(req, ans)[Len(Written(req, ans))].val = ans
         /\ Len(Written(req, ans)) = 1 =>
              Then(req, Written(req, ans)[1].val) = <<>>
         /\ Len(Written(req, ans)) = 2 =>
              /\ First(req) = "result"
              /\ Then(req, Written(req, ans)[1].val)
                   = << Written(req, ans)[2].kind >>
              /\ Written(req, ans)[2].kind # "result"
         /\ req = "LOGIN" => Len(Written(req, ans)) = 1
<1> DEFINE One(k, v) == Written(req, ans) = <<Msg(k, v)>>
           Two(v, k, w) == Written(req, ans) = <<Msg("result", v), Msg(k, w)>>
<1>1. ASSUME NEW k \in Kinds, NEW v \in Values, One(k, v)
      PROVE  /\ Written(req, ans) \in Seq(Messages)
             /\ Len(Written(req, ans)) = 1
             /\ Written(req, ans)[1].kind = k /\ Written(req, ans)[1].val = v
  BY <1>1, MsgFacts, OneMessage
<1>2. ASSUME NEW v \in Values, NEW k \in Kinds, NEW w \in Values, Two(v, k, w)
      PROVE  /\ Written(req, ans) \in Seq(Messages)
             /\ Len(Written(req, ans)) = 2
             /\ Written(req, ans)[1].kind = "result" /\ Written(req, ans)[1].val = v
             /\ Written(req, ans)[2].kind = k /\ Written(req, ans)[2].val = w
  BY <1>2, MsgFacts, TwoMessages DEF Kinds
<1>3. CASE req = "LOGIN"
  <2>1. ans \in {"OK", "BAD"} /\ One("result", ans) BY <1>3 DEF AnswersTo, Written
  <2>2. First(req) = "result" /\ Then(req, ans) = <<>> BY <1>3 DEF First, Then
  <2> QED BY <1>1, <2>1, <2>2 DEF Kinds, Values
<1>4. CASE req \in {"PASV_CLEANUP", "CHOWN"}
  <2>1. ans = "OK" /\ One("result", ans) BY <1>4 DEF AnswersTo, Service!Answers, Written
  <2>2. First(req) = "result" /\ Then(req, ans) = <<>> BY <1>4 DEF First, Then
  <2> QED BY <1>1, <1>4, <2>1, <2>2 DEF Kinds, Values
<1>5. CASE req \in {"PASV_ACTIVE", "PASV_LISTEN"}
  <2>1. ans \in {"0", "1", "port"} BY <1>5 DEF AnswersTo, Service!Answers
  <2>2. One("int", ans) BY <1>5, <2>1 DEF Written
  <2>3. First(req) = "int" /\ Then(req, ans) = <<>> BY <1>5 DEF First, Then
  <2> QED BY <1>1, <1>5, <2>1, <2>2, <2>3 DEF Kinds, Values
<1>6. CASE req \in {"PASV_ACCEPT", "GET_DATA_SOCK"} /\ ans = "fd"
  <2>1. Two("OK", "fd", ans) BY <1>6 DEF Written
  <2>2. First(req) = "result" /\ Then(req, "OK") = <<"fd">> BY <1>6 DEF First, Then
  <2> QED BY <1>2, <1>6, <2>1, <2>2 DEF Kinds, Values
<1>7. CASE req = "PASV_ACCEPT" /\ ans # "fd"
  <2>1. ans \in {"-1", "-2"} BY <1>7 DEF AnswersTo, Service!Answers
  <2>2. Two("BAD", "int", ans) BY <1>7, <2>1 DEF Written
  <2>3. First(req) = "result" /\ Then(req, "BAD") = <<"int">> BY <1>7 DEF First, Then
  <2> QED BY <1>2, <1>7, <2>1, <2>2, <2>3 DEF Kinds, Values
<1>8. CASE req = "GET_DATA_SOCK" /\ ans # "fd"
  <2>1. ans = "BAD" /\ One("result", ans)
    BY <1>8 DEF AnswersTo, Service!Answers, Written
  <2>2. First(req) = "result" /\ Then(req, ans) = <<>> BY <1>8, <2>1 DEF First, Then
  <2> QED BY <1>1, <1>8, <2>1, <2>2 DEF Kinds, Values
<1> QED BY <1>3, <1>4, <1>5, <1>6, <1>7, <1>8, RequestsAreKnown

-----------------------------------------------------------------------------
(* The initial states are typed.                                           *)
LEMMA InitTyped == Init => TypeOK /\ SequencesOK
<1> SUFFICES ASSUME Init PROVE TypeOK /\ SequencesOK
  OBVIOUS
<1>1. /\ parent_fd \in [Children -> SUBSET Processes]
      /\ child_fd \in [Children -> SUBSET Processes]
  <2>1. {"parent", "pre"} \in SUBSET Processes /\ {} \in SUBSET Processes
    BY DEF Children, Processes
  <2> QED BY <2>1 DEF Init
<1>3. login_fails \in 0..max_login_fails /\ commands \in 0..MaxCommands
  BY max_login_failsAssumption, MaxCommandsAssumption DEF Init
<1>4. TypeOK
  BY <1>1, <1>3 DEF Init, TypeOK, Children
<1>2. SequencesOK
  BY DEF Init, SequencesOK, Nothing
<1> QED BY <1>2, <1>4

(* The end of a process leaves sets of processes.                          *)
LEMMA EndsTyped ==
  ASSUME TypeOK
  PROVE  /\ ParentEnds => /\ parent_fd' \in [Children -> SUBSET Processes]
                          /\ child_fd' \in [Children -> SUBSET Processes]
         /\ \A c \in Children : ChildEnds(c) =>
              /\ parent_fd' \in [Children -> SUBSET Processes]
              /\ child_fd' \in [Children -> SUBSET Processes]
              /\ state' \in [Children -> {"unborn", "forked", "idle", "ask",
                                          "await", "dead", "reaped"}]
              /\ chld' \in BOOLEAN
<1>1. ASSUME NEW p, NEW fds \in [Children -> SUBSET Processes]
      PROVE  Closed(p, fds) \in [Children -> SUBSET Processes]
  BY DEF Closed
<1>2. /\ parent_fd \in [Children -> SUBSET Processes]
      /\ child_fd \in [Children -> SUBSET Processes]
  BY DEF TypeOK
<1>3. ParentEnds => /\ parent_fd' \in [Children -> SUBSET Processes]
                    /\ child_fd' \in [Children -> SUBSET Processes]
  BY <1>1, <1>2 DEF ParentEnds
<1>4. ASSUME NEW c \in Children, ChildEnds(c)
      PROVE  /\ parent_fd' \in [Children -> SUBSET Processes]
             /\ child_fd' \in [Children -> SUBSET Processes]
  BY <1>1, <1>2, <1>4 DEF ChildEnds
<1>5. ASSUME NEW c \in Children, ChildEnds(c)
      PROVE  /\ state' \in [Children -> {"unborn", "forked", "idle", "ask",
                                         "await", "dead", "reaped"}]
             /\ chld' \in BOOLEAN
  BY <1>5 DEF ChildEnds, TypeOK
<1> QED BY <1>3, <1>4, <1>5

(* Every step leaves the variables typed; the count of logins stays in     *)
(* its bound because a child at the bound has ended.                       *)
LEMMA TypeStep ==
  ASSUME TypeOK, SequencesOK, Turns, Next
  PROVE  TypeOK'
<1> USE DEF TypeOK
<1> USE max_login_failsAssumption, MaxCommandsAssumption, EndsTyped
<1> USE DEF vars, pair, ends, parent, signals, session
<1>1. ASSUME NEW c \in Children, Crash(c) \/ DeathSignal(c) \/ ClientLeaves(c)
        \/ ControlShut(c) \/ ChildReadsEnd(c)
      PROVE  TypeOK'
  BY <1>1 DEF Crash, DeathSignal, ClientLeaves, ControlShut, ChildReadsEnd
<1>2. ASSUME handle_sigterm \/ handle_sigchld \/ ParentReadsEnd
      PROVE  TypeOK'
  BY <1>2 DEF handle_sigterm, handle_sigchld, ParentReadsEnd, ParentEnds
<1>18. ASSUME Sigterm PROVE TypeOK'
  BY <1>18 DEF Sigterm
<1>19. ASSUME Ended PROVE TypeOK'
  BY <1>19 DEF Ended
<1>3. ASSUME NEW c \in Children, Reap(c) PROVE TypeOK'
  BY <1>3 DEF Reap, ParentEnds
<1>4. CASE ParentContext
  BY <1>4 DEF ParentContext
<1>5. CASE ParentReads
  BY <1>5 DEF ParentReads
<1>6. CASE LoginFails \/ LoginSucceeds
  BY <1>6 DEF LoginFails, LoginSucceeds
<1>7. CASE ParentWrites
  BY <1>7 DEF ParentWrites, ParentEnds
<1>8. CASE WaitForPre
  <2>1. /\ "post" \in Children /\ "pre" \in Children
        /\ {"parent", "post"} \in SUBSET Processes
    BY DEF Children, Processes
  <2>2. ASSUME ppc' = "context"
        PROVE  /\ parent_fd' \in [Children -> SUBSET Processes]
               /\ child_fd' \in [Children -> SUBSET Processes]
    <3>1. /\ parent_fd' = [c \in Children |-> IF c = "post" THEN {"parent", "post"} ELSE {}]
          /\ child_fd' = [c \in Children |-> IF c = "post" THEN {"parent", "post"} ELSE {}]
      BY <1>8, <2>2 DEF WaitForPre, ParentEnds
    <3> QED BY <2>1, <3>1
  <2>3. ppc' \in {"context", "dead"} /\ serving' \in Children
    BY <1>8, <2>1 DEF WaitForPre, ParentEnds
  <2>4. ASSUME ppc' = "dead"
        PROVE  /\ parent_fd' \in [Children -> SUBSET Processes]
               /\ child_fd' \in [Children -> SUBSET Processes]
    BY <1>8, <2>4 DEF WaitForPre
  <2> QED BY <1>8, <2>2, <2>3, <2>4 DEF WaitForPre
<1>9. CASE cmd_process_pasv_cleanup \/ cmd_process_pasv_active \/ cmd_process_pasv_accept
             \/ cmd_process_chown
  BY <1>9 DEF cmd_process_pasv_cleanup, cmd_process_pasv_active,
     cmd_process_pasv_accept,
       cmd_process_chown, Reply
<1>10. CASE cmd_process_pasv_listen \/ cmd_process_get_data_sock
  <2>1. ASSUME NEW ans, Reply(ans), listening' \in BOOLEAN PROVE TypeOK'
    BY <2>1 DEF Reply
  <2>2. ASSUME ParentEnds, UNCHANGED <<pair, parent, signals, state, session, control_shut, seen>>
        PROVE  TypeOK'
    BY <2>2 DEF ParentEnds
  <2>3. CASE cmd_process_pasv_listen
    BY <2>1, <2>2, <2>3 DEF cmd_process_pasv_listen
  <2>4. CASE cmd_process_get_data_sock
    BY <2>1, <2>2, <2>4 DEF cmd_process_get_data_sock
  <2> QED BY <1>10, <2>3, <2>4
<1>11. ASSUME NEW c \in Children, ChildContext(c) \/ ChildReadsFirst(c) PROVE TypeOK'
  BY <1>11 DEF ChildContext, ChildReadsFirst
<1>12. ASSUME NEW c \in Children, ChildWrites(c) PROVE TypeOK'
  BY <1>12 DEF ChildWrites
<1>13. CASE Login \/ NextRequest
  BY <1>13 DEF Login, NextRequest, Ask
<1>14. ASSUME NEW ts, NEW ports \in SUBSET BOOLEAN, Command(ts, ports) PROVE TypeOK'
  BY <1>14 DEF Command
<1>15. CASE Pasv \/ Port \/ Transfer
  BY <1>14, <1>15 DEF Pasv, Port, Transfer
<1>16. CASE ChildReadsLast
  BY <1>16 DEF ChildReadsLast, Answered, AfterActive
<1>17. CASE LoginAnswered
  <2>1. login_fails < max_login_fails /\ "pre" \in Children
    BY <1>17 DEF LoginAnswered, Turns, Alive, Children
  <2>2. login_fails' \in 0..max_login_fails
    BY <1>17, <2>1 DEF LoginAnswered
  <2>3. /\ parent_fd' \in [Children -> SUBSET Processes]
        /\ child_fd' \in [Children -> SUBSET Processes]
        /\ state' \in [Children -> {"unborn", "forked", "idle", "ask", "await",
                                    "dead", "reaped"}]
        /\ chld' \in BOOLEAN
    BY <1>17, <2>1 DEF LoginAnswered
  <2> QED BY <1>17, <2>2, <2>3 DEF LoginAnswered
<1> QED
  BY <1>1, <1>2, <1>3, <1>4, <1>5, <1>6, <1>7, <1>8, <1>9, <1>10, <1>11, <1>12, <1>13,
     <1>15, <1>16, <1>17, <1>18, <1>19
     DEF Next, ParentStep, ChildStep, ClientStep, Fault
-----------------------------------------------------------------------------

(* A process ends, or the parent goes to wait for a child that did: no     *)
(* message is read or written and nothing of the conversation changes.     *)
Ends ==
  /\ UNCHANGED <<pair, serving, sending, job, listening, session, seen, chld_handler>>
  /\ \/ ppc' = ppc /\ reading' = reading
     \/ ppc' = "dead" /\ reading' \in Seq(Kinds)
     \/ /\ ppc \in {"read", "write", "wait"} /\ ppc' = "reap"
        /\ reading' = reading /\ chld_handler = "exit"
  /\ \A c \in Children :
       \/ state'[c] = state[c]
       \/ Alive(c) /\ state'[c] = "dead"
       \/ state[c] = "dead" /\ state'[c] = "reaped" /\ ppc' = "dead"

(* The conversation survives the end of either process, at any point.      *)
LEMMA EndsStep ==
  ASSUME IInv, TypeOK', Ends
  PROVE  Conversation'
<1> USE DEF IInv, Conversation, pair, session
<1>0. "pre" \in Children /\ "post" \in Children /\ serving \in Children
  BY DEF Children, TypeOK
<1>1. UNCHANGED <<to_parent, to_child, serving, sending, job, listening, asking,
        expecting, todo, request, seen, chld_handler, login_fails, port_sockaddr>>
  BY DEF Ends
<1>2. /\ Unread' = Unread /\ Outstanding' = Outstanding
      /\ Going' => Going /\ ppc' = ppc /\ reading' = reading
      /\ AwaitsCommand' <=> AwaitsCommand /\ ppc' = ppc
  BY <1>1 DEF Unread, Outstanding, Going, AwaitsCommand, Ends
<1>3. SequencesOK' BY <1>1 DEF SequencesOK, Ends
<1>4. Turns' BY <1>0, <1>1 DEF Turns, Ends, Alive
<1>5. ParentPhase' BY <1>1, <1>2 DEF ParentPhase, Ends, Allowed, Possible
<1>6. Streams' BY <1>1, <1>2 DEF Streams
<1>7. ASSUME NEW s \in {"forked", "idle", "ask", "await"}, NEW c \in Children,
             state'[c] = s
      PROVE  state[c] = s
  BY <1>7 DEF Ends
<1>8. ChildPhase'
  <2>1. \A ans : Answering(ans) => Answering(ans)'
    BY <1>1, <1>2 DEF Answering
  <2>2. AnswersTo(request, seen, chld_handler = "null")'
          = AnswersTo(request, seen, chld_handler = "null")
    BY <1>1 DEF AnswersTo
  <2>3. state[serving] = "await" /\ Outstanding > 0 =>
          \E ans \in AnswersTo(request, seen, chld_handler = "null")' : Answering(ans)'
    BY <2>1, <2>2 DEF ChildPhase
  <2> QED BY <1>0, <1>1, <1>2, <1>7, <2>3 DEF ChildPhase, Allowed, Possible
<1>9. Knows' BY <1>0, <1>1, <1>2, <1>7 DEF Knows
<1>10. Planned' BY <1>0, <1>1, <1>7 DEF Planned, Alive
<1> QED BY <1>3, <1>4, <1>5, <1>6, <1>8, <1>9, <1>10 DEF Conversation

(* The steps that are only that.                                           *)
LEMMA EndingSteps ==
  ASSUME IInv, 
    \/ handle_sigterm \/ handle_sigchld \/ ParentReadsEnd \/ Sigterm \/ Ended
    \/ \E c \in Children : Crash(c) \/ DeathSignal(c) \/ ClientLeaves(c)
        \/ ControlShut(c) \/ ChildReadsEnd(c) \/ Reap(c)
  PROVE  Ends
<1> USE DEF IInv, Conversation, TypeOK, SequencesOK, vars, pair, ends, parent,
   signals, session, ParentEnds, Ends
<1>1. CASE handle_sigterm \/ handle_sigchld
  BY <1>1 DEF handle_sigterm, handle_sigchld, AtCheck
<1>2. CASE ParentReadsEnd
  BY <1>2 DEF ParentReadsEnd
<1>3. CASE Sigterm \/ Ended BY <1>3 DEF Sigterm, Ended
<1>4. ASSUME NEW c \in Children, Reap(c) PROVE Ends BY <1>4 DEF Reap
<1>5. ASSUME NEW c \in Children, Crash(c) \/ DeathSignal(c)  PROVE Ends
  BY <1>5 DEF Crash, DeathSignal, ChildEnds, Alive
<1>6. ASSUME NEW c \in Children, ClientLeaves(c)
        \/ ControlShut(c) \/ ChildReadsEnd(c)  PROVE Ends
  BY <1>6 DEF ClientLeaves, ControlShut, ChildReadsEnd, ChildEnds, Alive
<1> QED BY <1>1, <1>2, <1>3, <1>4, <1>5, <1>6

(* The parent begins to read.                                              *)
LEMMA ParentContextStep ==
  ASSUME IInv, TypeOK', ParentContext
  PROVE  Conversation'
<1> USE DEF IInv, Conversation, pair, session, signals, ParentContext
<1>0. "pre" \in Children /\ "post" \in Children /\ serving \in Children
  BY DEF Children, TypeOK
<1>1. /\ Unread' = Unread /\ Outstanding' = Outstanding
      /\ Going /\ Going' /\ AwaitsCommand /\ AwaitsCommand'
      /\ reading' = <<"cmd">> /\ Len(<<"cmd">>) = 1 /\ Head(<<"cmd">>) = "cmd"
      /\ <<"cmd">> # <<>>
  BY DEF Unread, Outstanding, Going, AwaitsCommand
<1>3. SequencesOK' BY DEF SequencesOK, Kinds
<1>4. Turns' BY DEF Turns, Alive
<1>5. ParentPhase' BY <1>1 DEF ParentPhase
<1>6. Streams' BY <1>1 DEF Streams
<1>8. ChildPhase'
  <2>1. \A ans : Answering(ans) => Answering(ans)'
    BY <1>1 DEF Answering
  <2>2. AnswersTo(request, seen, chld_handler = "null")'
          = AnswersTo(request, seen, chld_handler = "null")
    BY <1>1 DEF AnswersTo
  <2>3. state[serving] = "await" /\ Outstanding > 0 =>
          \E ans \in AnswersTo(request, seen, chld_handler = "null")' : Answering(ans)'
    BY <2>1, <2>2 DEF ChildPhase
  <2> QED BY <1>1, <2>3 DEF ChildPhase, Allowed, Possible
<1>9. Knows' BY <1>1 DEF Knows
<1>10. Planned' BY <1>1 DEF Planned, Alive
<1> QED BY <1>3, <1>4, <1>5, <1>6, <1>8, <1>9, <1>10 DEF Conversation

(* The parent reads a message: it is of the kind it expects, a command is  *)
(* one this child may give, and a request that is complete is possible as  *)
(* the passive socket is.                                                  *)
LEMMA ParentReadsStep ==
  ASSUME IInv, TypeOK', ParentReads
  PROVE  Conversation'
<1> USE DEF IInv, Conversation, ends, session, signals
<1> DEFINE W == Whole(request)
           msgs == to_parent[serving]
           kinds == KindsOf(Rest(request))
<1>0. "pre" \in Children /\ "post" \in Children /\ serving \in Children
  BY DEF Children, TypeOK
<1>1. /\ ppc = "read" /\ msgs # <<>> /\ msgs \in Seq(Messages)
      /\ to_parent' = [to_parent EXCEPT ![serving] = Tail(msgs)]
      /\ UNCHANGED <<to_child, serving, sending, listening, chld_handler, state,
           asking, expecting, todo, port_sockaddr, login_fails, request, seen>>
  BY <1>0 DEF ParentReads, SequencesOK
<1>2. /\ Len(msgs) \in Nat \ {0} /\ Len(asking) \in Nat /\ Head(msgs) = msgs[1]
      /\ Len(Tail(msgs)) = Len(msgs) - 1 /\ Tail(msgs) \in Seq(Messages)
      /\ \A i \in 1..(Len(msgs) - 1) : Tail(msgs)[i] = msgs[i + 1]
  BY <1>1 DEF SequencesOK
<1>3. /\ Unread > 0 /\ Unread' = Unread - 1 /\ Unread \in Nat
      /\ Outstanding' = Outstanding /\ Outstanding = 0
  BY <1>0, <1>1, <1>2 DEF Unread, Outstanding, Streams, SequencesOK
<1>4. /\ W \in Seq(Messages) /\ Len(W) = Len(Rest(request)) + 1 /\ Len(W) \in Nat
      /\ W[1] = Msg("cmd", request)
      /\ \A i \in 2..Len(W) : W[i] = Rest(request)[i - 1] /\ W[i].kind # "cmd"
  <2>1. \A i \in 2..Len(W) : i - 1 \in 1..Len(Rest(request)) /\ (i - 1) + 1 = i
    BY WholeFacts DEF SequencesOK
  <2>2. request \in Known \cup {"none"} BY DEF SequencesOK
  <2>3. /\ W \in Seq(Messages) /\ Len(W) = Len(Rest(request)) + 1 /\ Len(Rest(request)) \in Nat
        /\ W[1] = Msg("cmd", request)
        /\ \A i \in 1..Len(Rest(request)) :
              W[i + 1] = Rest(request)[i] /\ W[i + 1].kind # "cmd"
    BY WholeFacts, <2>2
  <2> HIDE DEF W
  <2> QED BY <2>1, <2>3
<1>5. request \in Known /\ Allowed(request) /\ Possible(request)
  BY <1>3 DEF ChildPhase
<1>6. Head(msgs) = W[Len(W) - Unread + 1] /\ Unread <= Len(W)
  BY <1>2 DEF Streams
<1>7. /\ kinds \in Seq(Kinds) /\ Len(kinds) = Len(W) - 1
      /\ \A i \in 1..Len(kinds) : kinds[i] = W[i + 1].kind /\ kinds[i] # "cmd"
  <2>1. Rest(request) \in Seq(Messages) BY RestFacts
  <2>2. DOMAIN Rest(request) = 1..Len(Rest(request)) BY <2>1
  <2>3. \A i \in 1..Len(Rest(request)) : Rest(request)[i].kind \in Kinds
    <3>1. \A m \in Messages : m.kind \in Kinds BY DEF Messages
    <3>2. \A i \in 1..Len(Rest(request)) : Rest(request)[i] \in Messages BY <2>1
    <3> QED BY <3>1, <3>2
  <2>4. kinds \in Seq(Kinds) /\ Len(kinds) = Len(Rest(request))
    BY <2>2, <2>3, <1>4 DEF KindsOf
  <2>5. \A i \in 1..Len(kinds) :
          i + 1 \in 2..Len(W) /\ kinds[i] = Rest(request)[i].kind /\ (i + 1) - 1 = i
    BY <2>2, <2>4, <1>4 DEF KindsOf
  <2>6. \A i \in 1..Len(kinds) : W[i + 1] = Rest(request)[i] /\ W[i + 1].kind # "cmd"
    <3> TAKE i \in 1..Len(kinds)
    <3>1. i + 1 \in 2..Len(W) /\ (i + 1) - 1 = i BY <2>5
    <3> HIDE DEF kinds, W
    <3> QED BY <3>1, <1>4
  <2> HIDE DEF kinds, W
  <2> QED BY <2>4, <2>5, <2>6, <1>4
<1> DEFINE more == IF Head(reading) = "cmd" THEN kinds ELSE Tail(reading)
<1>8. /\ job' = request /\ reading' = more
      /\ ppc' = IF more # <<>> THEN "read" ELSE "perform"
      /\ more \in Seq(Kinds) /\ Len(more) = Unread - 1 /\ Unread - 1 < Len(W)
      /\ \A i \in 1..Len(more) : more[i] = W[Len(W) - Len(more) + i].kind /\ more[i] # "cmd"
  <2>1. CASE Head(reading) = "cmd"
    <3>1. Unread = Len(W)
      BY <2>1, <1>1, <1>3 DEF ParentPhase, AwaitsCommand
    <3>2. Head(msgs).kind = "cmd" /\ Head(msgs).val = request
      <4>1. Head(msgs) = W[1] BY <3>1, <1>4, <1>6
      <4> QED BY <4>1, <1>4 DEF Msg
    <3>3. job' = request /\ reading' = kinds /\ ppc' = IF kinds # <<>> THEN "read" ELSE "perform"
      <4>1. reading # <<>> BY <1>1 DEF ParentPhase
      <4>2. ~(\/ Head(msgs).kind # Head(reading)
              \/ Head(msgs).kind = "cmd" /\ ~Allowed(Head(msgs).val))
        BY <2>1, <3>2, <1>5
      <4>3. job' = request /\ reading' = kinds
        BY <2>1, <3>2, <4>2 DEF ParentReads
      <4>4. Possible(Head(msgs).val) BY <3>2, <1>5
      <4>5. KindsOf(Rest(Head(msgs).val)) = kinds BY <3>2
      <4>6. CASE kinds # <<>>
        BY <2>1, <4>2, <4>3, <4>5, <4>6 DEF ParentReads
      <4>7. CASE kinds = <<>>
        BY <2>1, <4>2, <4>3, <4>4, <4>5, <4>7 DEF ParentReads
      <4> QED BY <4>3, <4>6, <4>7
    <3> HIDE DEF kinds, W
    <3> QED BY <2>1, <3>1, <3>3, <1>3, <1>4, <1>7
  <2>2. CASE Head(reading) # "cmd"
    <3>1. /\ reading # <<>> /\ job = request
          /\ Unread = Len(reading) /\ Len(reading) < Len(W)
          /\ \A i \in 1..Len(reading) : reading[i] = W[Len(W) - Len(reading) + i].kind
      BY <2>2, <1>1 DEF ParentPhase
    <3>2. /\ reading \in Seq(Kinds) /\ Head(reading) = reading[1] /\ Len(reading) \in Nat \ {0}
          /\ Tail(reading) \in Seq(Kinds) /\ Len(Tail(reading)) = Len(reading) - 1
          /\ \A i \in 1..(Len(reading) - 1) : Tail(reading)[i] = reading[i + 1]
      BY <3>1 DEF SequencesOK
    <3>3. Head(msgs).kind = Head(reading)
      BY <3>1, <3>2, <1>6
    <3>4. job' = request /\ reading' = Tail(reading)
            /\ ppc' = IF Tail(reading) # <<>> THEN "read" ELSE "perform"
      <4>1. ~(\/ Head(msgs).kind # Head(reading)
              \/ Head(msgs).kind = "cmd" /\ ~Allowed(Head(msgs).val))
        BY <2>2, <3>3
      <4>2. job' = request /\ reading' = Tail(reading)
        BY <2>2, <3>1, <4>1 DEF ParentReads
      <4>3. Possible(job) BY <3>1, <1>5
      <4>4. CASE Tail(reading) # <<>>
        BY <2>2, <4>1, <4>2, <4>4 DEF ParentReads
      <4>5. CASE Tail(reading) = <<>>
        BY <2>2, <4>1, <4>2, <4>3, <4>5 DEF ParentReads
      <4> QED BY <4>2, <4>4, <4>5
    <3>5. \A i \in 1..(Len(reading) - 1) :
             /\ i + 1 \in 1..Len(reading)
             /\ Len(W) - Len(reading) + (i + 1) = Len(W) - (Len(reading) - 1) + i
             /\ Len(W) - (Len(reading) - 1) + i \in 2..Len(W)
      BY <3>1, <3>2, <1>4
    <3> HIDE DEF W
    <3>6. \A i \in 1..(Len(reading) - 1) :
             /\ Tail(reading)[i] = W[Len(W) - (Len(reading) - 1) + i].kind
             /\ Tail(reading)[i] # "cmd"
      <4> TAKE i \in 1..(Len(reading) - 1)
      <4>1. Tail(reading)[i] = W[Len(W) - Len(reading) + (i + 1)].kind
        BY <3>1, <3>2, <3>5
      <4> QED BY <4>1, <3>5, <1>4
    <3> QED BY <2>2, <3>1, <3>2, <3>4, <3>6
  <2> QED BY <2>1, <2>2
<1> HIDE DEF more, kinds, W
<1>9. \/ /\ ppc' = "read" /\ more # <<>> /\ Unread' > 0 /\ Head(more) # "cmd"
      \/ ppc' = "perform" /\ Unread' = 0
  <2>1. CASE more # <<>>
    <3>1. Len(more) > 0 /\ Head(more) = more[1] /\ 1 \in 1..Len(more) BY <2>1, <1>8
    <3> QED BY <2>1, <3>1, <1>3, <1>8
  <2>2. CASE more = <<>>
    BY <2>2, <1>3, <1>8
  <2> QED BY <2>1, <2>2
<1>10. ~AwaitsCommand' BY <1>8, <1>9 DEF AwaitsCommand
<1>11. SequencesOK' 
  BY <1>0, <1>1, <1>2, <1>5, <1>8 DEF SequencesOK
<1>12. Turns'
  <2>1. serving = "pre" => to_parent'["post"] = to_parent["post"]
    BY <1>0, <1>1
  <2> QED BY <1>1, <2>1 DEF Turns, Alive
<1>13. ParentPhase'
  BY <1>1, <1>3, <1>5, <1>8, <1>9, <1>10 DEF ParentPhase, Allowed, Possible, W
<1>14. Streams'
  <2>1. to_parent'[serving'] = Tail(msgs) /\ Whole(request)' = W BY <1>0, <1>1 DEF SequencesOK, W
  <2>2. \A i \in 1..Len(Tail(msgs)) : /\ i + 1 \in 1..Len(msgs)
                                      /\ Len(W) - Unread + (i + 1) = Len(W) - (Unread - 1) + i
    BY <1>2, <1>3, <1>4
  <2>3. \A i \in 1..Len(Tail(msgs)) : Tail(msgs)[i] = W[Len(W) - (Unread - 1) + i]
    BY <2>2, <1>2 DEF Streams, W
  <2>4. Unread' <= Len(W) /\ Outstanding' = 0 BY <1>3, <1>4, <1>6
  <2> QED BY <2>1, <2>3, <2>4, <1>1, <1>3 DEF Streams, W
<1>15. ChildPhase'
  <2>1. Going' => Unread' > 0 \/ ppc' = "perform" BY <1>9
  <2> QED BY <2>1, <1>1, <1>3, <1>5 DEF ChildPhase, Allowed, Possible
<1>16. Knows' BY <1>1, <1>3 DEF Knows
<1>17. Planned' BY <1>1 DEF Planned, Alive
<1> QED BY <1>11, <1>12, <1>13, <1>14, <1>15, <1>16, <1>17 DEF Conversation

(* The parent has performed its request and is to write an answer.         *)
Replies(ans) ==
  /\ ppc = "perform" /\ ppc' = "write" /\ job \in Known
  /\ ans \in AnswersTo(job, listening, chld_handler' = "null")
  /\ sending' = Written(job, ans) /\ listening' = After(job, listening)
  /\ \/ chld_handler' = chld_handler
     \/ job = "LOGIN" /\ chld_handler' = "null"
  /\ UNCHANGED <<pair, serving, reading, job, state, session, seen>>

(* A request that is performed is the one the child waits for, and the     *)
(* answer is one of those it may have.                                     *)
LEMMA RepliesStep ==
  ASSUME IInv, TypeOK', NEW ans, Replies(ans)
  PROVE  Conversation'
<1> USE DEF IInv, Conversation, session, pair
<1> DEFINE w == Written(request, ans)
<1>0. "pre" \in Children /\ "post" \in Children /\ serving \in Children
  BY DEF Children, TypeOK
<1>1. /\ ppc = "perform" /\ ppc' = "write"
      /\ job = request /\ Unread = 0 /\ Outstanding = 0
      /\ Allowed(job) /\ Possible(job)
      /\ chld_handler = "exit" /\ request \in Known
      /\ UNCHANGED <<to_parent, to_child, serving, reading, job, state, asking, expecting,
           todo, port_sockaddr, login_fails, request, seen>>
  BY DEF Replies, ParentPhase, Turns, TypeOK
<1>2. /\ ans \in AnswersTo(request, listening, chld_handler' = "null")
      /\ sending' = w /\ listening' = After(request, listening)
      /\ chld_handler' = "null" => request = "LOGIN"
  BY <1>1 DEF Replies
<1>3. /\ w \in Seq(Messages) /\ Len(w) \in {1, 2} /\ w[1].kind = First(request)
      /\ w # <<>>
  <2>1. /\ w \in Seq(Messages) /\ Len(w) \in {1, 2} /\ w[1].kind = First(request)
    <3> DEFINE ok == chld_handler' = "null"
    <3>1. listening \in BOOLEAN /\ ok \in BOOLEAN /\ request \in Known
          /\ ans \in AnswersTo(request, listening, ok)
      BY <1>1, <1>2 DEF TypeOK
    <3> HIDE DEF ok
    <3> QED BY <3>1, WrittenFacts
  <2> HIDE DEF w
  <2> QED BY <2>1
<1> HIDE DEF w
<1>4. /\ to_child[serving] \in Seq(Messages) /\ sending \in Seq(Messages)
      /\ Len(to_child[serving]) \in Nat /\ Len(sending) \in Nat
  BY <1>0 DEF SequencesOK
<1>5. /\ Len(to_child[serving]) = 0 /\ Outstanding' = Len(w) /\ Unread' = 0
      /\ Going /\ Going' /\ ~AwaitsCommand /\ ~AwaitsCommand'
  BY <1>1, <1>2, <1>4 DEF Outstanding, Unread, Going, AwaitsCommand
<1>6. SequencesOK' BY <1>1, <1>2, <1>3 DEF SequencesOK
<1>7. Turns' BY <1>1, <1>2 DEF Turns, Alive, Allowed, After
<1>8. ParentPhase' BY <1>1, <1>2, <1>3, <1>5 DEF ParentPhase
<1>9. Streams'
  <2>1. Len(asking) = 0 /\ Len(to_parent[serving]) = 0
    BY <1>0, <1>1 DEF SequencesOK, Unread
  <2>2. Len(Whole(request)) \in Nat BY <1>1, WholeFacts
  <2> QED BY <1>0, <1>1, <1>5, <2>1, <2>2 DEF Streams
<1>10. /\ state[serving] \notin {"forked", "idle", "ask"}
       /\ state[serving] = "await" => /\ expecting = <<First(request)>>
                                      /\ serving = "post" => seen = listening
  <2>1. asking = <<>> BY <1>0, <1>1 DEF SequencesOK, Unread
  <2> QED BY <1>1, <1>5, <2>1 DEF ChildPhase, Knows
<1>11. ChildPhase'
  <2>1. ASSUME state[serving] = "await"
        PROVE  \E a \in AnswersTo(request, seen, chld_handler = "null")' : Answering(a)'
    <3>1. ans \in AnswersTo(request, seen, chld_handler' = "null")
      BY <1>1, <1>2, <1>10, <2>1 DEF Allowed, AnswersTo, TypeOK, Children
    <3>2. Len(expecting) = 1 /\ expecting[1] = w[1].kind
      BY <1>3, <1>10, <2>1
    <3>3. Answering(ans)'
      <4>1. Written(request, ans)' = w BY <1>1 DEF w
      <4> QED BY <1>1, <1>2, <1>3, <1>5, <3>2, <4>1 DEF Answering
    <3> QED BY <1>1, <3>1, <3>3
  <2> QED BY <1>1, <1>3, <1>5, <1>10, <2>1 DEF ChildPhase, Allowed
<1>12. Knows'
  <2>1. state["post"] # "unborn" => serving = "post"
    BY <1>0 DEF Turns, TypeOK, Children
  <2> QED BY <1>1, <1>2, <1>3, <1>5, <1>10, <2>1 DEF Knows
<1>13. Planned'
  BY <1>1, <1>2 DEF Planned, Alive, After
<1> QED BY <1>6, <1>7, <1>8, <1>9, <1>11, <1>12, <1>13 DEF Conversation

(* What each request leads to.                                             *)
LEMMA AnswersReply ==
  ASSUME IInv
  PROVE  /\ LoginFails => Replies("BAD")
         /\ LoginSucceeds => Replies("OK")
         /\ cmd_process_pasv_cleanup => Replies("OK")
         /\ cmd_process_pasv_active => Replies(IF listening THEN "1" ELSE "0")
         /\ cmd_process_pasv_listen => Replies("port") \/ Ends
         /\ cmd_process_pasv_accept => \E ans \in {"fd", "-1", "-2"} : Replies(ans)
         /\ cmd_process_get_data_sock => (\E ans \in {"fd", "BAD"} : Replies(ans)) \/ Ends
         /\ cmd_process_chown => Replies("OK")
<1> USE DEF IInv, Conversation, session, pair, ends, signals, parent, Known,
   Service!Requests, AnswersTo, Service!Answers,
            After, Replies, Reply
<1>1. ppc = "perform" => Possible(job) /\ chld_handler = "exit"
  BY DEF ParentPhase, Turns, TypeOK
<1>2. ParentEnds => ppc' = "dead"
  BY DEF ParentEnds
<1>3. LoginFails => Replies("BAD")
  BY <1>1 DEF LoginFails, Written
<1>4. LoginSucceeds => Replies("OK")
  BY <1>1 DEF LoginSucceeds, Written
<1>5. cmd_process_pasv_cleanup => Replies("OK")
  BY <1>1 DEF cmd_process_pasv_cleanup
<1>6. cmd_process_pasv_active => Replies(IF listening THEN "1" ELSE "0")
  BY <1>1 DEF cmd_process_pasv_active
<1>7. cmd_process_pasv_listen => Replies("port") \/ Ends
  BY <1>1, <1>2 DEF cmd_process_pasv_listen, Possible, Ends, SequencesOK
<1>8. cmd_process_pasv_accept => \E ans \in {"fd", "-1", "-2"} : Replies(ans)
  BY <1>1 DEF cmd_process_pasv_accept, Possible
<1>9. cmd_process_get_data_sock => (\E ans \in {"fd", "BAD"} : Replies(ans)) \/ Ends
  BY <1>1, <1>2 DEF cmd_process_get_data_sock, Possible, Ends, SequencesOK
<1>10. cmd_process_chown => Replies("OK")
  BY <1>1 DEF cmd_process_chown
<1> QED BY <1>3, <1>4, <1>5, <1>6, <1>7, <1>8, <1>9, <1>10

(* A message of an answer is written.                                      *)
LEMMA ParentWritesStep ==
  ASSUME IInv, TypeOK', ParentWrites, ~ Ends
  PROVE  Conversation'
<1> USE DEF IInv, Conversation, session, pair, ends, signals, parent
<1>0. "pre" \in Children /\ "post" \in Children /\ serving \in Children
  BY DEF Children, TypeOK
<1>1. /\ ppc = "write" /\ reading' = <<"cmd">>
      /\ to_child' = [to_child EXCEPT ![serving] = Append(@, Head(sending))]
      /\ sending' = Tail(sending)
      /\ ppc' = CASE Len(sending) > 1 -> "write"
                  [] Len(sending) = 1 /\ chld_handler = "null" -> "wait"
                  [] OTHER -> "read"
      /\ UNCHANGED <<to_parent, serving, job, listening, chld_handler, state, asking, expecting,
           todo, port_sockaddr, login_fails, commands, request, got, seen>>
  <2>1. ~(parent_fd[serving] = {} \/ child_fd[serving] = {})
    <3>1. ParentEnds => ppc' = "dead" BY DEF ParentEnds
    <3> SUFFICES ASSUME parent_fd[serving] = {} \/ child_fd[serving] = {}
                 PROVE  Ends
      OBVIOUS
    <3>2. <<"cmd">> \in Seq(Kinds) BY DEF Kinds
    <3> QED BY <3>1, <3>2 DEF ParentWrites, Ends
  <2> QED BY <2>1 DEF ParentWrites
<1> DEFINE mine == to_child[serving]
<1>2. /\ Unread = 0 /\ sending \in Seq(Messages) /\ sending # <<>>
      /\ Len(sending) \in Nat \ {0} /\ Head(sending) = sending[1] /\ Head(sending) \in Messages
      /\ Tail(sending) \in Seq(Messages) /\ Len(Tail(sending)) = Len(sending) - 1
      /\ \A i \in 1..(Len(sending) - 1) : Tail(sending)[i] = sending[i + 1]
  BY <1>1 DEF ParentPhase, SequencesOK
<1>3. /\ mine \in Seq(Messages) /\ Len(mine) \in Nat
      /\ to_child'[serving] = Append(mine, Head(sending))
      /\ to_child'[serving] \in Seq(Messages)
      /\ Len(to_child'[serving]) = Len(mine) + 1
      /\ to_child'[serving][Len(mine) + 1] = sending[1]
      /\ \A i \in 1..Len(mine) : to_child'[serving][i] = mine[i]
  BY <1>0, <1>1, <1>2 DEF SequencesOK
<1>4. /\ Unread' = 0 /\ Outstanding' = Outstanding /\ Outstanding > 0
      /\ ~AwaitsCommand /\ Going
      /\ reading' # <<>> /\ Head(reading') = "cmd" /\ Len(reading') = 1
      /\ AwaitsCommand' <=> ppc' = "read"
  BY <1>1, <1>2, <1>3 DEF Unread, Outstanding, AwaitsCommand, Going
<1>5. \/ ppc' = "write" /\ sending' # <<>>
      \/ ppc' = "wait" /\ sending' = <<>> /\ chld_handler = "null"
      \/ ppc' = "read" /\ sending' = <<>> /\ chld_handler # "null"
  <2>1. CASE Len(sending) > 1
    <3>1. ppc' = "write" BY <2>1, <1>1
    <3>2. Tail(sending) # <<>>
      <4> DEFINE rest == Tail(sending)
      <4>1. rest \in Seq(Messages) /\ Len(rest) > 0 BY <2>1, <1>2
      <4> HIDE DEF rest
      <4>2. rest # <<>> BY <4>1
      <4> QED BY <4>2 DEF rest
    <3> QED BY <3>1, <3>2, <1>1
  <2>2. CASE ~(Len(sending) > 1)
    <3>1. Len(sending) = 1 BY <2>2, <1>2
    <3>2. ppc' = IF chld_handler = "null" THEN "wait" ELSE "read" BY <3>1, <1>1
    <3>3. Tail(sending) = <<>>
      <4> DEFINE rest == Tail(sending)
      <4>1. rest \in Seq(Messages) /\ Len(rest) = 0 BY <3>1, <1>2
      <4> HIDE DEF rest
      <4>2. rest = <<>> BY <4>1
      <4> QED BY <4>2 DEF rest
    <3> QED BY <3>2, <3>3, <1>1
  <2> QED BY <2>1, <2>2
<1>6. SequencesOK'
  BY <1>0, <1>1, <1>2, <1>3 DEF SequencesOK, Kinds
<1>7. Turns'
  <2>1. serving = "pre" => to_child'["post"] = to_child["post"] BY <1>0, <1>1 DEF SequencesOK
  <2> QED BY <1>1, <1>5, <2>1 DEF Turns, Alive
<1>8. ParentPhase'
  BY <1>1, <1>4, <1>5 DEF ParentPhase
<1>9. Streams'
  BY <1>1, <1>2, <1>4 DEF Streams
<1>10. ChildPhase'
  <2>1. state[serving] \notin {"forked", "idle", "ask"}
    BY <1>4 DEF ChildPhase
  <2>2. ASSUME NEW ans, Answering(ans), Len(Written(request, ans)) \in Nat PROVE Answering(ans)'
    <3> DEFINE w == Written(request, ans)
    <3>1. w' = w BY <1>1
    <3>2. Outstanding = Len(mine) + Len(sending) BY DEF Outstanding
    <3>3. \A i \in 1..(Len(sending) - 1) :
            /\ i + 1 \in 1..Len(sending)
            /\ Len(w) - Len(sending) + (i + 1) = Len(w) - (Len(sending) - 1) + i
      BY <1>2, <2>2
    <3>4. \A i \in 1..Len(sending') : sending'[i] = w[Len(w) - Len(sending') + i]
      BY <1>1, <1>2, <2>2, <3>3 DEF Answering
    <3>5. sending[1] = w[Len(w) - Outstanding + (Len(mine) + 1)]
      <4>0. Len(w) \in Nat /\ Len(mine) \in Nat /\ Len(sending) \in Nat BY <1>2, <1>3, <2>2
      <4>2. sending[1] = w[Len(w) - Len(sending) + 1]
        BY <1>2, <2>2 DEF Answering
      <4> HIDE DEF w, mine
      <4>1. Len(w) - Outstanding + (Len(mine) + 1) = Len(w) - Len(sending) + 1 BY <4>0, <3>2
      <4> QED BY <4>1, <4>2
    <3>6. \A i \in 1..Len(to_child'[serving]) :
            to_child'[serving][i] = w[Len(w) - Outstanding + i]
      <4>1. \A i \in 1..Len(to_child'[serving]) : i \in 1..Len(mine) \/ i = Len(mine) + 1
        BY <1>3
      <4> QED BY <4>1, <1>3, <2>2, <3>5 DEF Answering
    <3> HIDE DEF w
    <3>7. Written(request, ans) = w BY DEF w
    <3> QED BY <1>1, <1>4, <2>2, <3>1, <3>4, <3>6, <3>7 DEF Answering
  <2>3. ASSUME state[serving] = "await"
        PROVE  \E a \in AnswersTo(request, seen, chld_handler = "null")' : Answering(a)'
    <3>1. PICK ans \in AnswersTo(request, seen, chld_handler = "null") : Answering(ans)
      BY <2>3, <1>4 DEF ChildPhase
    <3>2. Len(Written(request, ans)) \in {1, 2}
      BY <2>3, <3>1, WrittenFacts DEF ChildPhase, TypeOK
    <3>3. Answering(ans)' BY <2>2, <3>1, <3>2
    <3> QED BY <1>1, <3>1, <3>3
  <2> QED BY <1>1, <1>4, <1>5, <2>1, <2>3 DEF ChildPhase, Allowed
<1>11. Knows' BY <1>1, <1>4 DEF Knows
<1>12. Planned' BY <1>1 DEF Planned, Alive
<1> QED BY <1>6, <1>7, <1>8, <1>9, <1>10, <1>11, <1>12 DEF Conversation

(* Nothing of the login is left when the second child is forked.           *)
LEMMA WaitForPreStep ==
  ASSUME IInv, TypeOK', WaitForPre, ~ Ends
  PROVE  Conversation'
<1> USE DEF IInv, Conversation, session, pair, ends, signals, parent
<1>0. "pre" \in Children /\ "post" \in Children /\ serving \in Children
  BY DEF Children, TypeOK
<1>1. /\ ppc = "wait" /\ ppc' = "context" /\ serving' = "post" /\ chld_handler' = "exit"
      /\ state' = [state EXCEPT !["pre"] = "reaped", !["post"] = "forked"]
      /\ UNCHANGED <<to_parent, to_child, reading, sending, job, listening, asking, expecting,
           todo, port_sockaddr, login_fails, commands, request, got, seen>>
  <2>1. \/ ppc' = "context"
        \/ /\ state' = [state EXCEPT !["pre"] = "reaped"]
           /\ ppc' = "dead" /\ UNCHANGED <<serving, chld_handler>>
    BY DEF WaitForPre, ParentEnds
  <2>2. ppc' = "dead" => Ends
    BY <1>0, <2>1 DEF WaitForPre, Ends, Alive, SequencesOK, TypeOK
  <2> QED BY <2>1, <2>2 DEF WaitForPre, ParentEnds
<1>2. /\ serving = "pre" /\ Unread = 0 /\ sending = <<>>
      /\ to_parent["post"] = <<>> /\ to_child["post"] = <<>> /\ ~listening /\ ~seen
  BY <1>1 DEF ParentPhase, Turns
<1>3. asking = <<>>
  BY <1>0, <1>2 DEF Unread, SequencesOK
<1>4. Unread' = 0 /\ Outstanding' = 0 /\ Going' /\ AwaitsCommand'
  BY <1>1, <1>2, <1>3 DEF Unread, Outstanding, Going, AwaitsCommand
<1>5. state'["pre"] = "reaped" /\ state'["post"] = "forked"
  BY <1>0, <1>1 DEF TypeOK
<1>6. SequencesOK' BY <1>1 DEF SequencesOK
<1>7. Turns' BY <1>0, <1>1, <1>5 DEF Turns, Alive
<1>8. ParentPhase' BY <1>1, <1>2, <1>4 DEF ParentPhase
<1>9. Streams'
  <2>1. Len(Whole(request)) \in Nat BY WholeFacts DEF SequencesOK
  <2>2. Len(asking) = 0 /\ Len(to_parent["post"]) = 0 BY <1>2, <1>3
  <2> QED BY <1>1, <1>4, <2>1, <2>2 DEF Streams
<1>10. ChildPhase' BY <1>1, <1>4, <1>5 DEF ChildPhase
<1>11. Knows' BY <1>1, <1>2, <1>5 DEF Knows, TypeOK
<1>12. Planned' BY <1>5 DEF Planned
<1> QED BY <1>6, <1>7, <1>8, <1>9, <1>10, <1>11, <1>12 DEF Conversation

(* The child that lives is the one whose pair the parent reads.            *)
LEMMA AliveServes ==
  ASSUME TypeOK, Turns, NEW c \in Children, Alive(c)
  PROVE  c = serving
  BY DEF TypeOK, Turns, Children, Alive

(* A child begins.                                                         *)
LEMMA ChildContextStep ==
  ASSUME IInv, TypeOK', NEW c \in Children, ChildContext(c)
  PROVE  Conversation'
<1> USE DEF IInv, Conversation, pair, signals, parent
<1>0. "pre" \in Children /\ "post" \in Children /\ serving \in Children
  BY DEF Children, TypeOK
<1>1. /\ c = serving /\ state[c] = "forked"
      /\ state' = [state EXCEPT ![c] = "idle"]
      /\ asking' = <<>> /\ expecting' = <<>> /\ todo' = <<>> /\ request' = "none"
      /\ UNCHANGED <<to_parent, to_child, ppc, serving, reading, sending, job, listening,
           chld_handler, login_fails, seen>>
  BY AliveServes DEF ChildContext, Alive
<1>2. /\ Unread = 0 /\ Outstanding = 0 /\ (Going => AwaitsCommand)
      /\ ppc # "refused" /\ sending \in Seq(Messages) /\ sending = <<>>
  BY <1>0, <1>1 DEF ChildPhase, ParentPhase, SequencesOK, Outstanding
<1>3. Len(to_parent[serving]) = 0 /\ Unread' = 0 /\ Outstanding' = 0
  BY <1>0, <1>1, <1>2 DEF Unread, Outstanding, SequencesOK
<1>4. (Going' <=> Going) /\ (AwaitsCommand' <=> AwaitsCommand)
  BY <1>1 DEF Going, AwaitsCommand
<1>5. state'[c] = "idle" /\ \A d \in Children \ {c} : state'[d] = state[d]
  BY <1>1 DEF TypeOK
<1>6. SequencesOK' BY <1>1 DEF SequencesOK
<1>7. Turns' BY <1>0, <1>1, <1>5 DEF Turns, Alive
<1>8. ParentPhase' BY <1>1, <1>2, <1>3, <1>4 DEF ParentPhase, Going, AwaitsCommand
<1>9. Streams'
  <2>1. Len(Whole("none")) \in Nat BY WholeFacts
  <2> QED BY <1>1, <1>3, <2>1 DEF Streams
<1>10. ChildPhase' BY <1>1, <1>2, <1>3, <1>4, <1>5 DEF ChildPhase
<1>11. Knows'
  <2>1. state'["post"] = "await" => state["post"] = "await" /\ c # "post" BY <1>0, <1>1, <1>5
  <2>2. c = "post" => seen = listening BY <1>1 DEF Knows
  <2>3. c = "pre" => state'["post"] = "unborn" BY <1>0, <1>1, <1>5 DEF Turns
  <2> QED BY <1>0, <1>1, <2>1, <2>2, <2>3 DEF Knows, Children
<1>12. Planned' BY <1>1 DEF Planned
<1> QED BY <1>6, <1>7, <1>8, <1>9, <1>10, <1>11, <1>12 DEF Conversation

(* A child asks for something it may ask for.                              *)
Asks(c, req) ==
  /\ state[c] = "idle" /\ Ask(c, req)
  /\ req \in Known /\ Allowed(req) /\ Possible(req)
  /\ UNCHANGED <<pair, ppc, serving, reading, sending, job, listening,
           chld_handler, login_fails, seen>>

(* A request is begun only when the last one is over.                      *)
LEMMA AsksStep ==
  ASSUME IInv, TypeOK', NEW c \in Children, NEW req, Asks(c, req),
         todo' \in Seq(Known), Planned'
  PROVE  Conversation'
<1> USE DEF IInv, Conversation, pair, signals, parent
<1>0. "pre" \in Children /\ "post" \in Children /\ serving \in Children
  BY DEF Children, TypeOK
<1>1. /\ c = serving /\ state[c] = "idle"
      /\ state' = [state EXCEPT ![c] = "ask"]
      /\ asking' = Whole(req) /\ expecting' = <<First(req)>> /\ request' = req
      /\ req \in Known /\ Allowed(req) /\ Possible(req)
      /\ UNCHANGED <<to_parent, to_child, ppc, serving, reading, sending, job, listening,
           chld_handler, login_fails, seen>>
  BY AliveServes DEF Asks, Ask, Alive, Whole
<1>2. /\ Unread = 0 /\ Outstanding = 0 /\ (Going => AwaitsCommand)
      /\ ppc # "refused" /\ sending \in Seq(Messages) /\ sending = <<>>
  BY <1>0, <1>1 DEF ChildPhase, ParentPhase, SequencesOK, Outstanding
<1>3. /\ Whole(req) \in Seq(Messages) /\ Len(Whole(req)) \in Nat \ {0}
      /\ Whole(req) # <<>>
  <2>1. Whole(req) \in Seq(Messages) /\ Len(Whole(req)) \in Nat \ {0}
    BY <1>1, WholeFacts
  <2> DEFINE W == Whole(req)
  <2> HIDE DEF W
  <2>2. W # <<>> BY <2>1 DEF W
  <2> QED BY <2>1, <2>2 DEF W
<1>4. /\ Len(to_parent[serving]) = 0 /\ Unread' = Len(Whole(req)) /\ Outstanding' = 0
  BY <1>0, <1>1, <1>2, <1>3 DEF Unread, Outstanding, SequencesOK
<1>5. (Going' <=> Going) /\ (AwaitsCommand' <=> AwaitsCommand)
  BY <1>1 DEF Going, AwaitsCommand
<1>6. state'[c] = "ask" /\ \A d \in Children \ {c} : state'[d] = state[d]
  BY <1>1 DEF TypeOK
<1>7. SequencesOK'
  <2>1. First(req) \in Kinds BY DEF First, Kinds
  <2>2. <<First(req)>> \in Seq(Kinds) BY <2>1
  <2> QED BY <1>1, <1>3, <2>2 DEF SequencesOK
<1>8. Turns' BY <1>0, <1>1, <1>6 DEF Turns, Alive
<1>9. ParentPhase' BY <1>1, <1>2, <1>4, <1>5 DEF ParentPhase, Going, AwaitsCommand
<1>10. Streams'
  BY <1>1, <1>3, <1>4 DEF Streams
<1>11. ChildPhase' BY <1>1, <1>3, <1>4, <1>6 DEF ChildPhase, Allowed, Possible
<1>12. Knows'
  <2>1. state'["post"] = "await" => state["post"] = "await" /\ c # "post" BY <1>0, <1>1, <1>6
  <2>2. c = "post" => seen = listening BY <1>1 DEF Knows
  <2>3. c = "pre" => state'["post"] = "unborn" BY <1>0, <1>1, <1>6 DEF Turns
  <2> QED BY <1>0, <1>1, <2>1, <2>2, <2>3 DEF Knows, Children
<1> QED BY <1>7, <1>8, <1>9, <1>10, <1>11, <1>12 DEF Conversation

(* A login is asked for.                                                   *)
LEMMA LoginStep ==
  ASSUME IInv, TypeOK', Login
  PROVE  Conversation'
<1> USE DEF IInv, Conversation, pair, signals, parent
<1>1. "pre" \in Children BY DEF Children
<1>2. serving = "pre" BY <1>1, AliveServes DEF Login, Alive
<1>3. Asks("pre", "LOGIN")
  BY <1>2 DEF Login, Asks, Known, Allowed, Possible
<1>4. todo' \in Seq(Known) BY DEF Login, SequencesOK
<1>5. Planned'
  <2>1. state'["post"] = "unborn" BY <1>2 DEF Login, Ask, Turns, TypeOK, Children
  <2> QED BY <2>1 DEF Planned, Alive
<1> QED BY <1>1, <1>3, <1>4, <1>5, AsksStep

(* The next request of a command is asked for; the passive socket is as    *)
(* that request needs it.                                                  *)
LEMMA NextRequestStep ==
  ASSUME IInv, TypeOK', NextRequest
  PROVE  Conversation'
<1> USE DEF IInv, Conversation, pair, signals, parent
<1>1. "post" \in Children BY DEF Children
<1>2. serving = "post" BY <1>1, AliveServes DEF NextRequest, Alive
<1>3. /\ todo \in Seq(Known) /\ Len(todo) \in Nat \ {0} /\ Head(todo) = todo[1]
      /\ Tail(todo) \in Seq(Known) /\ Len(Tail(todo)) = Len(todo) - 1
      /\ \A i \in 1..(Len(todo) - 1) : Tail(todo)[i] = todo[i + 1]
  BY DEF NextRequest, SequencesOK
<1>4. /\ state["post"] = "idle" /\ request = "none"
  BY <1>2 DEF NextRequest, ChildPhase
<1>5. \A i \in 1..Len(todo) :
      /\ todo[i] \in Service!Requests
      /\ todo[i] = "PASV_LISTEN" =>
           \/ i = 1 /\ ~listening
           \/ i = 2 /\ todo[1] = "PASV_CLEANUP"
      /\ todo[i] \in {"PASV_ACCEPT", "GET_DATA_SOCK"} =>
           /\ todo[i] = "PASV_ACCEPT" <=> listening
           /\ \A j \in 1..(i-1) : todo[j] = "CHOWN"
  BY <1>4 DEF Planned, Alive
<1>6. Asks("post", Head(todo))
  <2>1. 1 \in 1..Len(todo) BY <1>3
  <2>2. Head(todo) \in Known /\ Allowed(Head(todo)) /\ Possible(Head(todo))
    BY <1>2, <1>3, <1>5, <2>1 DEF Known, Allowed, Possible, Service!Requests
  <2> QED BY <2>2 DEF NextRequest, Asks
<1>7. /\ todo' = Tail(todo) /\ request' = todo[1] /\ listening' = listening
  BY <1>3 DEF NextRequest, Ask
<1>8. Planned'
  <2>1. SUFFICES ASSUME NEW i \in 1..Len(todo')
                 PROVE  /\ todo'[i] \in Service!Requests
                        /\ todo'[i] = "PASV_LISTEN" => i = 1 /\ request' = "PASV_CLEANUP"
                        /\ todo'[i] \in {"PASV_ACCEPT", "GET_DATA_SOCK"} =>
                           /\ todo'[i] = "PASV_ACCEPT" <=> listening'
                           /\ request' = "CHOWN"
                           /\ \A j \in 1..(i-1) : todo'[j] = "CHOWN"
    BY DEF Planned
  <2>2. /\ i + 1 \in 1..Len(todo) /\ i + 1 # 1 /\ (i + 1 = 2 => i = 1)
        /\ todo'[i] = todo[i + 1]
    BY <1>3, <1>7
  <2>3. todo[i + 1] \in {"PASV_ACCEPT", "GET_DATA_SOCK"} =>
           /\ todo[1] = "CHOWN"
           /\ \A j \in 1..(i-1) : todo'[j] = "CHOWN"
    <3>1. 1 \in 1..((i + 1) - 1) BY <2>1
    <3>2. \A j \in 1..(i-1) : j + 1 \in 1..((i + 1) - 1) /\ j \in 1..(Len(todo) - 1)
      BY <1>3, <2>1, <2>2
    <3> QED BY <1>3, <1>5, <1>7, <2>2, <3>1, <3>2
  <2> QED BY <1>5, <1>7, <2>2, <2>3
<1>9. todo' \in Seq(Known) BY <1>3, <1>7
<1> QED BY <1>1, <1>6, <1>8, <1>9, AsksStep

(* A command of the client makes a plan of requests.                       *)
LEMMA CommandStep ==
  ASSUME IInv, TypeOK', NEW todos, NEW ports, Command(todos, ports),
         todos \in {<<"PASV_CLEANUP", "PASV_LISTEN">>, <<"PASV_CLEANUP">>, <<"PASV_ACTIVE">>}
  PROVE  Conversation'
<1> USE DEF IInv, Conversation, pair, ends, signals, parent
<1>0. "pre" \in Children /\ "post" \in Children /\ serving \in Children
  BY DEF Children, TypeOK
<1>1. /\ state["post"] = "idle" /\ todo' = todos
      /\ UNCHANGED <<to_parent, to_child, ppc, serving, reading, sending, job, listening,
           chld_handler, state, asking, expecting, request, login_fails, seen>>
  BY DEF Command
<1>2. serving = "post" /\ request = "none"
  BY <1>0, <1>1, AliveServes DEF Alive, ChildPhase
<1>3. /\ Unread' = Unread /\ Outstanding' = Outstanding
      /\ (Going' <=> Going) /\ (AwaitsCommand' <=> AwaitsCommand)
  BY <1>1 DEF Unread, Outstanding, Going, AwaitsCommand
<1>4. SequencesOK'
  <2>1. {"PASV_CLEANUP", "PASV_LISTEN", "PASV_ACTIVE"} \subseteq Known
    BY DEF Known, Service!Requests
  <2>2. <<"PASV_CLEANUP", "PASV_LISTEN">> \in Seq(Known) BY <2>1
  <2>3. <<"PASV_CLEANUP">> \in Seq(Known) /\ <<"PASV_ACTIVE">> \in Seq(Known) BY <2>1
  <2> QED BY <1>1, <2>2, <2>3 DEF SequencesOK
<1>5. Turns' BY <1>1 DEF Turns, Alive
<1>6. ParentPhase' BY <1>1, <1>3 DEF ParentPhase, Allowed, Possible
<1>7. Streams' BY <1>1, <1>3 DEF Streams
<1>8. ChildPhase' BY <1>1, <1>2, <1>3 DEF ChildPhase, Allowed, Possible
<1>9. Knows' BY <1>1, <1>3 DEF Knows
<1>10. Planned'
  <2>1. \A i \in 1..Len(todos) :
          \/ todos[i] \in {"PASV_CLEANUP", "PASV_ACTIVE"}
          \/ i = 2 /\ todos[i] = "PASV_LISTEN" /\ todos[1] = "PASV_CLEANUP"
    <3>1. CASE todos = <<"PASV_CLEANUP", "PASV_LISTEN">> BY <3>1
    <3>2. CASE todos = <<"PASV_CLEANUP">> BY <3>2
    <3>3. CASE todos = <<"PASV_ACTIVE">> BY <3>3
    <3> QED BY <3>1, <3>2, <3>3
  <2> QED BY <1>1, <2>1 DEF Planned, Service!Requests
<1> QED BY <1>4, <1>5, <1>6, <1>7, <1>8, <1>9, <1>10 DEF Conversation

(* A message of a request is written.                                      *)
LEMMA ChildWritesStep ==
  ASSUME IInv, TypeOK', NEW c \in Children, ChildWrites(c), parent_fd[c] # {}
  PROVE  Conversation'
<1> USE DEF IInv, Conversation, pair, ends, signals, parent
<1>0. "pre" \in Children /\ "post" \in Children /\ serving \in Children
  BY DEF Children, TypeOK
<1>1. /\ c = serving /\ state[c] = "ask"
      /\ to_parent' = [to_parent EXCEPT ![c] = Append(@, Head(asking))]
      /\ asking' = Tail(asking)
      /\ state' = [state EXCEPT ![c] = IF Len(asking) = 1 THEN "await" ELSE "ask"]
      /\ UNCHANGED <<to_child, ppc, serving, reading, sending, job, listening, chld_handler,
            expecting, todo, request, login_fails, seen>>
  BY AliveServes DEF ChildWrites, Alive
<1> DEFINE mine == to_parent[serving]
           W == Whole(request)
<1>2. /\ asking \in Seq(Messages) /\ asking # <<>> /\ Outstanding = 0
      /\ Len(asking) \in Nat \ {0} /\ Head(asking) = asking[1] /\ Head(asking) \in Messages
      /\ Tail(asking) \in Seq(Messages) /\ Len(Tail(asking)) = Len(asking) - 1
      /\ \A i \in 1..(Len(asking) - 1) : Tail(asking)[i] = asking[i + 1]
  BY <1>1 DEF ChildPhase, SequencesOK
<1>3. /\ mine \in Seq(Messages) /\ Len(mine) \in Nat
      /\ to_parent'[serving] = Append(mine, Head(asking))
      /\ to_parent'[serving] \in Seq(Messages)
      /\ Len(to_parent'[serving]) = Len(mine) + 1
      /\ to_parent'[serving][Len(mine) + 1] = asking[1]
      /\ \A i \in 1..Len(mine) : to_parent'[serving][i] = mine[i]
  BY <1>0, <1>1, <1>2 DEF SequencesOK
<1>4. /\ Unread = Len(mine) + Len(asking) /\ Unread' = Unread /\ Unread > 0
      /\ Outstanding' = 0
      /\ (Going' <=> Going) /\ (AwaitsCommand' <=> AwaitsCommand)
  BY <1>1, <1>2, <1>3 DEF Unread, Outstanding, Going, AwaitsCommand
<1>5. /\ \/ state'[c] = "ask" /\ asking' # <<>>
         \/ state'[c] = "await" /\ asking' = <<>>
      /\ \A d \in Children \ {c} : state'[d] = state[d]
  <2> DEFINE rest == Tail(asking)
  <2>1. rest \in Seq(Messages) /\ Len(rest) = Len(asking) - 1 BY <1>2
  <2>2. asking' = rest /\ (state'[c] = IF Len(asking) = 1 THEN "await" ELSE "ask")
        /\ \A d \in Children \ {c} : state'[d] = state[d]
    BY <1>1 DEF TypeOK
  <2> HIDE DEF rest
  <2>3. rest = <<>> <=> Len(asking) = 1 BY <1>2, <2>1
  <2> QED BY <2>2, <2>3
<1>6. SequencesOK'
  BY <1>0, <1>1, <1>2, <1>3 DEF SequencesOK
<1>7. Turns'
  <2>1. serving = "pre" => to_parent'["post"] = to_parent["post"] BY <1>0, <1>1 DEF SequencesOK
  <2> QED BY <1>0, <1>1, <1>5, <2>1 DEF Turns, Alive
<1>8. ParentPhase'
  BY <1>1, <1>2, <1>4 DEF ParentPhase, Allowed, Possible
<1>9. Streams'
  <2>0. Len(W) \in Nat BY WholeFacts DEF SequencesOK
  <2>1. \A i \in 1..(Len(asking) - 1) :
            /\ i + 1 \in 1..Len(asking)
            /\ Len(W) - Len(asking) + (i + 1) = Len(W) - (Len(asking) - 1) + i
    BY <1>2, <2>0
  <2>2. \A i \in 1..Len(asking') : asking'[i] = W[Len(W) - Len(asking') + i]
    BY <1>1, <1>2, <2>1 DEF Streams
  <2>3. asking[1] = W[Len(W) - Unread + (Len(mine) + 1)]
    <3>1. asking[1] = W[Len(W) - Len(asking) + 1] BY <1>2 DEF Streams
    <3> HIDE DEF W, mine
    <3>2. Len(W) - Unread + (Len(mine) + 1) = Len(W) - Len(asking) + 1 BY <1>2, <1>3, <1>4, <2>0
    <3> QED BY <3>1, <3>2
  <2>4. \A i \in 1..Len(to_parent'[serving]) : to_parent'[serving][i] = W[Len(W) - Unread + i]
    <3>1. \A i \in 1..Len(to_parent'[serving]) : i \in 1..Len(mine) \/ i = Len(mine) + 1
      BY <1>3
    <3> QED BY <3>1, <1>3, <2>3 DEF Streams
  <2>5. W' = W /\ serving' = serving BY <1>1
  <2> HIDE DEF W
  <2>6. Whole(request) = W BY DEF W
  <2> QED BY <1>1, <1>4, <2>2, <2>4, <2>5, <2>6 DEF Streams
<1>10. ChildPhase'
  BY <1>1, <1>2, <1>4, <1>5 DEF ChildPhase, Allowed, Possible
<1>11. Knows' BY <1>0, <1>1, <1>2, <1>4, <1>5 DEF Knows
<1>12. Planned' BY <1>0, <1>1, <1>5 DEF Planned, Alive
<1> QED BY <1>6, <1>7, <1>8, <1>9, <1>10, <1>11, <1>12 DEF Conversation

(* What a child finds when it reads: a message of the kind it expects,     *)
(* which either is the first of two, and says so, or carries the answer.   *)
LEMMA ReadFacts ==
  ASSUME IInv, NEW c \in Children, state[c] = "await", to_child[c] # <<>>
  PROVE  /\ c = serving /\ request \in Known /\ Allowed(request)
         /\ asking = <<>> /\ Unread = 0 /\ Outstanding > 0
         /\ Going => ppc \in {"write", "wait"} \/ AwaitsCommand
         /\ to_child[c] \in Seq(Messages) /\ Len(to_child[c]) \in Nat \ {0}
         /\ Len(sending) \in Nat
         /\ Head(to_child[c]) = to_child[c][1]
         /\ Tail(to_child[c]) \in Seq(Messages)
         /\ Len(Tail(to_child[c])) = Len(to_child[c]) - 1
         /\ \A i \in 1..(Len(to_child[c]) - 1) : Tail(to_child[c])[i] = to_child[c][i + 1]
         /\ Len(expecting) = 1 /\ Head(expecting) = expecting[1]
         /\ \E ans \in AnswersTo(request, seen, chld_handler = "null") :
              LET w == Written(request, ans) IN
              /\ Answering(ans) /\ w \in Seq(Messages)
              /\ \/ /\ Outstanding = 1 /\ Head(to_child[c]).val = ans
                    /\ Head(to_child[c]).kind = Head(expecting)
                    /\ ~(/\ Head(expecting) = "result"
                         /\ Then(request, Head(to_child[c]).val) # <<>>)
                 \/ /\ Outstanding = 2 /\ Len(w) = 2 /\ request # "LOGIN"
                    /\ Head(to_child[c]).kind = Head(expecting)
                    /\ Head(expecting) = "result"
                    /\ Then(request, Head(to_child[c]).val) = << w[2].kind >>
<1> USE DEF IInv, Conversation
<1>1. c = serving BY AliveServes DEF Alive
<1>2. /\ to_child[c] \in Seq(Messages) /\ Len(to_child[c]) \in Nat \ {0}
      /\ Len(sending) \in Nat
      /\ Head(to_child[c]) = to_child[c][1]
      /\ Tail(to_child[c]) \in Seq(Messages)
      /\ Len(Tail(to_child[c])) = Len(to_child[c]) - 1
      /\ \A i \in 1..(Len(to_child[c]) - 1) : Tail(to_child[c])[i] = to_child[c][i + 1]
  BY DEF SequencesOK
<1>3. Outstanding > 0 /\ Outstanding = Len(to_child[c]) + Len(sending)
  BY <1>1, <1>2 DEF Outstanding
<1>4. PICK ans \in AnswersTo(request, seen, chld_handler = "null") : Answering(ans)
  BY <1>1, <1>3 DEF ChildPhase
<1>5. request \in Known /\ Allowed(request) /\ asking = <<>> /\ Unread = 0
      /\ (Going => ppc \in {"write", "wait"} \/ AwaitsCommand)
  BY <1>1, <1>3 DEF ChildPhase
<1> DEFINE w == Written(request, ans)
<1>6. /\ w \in Seq(Messages) /\ Len(w) \in {1, 2} /\ w[1].kind = First(request)
      /\ w[Len(w)].val = ans
      /\ Len(w) = 1 => Then(request, w[1].val) = <<>>
      /\ Len(w) = 2 => /\ First(request) = "result"
                       /\ Then(request, w[1].val) = << w[2].kind >>
                       /\ w[2].kind # "result"
      /\ request = "LOGIN" => Len(w) = 1
  <2>1. seen \in BOOLEAN /\ (chld_handler = "null") \in BOOLEAN BY DEF TypeOK
  <2> DEFINE ok == chld_handler = "null"
  <2>2. ok \in BOOLEAN /\ ans \in AnswersTo(request, seen, ok) BY <1>4, <2>1
  <2> HIDE DEF ok
  <2> QED BY <1>5, <2>1, <2>2, WrittenFacts
<1>7. /\ Outstanding <= Len(w)
      /\ to_child[c][1] = w[Len(w) - Outstanding + 1]
      /\ Len(expecting) = 1 /\ expecting[1] = w[Len(w) - Outstanding + 1].kind
  BY <1>1, <1>2, <1>4 DEF Answering
<1>8. Head(expecting) = expecting[1]
  BY <1>7 DEF SequencesOK
<1>9. Written(request, ans) = w OBVIOUS
<1> HIDE DEF w
<1>10. CASE Outstanding = 1
  <2>1. to_child[c][1] = w[Len(w)] /\ expecting[1] = w[Len(w)].kind
    BY <1>6, <1>7, <1>10
  <2>2. ~(Head(expecting) = "result" /\ Then(request, Head(to_child[c]).val) # <<>>)
    BY <1>2, <1>6, <1>8, <2>1
  <2> QED BY <1>1, <1>2, <1>3, <1>4, <1>5, <1>6, <1>7, <1>8, <1>9, <1>10, <2>1, <2>2
<1>11. CASE Outstanding = 2
  <2>1. Len(w) = 2 /\ to_child[c][1] = w[1] /\ expecting[1] = w[1].kind
    BY <1>6, <1>7, <1>11
  <2> QED BY <1>1, <1>2, <1>3, <1>4, <1>5, <1>6, <1>7, <1>8, <1>9, <1>11, <2>1
<1>12. Outstanding \in {1, 2} BY <1>2, <1>3, <1>6, <1>7
<1> QED BY <1>10, <1>11, <1>12

(* The first message of an answer of two is read.                          *)
LEMMA ChildReadsFirstStep ==
  ASSUME IInv, TypeOK', NEW c \in Children, ChildReadsFirst(c)
  PROVE  Conversation'
<1> USE DEF IInv, Conversation, ends, signals, parent
<1>1. /\ state[c] = "await" /\ to_child[c] # <<>>
      /\ Head(expecting) = "result" /\ Then(request, Head(to_child[c]).val) # <<>>
      /\ to_child' = [to_child EXCEPT ![c] = Tail(@)]
      /\ expecting' = Then(request, Head(to_child[c]).val)
      /\ UNCHANGED <<to_parent, ppc, serving, reading, sending, job, listening, chld_handler,
            state, asking, todo, request, login_fails, seen>>
  BY DEF ChildReadsFirst
<1>2. /\ c = serving /\ request \in Known /\ asking = <<>> /\ Unread = 0
      /\ Going => ppc \in {"write", "wait"} \/ AwaitsCommand
      /\ to_child[c] \in Seq(Messages) /\ Len(to_child[c]) \in Nat \ {0}
      /\ Tail(to_child[c]) \in Seq(Messages)
      /\ Len(Tail(to_child[c])) = Len(to_child[c]) - 1
      /\ \A i \in 1..(Len(to_child[c]) - 1) : Tail(to_child[c])[i] = to_child[c][i + 1]
      /\ Len(sending) \in Nat
  BY <1>1, ReadFacts
<1>3. PICK ans \in AnswersTo(request, seen, chld_handler = "null") :
        /\ Answering(ans) /\ Written(request, ans) \in Seq(Messages)
        /\ Outstanding = 2 /\ Len(Written(request, ans)) = 2 /\ request # "LOGIN"
        /\ Then(request, Head(to_child[c]).val) = << Written(request, ans)[2].kind >>
  BY <1>1, ReadFacts
<1> DEFINE w == Written(request, ans)
<1>4. serving = "post"
  BY <1>1, <1>2, <1>3 DEF ChildPhase, Allowed, TypeOK, Children
<1>5. /\ to_child'[serving] = Tail(to_child[serving])
      /\ Outstanding = Len(to_child[serving]) + Len(sending)
      /\ Unread' = 0 /\ Outstanding' = 1
      /\ (Going' <=> Going) /\ (AwaitsCommand' <=> AwaitsCommand)
  BY <1>1, <1>2, <1>3 DEF Unread, Outstanding, Going, AwaitsCommand, SequencesOK
<1>6. Len(expecting') = 1 /\ expecting'[1] = w[2].kind /\ expecting' \in Seq(Kinds)
  <2>1. w[2] \in Messages BY <1>3
  <2>2. w[2].kind \in Kinds BY <2>1 DEF Messages
  <2>3. expecting' = <<w[2].kind>> BY <1>1, <1>3
  <2> HIDE DEF w
  <2> QED BY <2>2, <2>3
<1>7. Answering(ans)'
  <2>1. w' = w BY <1>1
  <2>2. \A i \in 1..(Len(to_child[serving]) - 1) :
          i + 1 \in 1..Len(to_child[serving]) /\ 2 - 2 + (i + 1) = 2 - 1 + i
    BY <1>2
  <2>3. \A i \in 1..Len(to_child'[serving]) : to_child'[serving][i] = w[2 - 1 + i]
    BY <1>2, <1>3, <1>5, <2>2 DEF Answering
  <2>4. \A i \in 1..Len(sending) : sending[i] = w[2 - Len(sending) + i]
    BY <1>3 DEF Answering
  <2>5. Written(request, ans) = w OBVIOUS
  <2> HIDE DEF w
  <2> QED BY <1>1, <1>3, <1>5, <1>6, <2>1, <2>3, <2>4, <2>5 DEF Answering
<1>8. SequencesOK'
  BY <1>1, <1>2, <1>6 DEF SequencesOK
<1>9. Turns' BY <1>1, <1>4 DEF Turns, Alive
<1>10. ParentPhase' BY <1>1, <1>2, <1>3, <1>5 DEF ParentPhase, Allowed, Possible
<1>11. Streams' BY <1>1, <1>2, <1>5 DEF Streams
<1>12. ChildPhase'
  BY <1>1, <1>2, <1>3, <1>5, <1>7 DEF ChildPhase, Allowed, Possible
<1>13. Knows' BY <1>1, <1>3, <1>5 DEF Knows
<1>14. Planned' BY <1>1 DEF Planned, Alive
<1> QED BY <1>8, <1>9, <1>10, <1>11, <1>12, <1>13, <1>14 DEF Conversation

(* The last message of an answer is the only one there is.                 *)
LEMMA LastRead ==
  ASSUME IInv, NEW c \in Children, state[c] = "await", to_child[c] # <<>>,
         ~(/\ Head(expecting) = "result"
           /\ Then(request, Head(to_child[c]).val) # <<>>)
  PROVE  /\ c = serving /\ request \in Known /\ Allowed(request)
         /\ asking = <<>> /\ Unread = 0 /\ Outstanding = 1
         /\ sending = <<>> /\ Len(to_child[c]) = 1
         /\ Tail(to_child[c]) \in Seq(Messages) /\ Len(Tail(to_child[c])) = 0
         /\ Len(sending) = 0
         /\ Going => (ppc = "wait" /\ chld_handler = "null") \/ AwaitsCommand
         /\ Head(to_child[c]).kind = Head(expecting)
         /\ Head(to_child[c]).val \in AnswersTo(request, seen, chld_handler = "null")
         /\ request = "LOGIN" <=> serving = "pre"
<1> USE DEF IInv, Conversation
<1>1. /\ c = serving /\ request \in Known /\ Allowed(request)
      /\ asking = <<>> /\ Unread = 0
      /\ Going => ppc \in {"write", "wait"} \/ AwaitsCommand
      /\ Len(to_child[c]) \in Nat \ {0} /\ Len(sending) \in Nat
      /\ Tail(to_child[c]) \in Seq(Messages)
      /\ Len(Tail(to_child[c])) = Len(to_child[c]) - 1
  BY ReadFacts
<1>2. PICK ans \in AnswersTo(request, seen, chld_handler = "null") :
         \/ /\ Outstanding = 1 /\ Head(to_child[c]).val = ans
            /\ Head(to_child[c]).kind = Head(expecting)
         \/ /\ Outstanding = 2
            /\ Head(expecting) = "result"
            /\ Then(request, Head(to_child[c]).val) = << Written(request, ans)[2].kind >>
  BY ReadFacts
<1>3. << Written(request, ans)[2].kind >> # <<>>
  OBVIOUS
<1>4. Outstanding = 1 /\ Outstanding = Len(to_child[c]) + Len(sending)
  BY <1>1, <1>2, <1>3 DEF Outstanding
<1>5. Len(to_child[c]) = 1 /\ Len(sending) = 0
  <2>1. \A a \in Nat \ {0}, b \in Nat : a + b = 1 => a = 1 /\ b = 0
    OBVIOUS
  <2> QED BY <1>1, <1>4, <2>1
<1>6. sending = <<>> BY <1>5 DEF SequencesOK
<1>7. Going => (ppc = "wait" /\ chld_handler = "null") \/ AwaitsCommand
  BY <1>1, <1>6 DEF ParentPhase
<1>8. request = "LOGIN" <=> serving = "pre" BY <1>1 DEF Allowed
<1> QED BY <1>1, <1>2, <1>3, <1>4, <1>5, <1>6, <1>7, <1>8

(* The answer is taken, and what a transfer asks for next suits the        *)
(* passive socket.                                                         *)
LEMMA ChildReadsLastStep ==
  ASSUME IInv, TypeOK', ChildReadsLast
  PROVE  Conversation'
<1> USE DEF IInv, Conversation, ends, signals, parent
<1> DEFINE msg == Head(to_child["post"])
<1>0. "pre" \in Children /\ "post" \in Children /\ serving \in Children
  BY DEF Children, TypeOK
<1>1. /\ state["post"] = "await" /\ to_child["post"] # <<>>
      /\ ~(msg.kind = Head(expecting) /\ msg.kind = "result" /\ Then(request, msg.val) # <<>>)
      /\ to_child' = [to_child EXCEPT !["post"] = Tail(@)]
      /\ state' = [state EXCEPT !["post"] = "idle"]
      /\ IF request = "PASV_ACTIVE" THEN AfterActive(msg.val)
         ELSE UNCHANGED <<todo, port_sockaddr>>
      /\ seen' = listening /\ request' = "none" /\ expecting' = <<>>
      /\ UNCHANGED <<to_parent, ppc, serving, reading, sending, job, listening, chld_handler,
            asking, login_fails>>
  BY DEF ChildReadsLast, Answered
<1>2. ~(Head(expecting) = "result" /\ Then(request, msg.val) # <<>>)
  BY <1>0, <1>1, ReadFacts
<1>3. /\ serving = "post" /\ request \in Known /\ request # "LOGIN"
      /\ asking = <<>> /\ Unread = 0 /\ Outstanding = 1
      /\ sending = <<>> /\ Len(sending) = 0
      /\ Tail(to_child["post"]) \in Seq(Messages) /\ Len(Tail(to_child["post"])) = 0
      /\ Going => (ppc = "wait" /\ chld_handler = "null") \/ AwaitsCommand
      /\ msg.val \in AnswersTo(request, seen, chld_handler = "null")
  BY <1>0, <1>1, <1>2, LastRead
<1>4. /\ listening = After(request, seen) /\ chld_handler # "null"
      /\ Going => AwaitsCommand
  BY <1>1, <1>3 DEF Knows, Turns
<1>5. /\ to_child'["post"] = Tail(to_child["post"])
      /\ state'["post"] = "idle" /\ state'["pre"] = state["pre"]
      /\ Unread' = 0 /\ Outstanding' = 0
      /\ (Going' <=> Going) /\ (AwaitsCommand' <=> AwaitsCommand)
  BY <1>0, <1>1, <1>3 DEF Unread, Outstanding, Going, AwaitsCommand, SequencesOK, TypeOK
<1>6. /\ todo' \in Seq(Known)
      /\ request = "PASV_ACTIVE" =>
           \A i \in 1..Len(todo') :
             /\ todo'[i] \in Service!Requests \ {"PASV_LISTEN"}
             /\ todo'[i] \in {"PASV_ACCEPT", "GET_DATA_SOCK"} =>
                  /\ todo'[i] = "PASV_ACCEPT" <=> listening
                  /\ \A j \in 1..(i-1) : todo'[j] = "CHOWN"
  <2>1. CASE request # "PASV_ACTIVE"
    BY <1>1, <2>1 DEF SequencesOK
  <2>2. CASE request = "PASV_ACTIVE" /\ todo' = <<>>
    BY <2>2
  <2>3. CASE request = "PASV_ACTIVE" /\ todo' # <<>>
    <3>1. msg.val = "1" <=> listening
      BY <1>3, <1>4, <2>3 DEF AnswersTo, Service!Answers, After, TypeOK
    <3>2. PICK ch \in {<<>>, <<"CHOWN">>} :
            todo' = ch \o <<IF msg.val = "1" THEN "PASV_ACCEPT" ELSE "GET_DATA_SOCK",
                            "PASV_CLEANUP">>
      BY <1>1, <2>3 DEF AfterActive
    <3> DEFINE x == IF msg.val = "1" THEN "PASV_ACCEPT" ELSE "GET_DATA_SOCK"
               tail == <<x, "PASV_CLEANUP">>
    <3>3. /\ x \in {"PASV_ACCEPT", "GET_DATA_SOCK"} /\ (x = "PASV_ACCEPT" <=> listening)
          /\ todo' = ch \o tail
      BY <3>1, <3>2
    <3> HIDE DEF x
    <3>4. {"PASV_ACCEPT", "GET_DATA_SOCK", "PASV_CLEANUP", "CHOWN"} \subseteq Known \cap Service!Requests
      BY DEF Known, Service!Requests
    <3>5. /\ tail \in Seq(Known) /\ Len(tail) = 2 /\ tail[1] = x /\ tail[2] = "PASV_CLEANUP"
      BY <3>3, <3>4
    <3>6. /\ ch \in Seq(Known) /\ Len(ch) \in 0..1
          /\ \A i \in 1..Len(ch) : ch[i] = "CHOWN"
      <4>1. CASE ch = <<>> BY <4>1
      <4>2. CASE ch = <<"CHOWN">>
        <5>1. "CHOWN" \in Known BY <3>4
        <5> QED BY <4>2, <5>1
      <4> QED BY <4>1, <4>2
    <3> HIDE DEF tail
    <3>7. /\ todo' \in Seq(Known) /\ Len(todo') = Len(ch) + 2
          /\ \A i \in 1..Len(ch) : todo'[i] = "CHOWN"
          /\ todo'[Len(ch) + 1] = x /\ todo'[Len(ch) + 2] = "PASV_CLEANUP"
      <4>1. todo' \in Seq(Known) /\ Len(todo') = Len(ch) + 2
        BY <3>3, <3>5, <3>6, ConcatProperties
      <4>2. \A i \in 1..(Len(ch) + Len(tail)) :
              todo'[i] = IF i <= Len(ch) THEN ch[i] ELSE tail[i - Len(ch)]
        BY <3>3, <3>5, <3>6, ConcatProperties
      <4>3. todo'[Len(ch) + 1] = tail[1] /\ todo'[Len(ch) + 2] = tail[2]
        BY <4>2, <3>5, <3>6
      <4>4. \A i \in 1..Len(ch) : todo'[i] = ch[i]
        BY <4>2, <3>5, <3>6
      <4> QED BY <4>1, <4>3, <4>4, <3>5, <3>6
    <3>8. \A i \in 1..Len(todo') : i \in 1..Len(ch) \/ i = Len(ch) + 1 \/ i = Len(ch) + 2
      BY <3>6, <3>7
    <3> QED BY <3>3, <3>4, <3>6, <3>7, <3>8
  <2> QED BY <2>1, <2>2, <2>3
<1>7. SequencesOK'
  BY <1>0, <1>1, <1>3, <1>6 DEF SequencesOK
<1>8. Turns' BY <1>0, <1>1, <1>3, <1>5 DEF Turns, Alive
<1>9. ParentPhase'
  BY <1>1, <1>3, <1>4, <1>5 DEF ParentPhase, Going, AwaitsCommand
<1>10. Streams'
  <2>1. Len(Whole("none")) \in Nat BY WholeFacts
  <2>2. Len(asking) = 0 /\ Len(to_parent[serving]) = 0
    BY <1>0, <1>3 DEF Unread, SequencesOK
  <2> QED BY <1>1, <1>5, <2>1, <2>2 DEF Streams
<1>11. ChildPhase' BY <1>1, <1>3, <1>4, <1>5 DEF ChildPhase
<1>12. Knows' BY <1>1, <1>5 DEF Knows
<1>13. Planned'
  <2>1. CASE request = "PASV_ACTIVE"
    BY <1>1, <1>6, <2>1 DEF Planned
  <2>2. CASE request # "PASV_ACTIVE"
    <3>1. request # "none" BY <1>3 DEF Known, Service!Requests
    <3>2. todo' = todo BY <1>1, <2>2
    <3>3. request = "PASV_CLEANUP" => ~listening BY <1>4 DEF After
    <3> QED BY <1>1, <3>1, <3>2, <3>3 DEF Planned, Alive
  <2> QED BY <2>1, <2>2
<1> QED BY <1>7, <1>8, <1>9, <1>10, <1>11, <1>12, <1>13 DEF Conversation

(* A login is answered.                                                    *)
LEMMA LoginAnsweredStep ==
  ASSUME IInv, TypeOK', LoginAnswered
  PROVE  Conversation'
<1> USE DEF IInv, Conversation, ends, signals, parent
<1> DEFINE msg == Head(to_child["pre"])
<1>0. "pre" \in Children /\ "post" \in Children /\ serving \in Children
  BY DEF Children, TypeOK
<1>1. /\ state["pre"] = "await" /\ to_child["pre"] # <<>>
      /\ to_child' = [to_child EXCEPT !["pre"] = Tail(@)]
      /\ \/ state' = [state EXCEPT !["pre"] = "dead"]
         \/ /\ state' = [state EXCEPT !["pre"] = "idle"] /\ msg.val # "OK"
            /\ login_fails' < max_login_fails
      /\ request' = "none" /\ expecting' = <<>>
      /\ UNCHANGED <<to_parent, ppc, serving, reading, sending, job, listening, chld_handler,
            asking, todo, seen>>
  BY max_login_failsAssumption DEF LoginAnswered, ChildEnds, TypeOK
<1>2. serving = "pre" /\ request = "LOGIN"
  BY <1>0, <1>1, ReadFacts DEF Allowed
<1>3. /\ asking = <<>> /\ Unread = 0 /\ Outstanding = 1
      /\ sending = <<>> /\ Len(sending) = 0
      /\ Tail(to_child["pre"]) \in Seq(Messages) /\ Len(Tail(to_child["pre"])) = 0
      /\ Going => (ppc = "wait" /\ chld_handler = "null") \/ AwaitsCommand
      /\ msg.val \in AnswersTo(request, seen, chld_handler = "null")
  <2>1. Then(request, msg.val) = <<>> BY <1>2 DEF Then
  <2> QED BY <1>0, <1>1, <2>1, LastRead
<1>4. chld_handler = "null" => msg.val = "OK"
  BY <1>2, <1>3 DEF AnswersTo
<1>5. /\ to_child'["pre"] = Tail(to_child["pre"]) /\ to_child'["post"] = to_child["post"]
      /\ state'["pre"] \in {"dead", "idle"} /\ state'["post"] = state["post"]
      /\ state'["pre"] = "idle" => chld_handler # "null" /\ login_fails' < max_login_fails
      /\ Unread' = 0 /\ Outstanding' = 0
      /\ (Going' <=> Going) /\ (AwaitsCommand' <=> AwaitsCommand)
  BY <1>0, <1>1, <1>2, <1>3, <1>4 DEF Unread, Outstanding, Going, AwaitsCommand,
     SequencesOK, TypeOK
<1>7. SequencesOK'
  BY <1>0, <1>1, <1>3 DEF SequencesOK
<1>8. Turns' BY <1>0, <1>1, <1>2, <1>5 DEF Turns, Alive
<1>9. ParentPhase'
  BY <1>1, <1>3, <1>5 DEF ParentPhase, Going, AwaitsCommand
<1>10. Streams'
  <2>1. Len(Whole("none")) \in Nat BY WholeFacts
  <2>2. Len(asking) = 0 /\ Len(to_parent[serving]) = 0
    BY <1>0, <1>3 DEF Unread, SequencesOK
  <2> QED BY <1>1, <1>5, <2>1, <2>2 DEF Streams
<1>11. ChildPhase' BY <1>1, <1>2, <1>3, <1>5 DEF ChildPhase
<1>12. Knows' BY <1>2, <1>5 DEF Knows, Turns
<1>13. Planned' BY <1>2, <1>5 DEF Planned, Alive, Turns
<1> QED BY <1>7, <1>8, <1>9, <1>10, <1>11, <1>12, <1>13 DEF Conversation

(* The invariant holds at first.                                           *)
LEMMA InitInvariant == Init => IInv
<1> SUFFICES ASSUME Init PROVE IInv
  OBVIOUS
<1>0. "pre" \in Children /\ "post" \in Children
  BY DEF Children
<1>1. TypeOK /\ SequencesOK BY InitTyped
<1>2. /\ serving = "pre" /\ ppc = "context" /\ sending = <<>> /\ asking = <<>>
      /\ request = "none" /\ ~listening /\ ~seen /\ chld_handler = "exit" /\ todo = <<>>
      /\ \A c \in Children : to_parent[c] = <<>> /\ to_child[c] = <<>>
      /\ state["pre"] = "forked" /\ state["post"] = "unborn" /\ login_fails = 0
  BY <1>0 DEF Init, Nothing
<1>3. Unread = 0 /\ Outstanding = 0 /\ AwaitsCommand
  BY <1>0, <1>2 DEF Unread, Outstanding, AwaitsCommand
<1>4. Turns BY <1>0, <1>2, max_login_failsAssumption DEF Turns, Alive
<1>5. ParentPhase BY <1>2, <1>3 DEF ParentPhase
<1>6. Streams
  <2>1. Len(Whole("none")) \in Nat BY WholeFacts
  <2>2. Len(asking) = 0 /\ Len(to_parent["pre"]) = 0 BY <1>0, <1>2
  <2> QED BY <1>2, <1>3, <2>1, <2>2 DEF Streams
<1>7. ChildPhase BY <1>2, <1>3 DEF ChildPhase
<1>8. Knows BY <1>2 DEF Knows
<1>9. Planned BY <1>2 DEF Planned
<1> QED BY <1>1, <1>4, <1>5, <1>6, <1>7, <1>8, <1>9 DEF IInv, Conversation

(* Every step keeps the invariant.                                         *)
LEMMA NextInvariant ==
  ASSUME IInv, [Next]_vars
  PROVE  IInv'
<1>1. CASE UNCHANGED vars
  <2>1. UNCHANGED <<to_parent, to_child, serving, sending, job, listening, asking,
          expecting, todo, port_sockaddr, login_fails, commands, request, got, seen,
          chld_handler, ppc, reading, state>>
    BY <1>1 DEF vars, pair, ends, parent, signals, session
  <2>2. Ends BY <2>1 DEF Ends, pair, session
  <2>3. TypeOK' BY <1>1 DEF IInv, Conversation, TypeOK, vars, pair, ends, parent, signals, session
  <2> QED BY <2>2, <2>3, EndsStep DEF IInv, Conversation
<1>2. CASE Next
  <2> USE <1>2
  <2>1. TypeOK' BY TypeStep DEF IInv, Conversation
  <2>2. SUFFICES Conversation' BY <2>1 DEF IInv, Conversation
  <2>3. Ends => Conversation' BY <2>1, EndsStep
  <2>4. \A ans : Replies(ans) => Conversation' BY <2>1, RepliesStep
  <2>5. ASSUME ParentStep PROVE Conversation'
    <3>1. CASE handle_sigterm \/ handle_sigchld \/ (\E c \in Children : Reap(c)) \/ ParentReadsEnd
      BY <3>1, <2>3, EndingSteps
    <3>2. CASE ParentContext BY <3>2, <2>1, ParentContextStep
    <3>3. CASE ParentReads BY <3>3, <2>1, ParentReadsStep
    <3>4. CASE ParentWrites BY <3>4, <2>1, <2>3, ParentWritesStep
    <3>5. CASE WaitForPre BY <3>5, <2>1, <2>3, WaitForPreStep
    <3>6. CASE LoginFails \/ LoginSucceeds BY <3>6, <2>4, AnswersReply
    <3>7. CASE \/ cmd_process_pasv_cleanup \/ cmd_process_pasv_active
               \/ cmd_process_pasv_listen \/ cmd_process_pasv_accept
               \/ cmd_process_get_data_sock \/ cmd_process_chown
      BY <3>7, <2>3, <2>4, AnswersReply
    <3> QED BY <2>5, <3>1, <3>2, <3>3, <3>4, <3>5, <3>6, <3>7 DEF ParentStep
  <2>6. ASSUME NEW c \in Children, ChildStep(c) PROVE Conversation'
    <3>1. CASE ControlShut(c) \/ ChildReadsEnd(c)
      BY <3>1, <2>3, EndingSteps
    <3>2. CASE ChildContext(c) BY <3>2, <2>1, ChildContextStep
    <3>3. CASE ChildWrites(c)
      <4>1. parent_fd[c] = {} => Ends
        BY <3>3 DEF ChildWrites, ChildEnds, Ends, IInv, Conversation, TypeOK,
           SequencesOK, Alive, pair, ends, session, parent
      <4> QED BY <3>3, <4>1, <2>1, <2>3, ChildWritesStep
    <3>4. CASE ChildReadsFirst(c) BY <3>4, <2>1, ChildReadsFirstStep
    <3>5. CASE LoginAnswered BY <3>5, <2>1, LoginAnsweredStep
    <3>6. CASE NextRequest BY <3>6, <2>1, NextRequestStep
    <3>7. CASE ChildReadsLast BY <3>7, <2>1, ChildReadsLastStep
    <3> QED BY <2>6, <3>1, <3>2, <3>3, <3>4, <3>5, <3>6, <3>7 DEF ChildStep
  <2>7. ASSUME ClientStep PROVE Conversation'
    <3>1. CASE Login BY <3>1, <2>1, LoginStep
    <3>2. CASE Pasv \/ Port \/ Transfer
      BY <3>2, <2>1, CommandStep DEF Pasv, Port, Transfer
    <3>3. CASE \E c \in Children : ClientLeaves(c) BY <3>3, <2>3, EndingSteps
    <3> QED BY <2>7, <3>1, <3>2, <3>3 DEF ClientStep
  <2>8. ASSUME Fault \/ Ended PROVE Conversation'
    BY <2>8, <2>3, EndingSteps DEF Fault
  <2> QED BY <2>5, <2>6, <2>7, <2>8 DEF Next
<1> QED BY <1>1, <1>2

(* The variables of the two processes keep their types and bounds (the     *)
(* failed logins stay within tunable_max_login_fails, ftpcmdio.c and       *)
(* prelogin.c), for every number of logins and commands.                   *)
THEOREM AlwaysTyped == Spec => []TypeOK
<1>1. Init => IInv BY InitInvariant
<1>2. IInv /\ [Next]_vars => IInv' BY NextInvariant
<1>3. IInv => TypeOK BY DEF IInv, Conversation
<1> QED BY <1>1, <1>2, <1>3, PTL DEF Spec

(* The parent never finds in a request a reason to die()                   *)
(* (twoprocess.c:302, postprivparent.c:78, privops.c:46, 130 and 198),     *)
(* whatever commands the client gives and whatever ends when.              *)
THEOREM NeverRefuses == Spec => []NeverRefused
<1>1. Init => IInv BY InitInvariant
<1>2. IInv /\ [Next]_vars => IInv' BY NextInvariant
<1>3. IInv => NeverRefused BY DEF IInv, Conversation, ParentPhase, NeverRefused
<1> QED BY <1>1, <1>2, <1>3, PTL DEF Spec

(* Only the read of a last message gives the session an answer, and a      *)
(* session that has ended stays so.                                        *)
LEMMA OthersAnswerNothing ==
  ASSUME IInv, Next, ~ChildReadsLast
  PROVE  /\ UNCHANGED <<got, seen>>
         /\ post_ended => post_ended'
<1> USE DEF IInv, Conversation, post_ended, pair, ends, parent, signals, session, vars
<1>0. "pre" \in Children /\ "post" \in Children /\ "post" # "pre"
  BY DEF Children
<1>1. CASE Ends
  BY <1>0, <1>1 DEF Ends, Alive
<1>2. ASSUME NEW ans, Replies(ans) PROVE UNCHANGED <<got, seen, state>>
  BY <1>2 DEF Replies
<1>3. CASE ParentStep
  <2>1. CASE handle_sigterm \/ handle_sigchld \/ (\E c \in Children : Reap(c)) \/ ParentReadsEnd
    BY <2>1, <1>1, EndingSteps
  <2>2. CASE ParentContext \/ ParentReads BY <2>2 DEF ParentContext, ParentReads
  <2>3. CASE ParentWrites BY <2>3 DEF ParentWrites
  <2>4. CASE WaitForPre
    <3>1. UNCHANGED <<got, seen>> BY <2>4 DEF WaitForPre
    <3>2. serving = "pre" BY <2>4 DEF WaitForPre, ParentPhase, Turns
    <3>3. ~post_ended BY <3>2 DEF Turns
    <3> QED BY <3>1, <3>3
  <2>5. CASE LoginFails \/ LoginSucceeds BY <2>5, <1>2, AnswersReply
  <2>6. CASE \/ cmd_process_pasv_cleanup \/ cmd_process_pasv_active
             \/ cmd_process_pasv_listen \/ cmd_process_pasv_accept
             \/ cmd_process_get_data_sock \/ cmd_process_chown
    BY <2>6, <1>1, <1>2, AnswersReply
  <2> QED BY <1>3, <2>1, <2>2, <2>3, <2>4, <2>5, <2>6 DEF ParentStep
<1>4. ASSUME NEW c \in Children, ChildStep(c)
      PROVE  UNCHANGED <<got, seen>> /\ (post_ended => post_ended')
  <2>1. CASE ControlShut(c) \/ ChildReadsEnd(c)
    BY <2>1, <1>1, EndingSteps
  <2>2. CASE ChildContext(c)
    BY <2>2, <1>0 DEF ChildContext, TypeOK
  <2>3. CASE ChildWrites(c)
    BY <2>3, <1>0 DEF ChildWrites, ChildEnds, TypeOK
  <2>4. CASE ChildReadsFirst(c) BY <2>4 DEF ChildReadsFirst
  <2>5. CASE LoginAnswered BY <2>5, <1>0 DEF LoginAnswered, ChildEnds, TypeOK
  <2>6. CASE NextRequest BY <2>6, <1>0 DEF NextRequest, Ask, TypeOK
  <2> QED BY <1>4, <2>1, <2>2, <2>3, <2>4, <2>5, <2>6 DEF ChildStep
<1>5. CASE ClientStep
  <2>1. CASE Login BY <2>1, <1>0 DEF Login, Ask, TypeOK
  <2>2. CASE Pasv \/ Port \/ Transfer
    BY <2>2 DEF Pasv, Port, Transfer, Command
  <2>3. CASE \E c \in Children : ClientLeaves(c) BY <2>3, <1>1, EndingSteps
  <2> QED BY <1>5, <2>1, <2>2, <2>3 DEF ClientStep
<1>6. CASE Fault \/ Ended BY <1>6, <1>1, EndingSteps DEF Fault
<1> QED BY <1>3, <1>4, <1>5, <1>6 DEF Next

(* The read of a last message is a request of the abstract service,        *)
(* served in one step.                                                     *)
LEMMA LastAnswerIsRequest ==
  ASSUME IInv, ChildReadsLast
  PROVE  Service!Request(request)
<1> USE DEF IInv, Conversation
<1> DEFINE msg == Head(to_child["post"])
<1>0. "post" \in Children /\ "pre" # "post" BY DEF Children
<1>1. /\ state["post"] = "await" /\ to_child["post"] # <<>>
      /\ ~(msg.kind = Head(expecting) /\ msg.kind = "result" /\ Then(request, msg.val) # <<>>)
      /\ state' = [state EXCEPT !["post"] = "idle"]
      /\ got' = <<request, IF msg.kind = Head(expecting) THEN msg.val ELSE "confused">>
      /\ seen' = listening
  BY DEF ChildReadsLast, Answered
<1>2. ~(Head(expecting) = "result" /\ Then(request, msg.val) # <<>>)
  BY <1>0, <1>1, ReadFacts
<1>3. /\ serving = "post" /\ request \in Known /\ request # "LOGIN" /\ Outstanding = 1
      /\ msg.kind = Head(expecting)
      /\ msg.val \in AnswersTo(request, seen, chld_handler = "null")
  BY <1>0, <1>1, <1>2, LastRead
<1>4. /\ got' = <<request, msg.val>> /\ msg.val \in Service!Answers(request, seen)
  BY <1>1, <1>3 DEF AnswersTo
<1>5. listening = After(request, seen) BY <1>1, <1>3 DEF Knows
<1>6. ~post_ended /\ ~post_ended'
  BY <1>0, <1>1 DEF post_ended, TypeOK
<1>7. (seen /\ ~post_ended) = seen /\ (seen /\ ~post_ended)' = listening
  BY <1>1, <1>6 DEF TypeOK
<1>8. \E ans \in Service!Answers(request, seen /\ ~post_ended) : got' = <<request, ans>>
  BY <1>4, <1>7
<1>9. post_ended' = post_ended
  BY <1>6 DEF post_ended
<1> QED BY <1>5, <1>6, <1>7, <1>8, <1>9 DEF Service!Request, After

(* The session and its helper implement PrivService: each request is       *)
(* carried out once and answered with its own answer, though both are      *)
(* messages on unframed streams (privsock.c) and either process may end    *)
(* between any two of them.                                                *)
THEOREM ServesItsRequests == Spec => ServesRequests
<1>1. Init => Service!Init
  BY DEF Init, Service!Init, post_ended, Children
<1>2. ASSUME IInv, [Next]_vars
      PROVE  [Service!Next]_(Service!vars)
  <2>1. CASE UNCHANGED vars
    BY <2>1 DEF vars, Service!vars, session, post_ended
  <2>2. CASE Next /\ ChildReadsLast
    <3>1. request \in Service!Requests
      <4>0. "post" \in Children BY DEF Children
      <4>1. request \in Known /\ Allowed(request) /\ serving = "post"
        BY <4>0, <2>2, <1>2, ReadFacts DEF ChildReadsLast
      <4> QED BY <4>1 DEF Allowed, Known, Service!Requests
    <3> QED BY <3>1, <2>2, <1>2, LastAnswerIsRequest DEF Service!Next
  <2>3. CASE Next /\ ~ChildReadsLast
    <3>1. UNCHANGED <<got, seen>> /\ (post_ended => post_ended')
      BY <2>3, <1>2, OthersAnswerNothing
    <3>2. CASE post_ended' = post_ended
      BY <3>1, <3>2 DEF Service!vars
    <3>3. CASE post_ended' # post_ended
      <4>1. post_ended' = TRUE BY <3>1, <3>3 DEF post_ended
      <4>2. Service!End BY <3>1, <4>1 DEF Service!End
      <4> QED BY <4>2 DEF Service!Next
    <3> QED BY <3>2, <3>3
  <2> QED BY <1>2, <2>1, <2>2, <2>3
<1>3. Init => IInv BY InitInvariant
<1>4. IInv /\ [Next]_vars => IInv' BY NextInvariant
<1> QED BY <1>1, <1>2, <1>3, <1>4, PTL DEF Spec, ServesRequests, Service!Spec
=============================================================================

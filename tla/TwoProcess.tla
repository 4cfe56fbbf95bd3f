----------------------------- MODULE TwoProcess -----------------------------
(***************************************************************************)
(* The two processes of a vsftpd session (twoprocess.c, postprivparent.c,  *)
(* privops.c and privsock.c of vsftpd 3.0.3; no SSL): a privileged parent  *)
(* and an unprivileged child that talks to the client.  Until the login    *)
(* the child is `pre', which may only ask for a login; afterwards it is    *)
(* `post', which asks for sockets.  Parent and child talk over a pair of   *)
(* stream sockets, message by message and without any framing: each side   *)
(* reads the kind of message it expects.  A pair reports its end only when *)
(* no process holds the other end any more.                                *)
(***************************************************************************)
EXTENDS Naturals, Sequences

CONSTANTS
  max_login_fails,   \* tunable_max_login_fails
  MaxCommands        \* bound: commands of the logged-in session

ASSUME max_login_failsAssumption == max_login_fails \in Nat \ {0}
ASSUME MaxCommandsAssumption == MaxCommands \in Nat

Children  == {"pre", "post"}
Processes == Children \cup {"parent"}

VARIABLES
  \* the socket pair made for each child
  to_parent, to_child,      \* messages under way
  parent_fd, child_fd,      \* the processes that hold each end
  \* the parent
  ppc,                      \* where it is
  serving,                  \* the child whose pair it reads
  reading, sending,         \* kinds it is to read, messages it is to write
  job,                      \* the request it has read
  listening,                \* pasv_listen_fd # -1
  chld_handler, chld, term, \* SIGCHLD and SIGTERM
  \* the children
  state,
  asking,                   \* messages the child has still to write
  expecting,                \* what it still has to read of the answer
  todo, port_sockaddr, login_fails, commands,
  request, got,             \* the request, and the last one answered
  control_shut,             \* the control connection has been shut down
  seen                      \* history: listening, at the last answer

pair    == <<to_parent, to_child>>
ends    == <<parent_fd, child_fd>>
parent  == <<serving, reading, sending, job, listening>>
signals == <<chld_handler, chld, term>>
session == <<asking, expecting, todo, port_sockaddr, login_fails, commands,
             request, got>>
vars    == <<pair, ends, ppc, parent, signals, state, session, control_shut, seen>>

Nothing == [c \in Children |-> <<>>]

(* vsf_two_process_start, after its fork(): both processes hold both ends. *)
Init ==
  /\ to_parent = Nothing /\ to_child = Nothing
  /\ parent_fd = [c \in Children |-> IF c = "pre" THEN {"parent", "pre"} ELSE {}]
  /\ child_fd  = [c \in Children |-> IF c = "pre" THEN {"parent", "pre"} ELSE {}]
  /\ ppc = "context" /\ serving = "pre" /\ reading = <<>> /\ sending = <<>>
  /\ job = "none" /\ listening = FALSE
  /\ chld_handler = "exit" /\ chld = FALSE /\ term = FALSE
  /\ state = [c \in Children |-> IF c = "pre" THEN "forked" ELSE "unborn"]
  /\ asking = <<>> /\ expecting = <<>> /\ todo = <<>>
  /\ port_sockaddr = FALSE /\ login_fails = 0 /\ commands = 0
  /\ request = "none" /\ got = <<"none", "none">>
  /\ control_shut = FALSE /\ seen = FALSE

Alive(c) == state[c] \in {"forked", "idle", "ask", "await"}

-----------------------------------------------------------------------------
(* The end of a process: its descriptors are closed.                       *)
Closed(p, fds) == [c \in Children |-> fds[c] \ {p}]

ParentEnds ==
  /\ ppc' = "dead"
  /\ parent_fd' = Closed("parent", parent_fd)
  /\ child_fd' = Closed("parent", child_fd)

ChildEnds(c) ==
  /\ state' = [state EXCEPT ![c] = "dead"]
  /\ parent_fd' = Closed(c, parent_fd) /\ child_fd' = Closed(c, child_fd)
  /\ chld' = (chld \/ (chld_handler = "exit" /\ ppc # "dead"))

(* Faults: a child crashes or is killed; the listener ends, which sends    *)
(* the parent a SIGTERM.                                                   *)
Crash(c) ==
  /\ Alive(c)
  /\ ChildEnds(c)
  /\ UNCHANGED <<pair, ppc, parent, chld_handler, term, session, control_shut, seen>>

Sigterm ==
  /\ ppc # "dead" /\ ~term
  /\ term' = TRUE
  /\ UNCHANGED <<pair, ends, ppc, parent, chld_handler, chld, state, session,
       control_shut, seen>>

(* PR_SET_PDEATHSIG, which a child sets as its first step, may kill it;    *)
(* nothing relies on it, because the kernel forgets the setting when the   *)
(* credentials change.                                                     *)
DeathSignal(c) ==
  /\ ppc = "dead" /\ Alive(c) /\ state[c] # "forked"
  /\ ChildEnds(c)
  /\ UNCHANGED <<pair, ppc, parent, chld_handler, term, session, control_shut, seen>>

(* handle_sigterm and handle_sigchld run after any read or write of the    *)
(* parent, or in the middle of one: an alarm is repeated until they run.   *)
AtCheck == ppc \in {"read", "write", "wait"}

(* Mutant of handle_sigterm: the control connection stays open.            *)
handle_sigterm_NoShutdown ==
  /\ AtCheck /\ term
  /\ ParentEnds
  /\ UNCHANGED <<pair, parent, signals, state, session, control_shut, seen>>

handle_sigterm ==
  /\ AtCheck /\ term
  /\ control_shut' = TRUE
  /\ ParentEnds
  /\ UNCHANGED <<pair, parent, signals, state, session, seen>>

(* The wait() of handle_sigchld may block.                                 *)
handle_sigchld ==
  /\ AtCheck /\ chld /\ chld_handler = "exit"
  /\ ppc' = "reap" /\ chld' = FALSE
  /\ UNCHANGED <<pair, ends, parent, chld_handler, term, state, session,
       control_shut, seen>>

Reap(c) ==
  /\ ppc = "reap" /\ state[c] = "dead"
  /\ state' = [state EXCEPT ![c] = "reaped"]
  /\ ParentEnds
  /\ UNCHANGED <<pair, parent, signals, session,
       control_shut, seen>>

-----------------------------------------------------------------------------
(* Messages, each a record of a kind and a value.                          *)
Msg(k, v) == [kind |-> k, val |-> v]

(* What the child writes to ask for something, and what is read of it      *)
(* after the command itself.                                               *)
Rest(req) ==
  CASE req = "LOGIN" -> << Msg("str", "user"), Msg("str", "pass"),
                           Msg("int", "ssl"), Msg("int", "ssl") >>
    [] req = "GET_DATA_SOCK" -> << Msg("int", "port") >>
    [] req = "CHOWN" -> << Msg("fd", "file") >>
    [] OTHER -> <<>>

KindsOf(msgs) == [i \in DOMAIN msgs |-> msgs[i].kind]

(* Mutant of Written: the value of an answer is written before the result. *)
Written_ValueFirst(req, ans) ==
  CASE req \in {"PASV_ACTIVE", "PASV_LISTEN"} -> << Msg("int", ans) >>
    [] ans = "fd" -> << Msg("result", "OK"), Msg("fd", ans) >>
    [] ans \in {"-1", "-2"} -> << Msg("int", ans), Msg("result", "BAD") >>
    [] OTHER -> << Msg("result", ans) >>

(* What the parent writes to give an answer.                               *)
Written(req, ans) ==
  CASE req \in {"PASV_ACTIVE", "PASV_LISTEN"} -> << Msg("int", ans) >>
    [] ans = "fd" -> << Msg("result", "OK"), Msg("fd", ans) >>
    [] ans \in {"-1", "-2"} -> << Msg("result", "BAD"), Msg("int", ans) >>
    [] OTHER -> << Msg("result", ans) >>

(* What the child reads first, and what it reads after a first result.     *)
First(req) == IF req \in {"PASV_ACTIVE", "PASV_LISTEN"} THEN "int" ELSE "result"

Then(req, v) ==
  CASE req \in {"GET_DATA_SOCK", "PASV_ACCEPT"} /\ v = "OK" -> << "fd" >>
    [] req = "PASV_ACCEPT" /\ v = "BAD" -> << "int" >>
    [] OTHER -> <<>>

-----------------------------------------------------------------------------
(* The parent.  priv_sock_set_parent_context: it gives up the child's end. *)
ParentContext ==
  /\ ppc = "context"
  /\ child_fd' = [child_fd EXCEPT ![serving] = @ \ {"parent"}]
  /\ ppc' = "read" /\ reading' = <<"cmd">>
  /\ UNCHANGED <<pair, parent_fd, serving, sending, job, listening, signals,
       state, session, control_shut, seen>>

(* What makes it die(): a request its child may not make, or that cannot   *)
(* be met while the passive socket is as it is.                            *)
Allowed(req) == IF serving = "pre" THEN req = "LOGIN" ELSE req # "LOGIN"

Possible(req) ==
  /\ req \in {"PASV_LISTEN", "GET_DATA_SOCK"} => ~listening
  /\ req = "PASV_ACCEPT" => listening

(* A message is read; `refused' stands for the die().                      *)
ParentReads ==
  LET msgs == to_parent[serving] IN
  /\ ppc = "read" /\ msgs # <<>>
  /\ to_parent' = [to_parent EXCEPT ![serving] = Tail(msgs)]
  /\ IF \/ Head(msgs).kind # Head(reading)
        \/ Head(msgs).kind = "cmd" /\ ~Allowed(Head(msgs).val)
     THEN ppc' = "refused" /\ UNCHANGED <<reading, job>>
     ELSE LET req == IF Head(reading) = "cmd" THEN Head(msgs).val ELSE job
              more == IF Head(reading) = "cmd"
                      THEN KindsOf(Rest(req))
                      ELSE Tail(reading)
          IN /\ job' = req /\ reading' = more
             /\ ppc' = IF more # <<>> THEN "read"
                       ELSE IF Possible(req) THEN "perform" ELSE "refused"
  /\ UNCHANGED <<to_child, ends, serving, sending, listening, signals, state,
       session, control_shut, seen>>

(* read() returns 0.                                                       *)
ParentReadsEnd ==
  /\ ppc = "read" /\ to_parent[serving] = <<>> /\ child_fd[serving] = {}
  /\ ParentEnds
  /\ UNCHANGED <<pair, parent, signals, state, session,
       control_shut, seen>>

(* process_login_req: a login that fails, and one that does not.           *)
LoginFails ==
  /\ ppc = "perform" /\ job = "LOGIN"
  /\ sending' = << Msg("result", "BAD") >> /\ ppc' = "write"
  /\ UNCHANGED <<pair, ends, serving, reading, job, listening, signals, state,
       session, control_shut, seen>>

(* common_do_login.  From here on nobody minds that the child ends.        *)
LoginSucceeds ==
  /\ ppc = "perform" /\ job = "LOGIN"
  /\ sending' = << Msg("result", "OK") >> /\ ppc' = "write"
  /\ chld_handler' = "null"
  /\ UNCHANGED <<pair, ends, serving, reading, job, listening, chld, term, state,
       session, control_shut, seen>>

(* Each message of an answer is written by itself; nobody to read it is    *)
(* the end of the parent.                                                  *)
ParentWrites ==
  /\ ppc = "write"
  /\ IF parent_fd[serving] = {} \/ child_fd[serving] = {}
     THEN ParentEnds /\ UNCHANGED <<to_child, sending>>
     ELSE /\ to_child' = [to_child EXCEPT ![serving] = Append(@, Head(sending))]
          /\ sending' = Tail(sending)
          /\ ppc' = CASE Len(sending) > 1 -> "write"
                      [] Len(sending) = 1 /\ chld_handler = "null" -> "wait"
                      [] OTHER -> "read"
          /\ UNCHANGED ends
  /\ reading' = <<"cmd">>
  /\ UNCHANGED <<to_parent, serving, job, listening, signals, state, session,
       control_shut, seen>>

(* The pre-login child is reaped, its pair closed and a new one made for   *)
(* the child that is forked then, which may fail.                          *)
WaitForPre ==
  /\ ppc = "wait" /\ state["pre"] = "dead"
  /\ \/ /\ state' = [state EXCEPT !["pre"] = "reaped", !["post"] = "forked"]
        /\ serving' = "post" /\ ppc' = "context" /\ chld_handler' = "exit"
        /\ parent_fd' = [c \in Children |-> IF c = "post" THEN {"parent", "post"} ELSE {}]
        /\ child_fd'  = [c \in Children |-> IF c = "post" THEN {"parent", "post"} ELSE {}]
     \/ /\ state' = [state EXCEPT !["pre"] = "reaped"]
        /\ ParentEnds /\ UNCHANGED <<serving, chld_handler>>
  /\ UNCHANGED <<pair, reading, sending, job, listening, chld, term, session,
       control_shut, seen>>

Reply(ans) ==
  /\ sending' = Written(job, ans) /\ ppc' = "write"
  /\ UNCHANGED <<pair, ends, serving, reading, job, signals, state, session,
       control_shut, seen>>

cmd_process_pasv_cleanup ==
  /\ ppc = "perform" /\ job = "PASV_CLEANUP"
  /\ listening' = FALSE
  /\ Reply("OK")

cmd_process_pasv_active ==
  /\ ppc = "perform" /\ job = "PASV_ACTIVE"
  /\ Reply(IF listening THEN "1" ELSE "0")
  /\ UNCHANGED listening

(* Nine ports are tried; if none can be had, the parent dies.              *)
cmd_process_pasv_listen ==
  /\ ppc = "perform" /\ job = "PASV_LISTEN"
  /\ \/ listening' = TRUE /\ Reply("port")
     \/ /\ ParentEnds
        /\ UNCHANGED <<pair, parent, signals, state, session, control_shut, seen>>

(* The client connects, or not in time, or a stranger does.                *)
cmd_process_pasv_accept ==
  /\ ppc = "perform" /\ job = "PASV_ACCEPT"
  /\ \E ans \in {"fd", "-1", "-2"} : Reply(ans)
  /\ UNCHANGED listening

(* bind() to port 20 may fail, and the parent dies; connect() may fail.    *)
cmd_process_get_data_sock ==
  /\ ppc = "perform" /\ job = "GET_DATA_SOCK"
  /\ \/ (\E ans \in {"fd", "BAD"} : Reply(ans)) /\ UNCHANGED listening
     \/ /\ ParentEnds
        /\ UNCHANGED <<pair, parent, signals, state, session, control_shut, seen>>

cmd_process_chown ==
  /\ ppc = "perform" /\ job = "CHOWN"
  /\ Reply("OK")
  /\ UNCHANGED listening

-----------------------------------------------------------------------------
(* The children.  priv_sock_set_child_context.                             *)
ChildContext(c) ==
  /\ state[c] = "forked"
  /\ parent_fd' = [parent_fd EXCEPT ![c] = @ \ {c}]
  /\ state' = [state EXCEPT ![c] = "idle"]
  /\ asking' = <<>> /\ expecting' = <<>> /\ todo' = <<>> /\ request' = "none"
  /\ UNCHANGED <<pair, child_fd, ppc, parent, signals, port_sockaddr,
       login_fails, commands, got, control_shut, seen>>

(* A client that quits, or is not heard of, or is cut off.                 *)
ClientLeaves(c) ==
  /\ state[c] = "idle" /\ todo = <<>>
  /\ ChildEnds(c)
  /\ UNCHANGED <<pair, ppc, parent, chld_handler, term, session, control_shut, seen>>

ControlShut(c) ==
  /\ state[c] = "idle" /\ todo = <<>> /\ control_shut
  /\ ChildEnds(c)
  /\ UNCHANGED <<pair, ppc, parent, chld_handler, term, session, control_shut, seen>>

Ask(c, req) ==
  /\ state' = [state EXCEPT ![c] = "ask"]
  /\ request' = req
  /\ asking' = <<Msg("cmd", req)>> \o Rest(req)
  /\ expecting' = <<First(req)>>

(* vsf_two_process_login.                                                  *)
Login ==
  /\ state["pre"] = "idle"
  /\ Ask("pre", "LOGIN")
  /\ UNCHANGED <<pair, ends, ppc, parent, signals, todo, port_sockaddr,
       login_fails, commands, got, control_shut, seen>>

(* The commands of the session that ask the parent for something:          *)
(* handle_pasv, handle_port, and the transfers, which first ask if there   *)
(* is a passive socket.                                                    *)
Command(todos, ports) ==
  /\ state["post"] = "idle" /\ todo = <<>> /\ commands < MaxCommands
  /\ todo' = todos /\ port_sockaddr' \in ports
  /\ commands' = commands + 1
  /\ UNCHANGED <<pair, ends, ppc, parent, signals, state, asking, expecting,
       login_fails, request, got, control_shut, seen>>

(* Mutant of Pasv: the old socket is not closed first.                     *)
Pasv_NoCleanup == Command(<<"PASV_LISTEN">>, {FALSE})

Pasv == Command(<<"PASV_CLEANUP", "PASV_LISTEN">>, {FALSE})

Port == Command(<<"PASV_CLEANUP">>, BOOLEAN)

Transfer == Command(<<"PASV_ACTIVE">>, {port_sockaddr})

NextRequest ==
  /\ state["post"] = "idle" /\ todo # <<>>
  /\ Ask("post", Head(todo)) /\ todo' = Tail(todo)
  /\ UNCHANGED <<pair, ends, ppc, parent, signals, port_sockaddr, login_fails,
       commands, got, control_shut, seen>>

ChildWrites(c) ==
  /\ state[c] = "ask"
  /\ IF parent_fd[c] = {}
     THEN ChildEnds(c) /\ UNCHANGED <<to_parent, asking>>
     ELSE /\ to_parent' = [to_parent EXCEPT ![c] = Append(@, Head(asking))]
          /\ asking' = Tail(asking)
          /\ state' = [state EXCEPT ![c] = IF Len(asking) = 1 THEN "await" ELSE "ask"]
          /\ UNCHANGED <<ends, chld>>
  /\ UNCHANGED <<to_child, ppc, parent, chld_handler, term, expecting, todo,
       port_sockaddr, login_fails, commands, request, got, control_shut, seen>>

(* The rest of an answer is to be read.                                    *)
ChildReadsFirst(c) ==
  LET msg == Head(to_child[c]) IN
  /\ state[c] = "await" /\ to_child[c] # <<>>
  /\ msg.kind = Head(expecting) /\ Then(request, msg.val) # <<>>
  /\ Head(expecting) = "result"
  /\ to_child' = [to_child EXCEPT ![c] = Tail(@)]
  /\ expecting' = Then(request, msg.val)
  /\ UNCHANGED <<to_parent, ends, ppc, parent, signals, state, asking, todo,
       port_sockaddr, login_fails, commands, request, got, control_shut, seen>>

(* What a transfer asks for when it knows of the passive socket: nothing   *)
(* if there is no socket and no port (425), or no file (550), else a chown *)
(* of the file it has created, the connection, and the end of the socket.  *)
AfterActive(on) ==
  \/ todo' = <<>> /\ UNCHANGED port_sockaddr
  \/ /\ on = "1" \/ port_sockaddr
     /\ \E chown \in {<<>>, <<"CHOWN">>} :
          todo' = chown \o <<IF on = "1" THEN "PASV_ACCEPT" ELSE "GET_DATA_SOCK",
                            "PASV_CLEANUP">>
     /\ port_sockaddr' = FALSE

(* The last message of an answer.  A message of another kind is taken for  *)
(* what was expected: "confused".                                          *)
Answered(msg) ==
  /\ got' = <<request, IF msg.kind = Head(expecting) THEN msg.val ELSE "confused">>
  /\ IF request = "PASV_ACTIVE" THEN AfterActive(msg.val)
     ELSE UNCHANGED <<todo, port_sockaddr>>
  /\ seen' = listening
  /\ request' = "none" /\ expecting' = <<>>

ChildReadsLast ==
  LET msg == Head(to_child["post"]) IN
  /\ state["post"] = "await" /\ to_child["post"] # <<>>
  /\ ~(msg.kind = Head(expecting) /\ msg.kind = "result" /\ Then(request, msg.val) # <<>>)
  /\ to_child' = [to_child EXCEPT !["post"] = Tail(@)]
  /\ state' = [state EXCEPT !["post"] = "idle"]
  /\ Answered(msg)
  /\ UNCHANGED <<to_parent, ends, ppc, parent, signals, asking, login_fails,
       commands, control_shut>>

(* The answer to a login: the child is not needed any more, or goes on     *)
(* until check_login_fails has enough.                                     *)
LoginAnswered ==
  LET msg == Head(to_child["pre"]) IN
  /\ state["pre"] = "await" /\ to_child["pre"] # <<>>
  /\ to_child' = [to_child EXCEPT !["pre"] = Tail(@)]
  /\ expecting' = <<>> /\ request' = "none"
  /\ IF msg.val = "OK"
     THEN ChildEnds("pre") /\ UNCHANGED <<login_fails, control_shut>>
     ELSE /\ login_fails' = login_fails + 1
          /\ IF login_fails + 1 >= max_login_fails
             THEN control_shut' = TRUE /\ ChildEnds("pre")
             ELSE /\ state' = [state EXCEPT !["pre"] = "idle"]
                  /\ UNCHANGED <<ends, chld, control_shut>>
  /\ UNCHANGED <<to_parent, ppc, parent, chld_handler, term, asking, todo,
       port_sockaddr, commands, got, seen>>

(* read() returns 0: the parent has gone.                                  *)
ChildReadsEnd(c) ==
  /\ state[c] = "await" /\ to_child[c] = <<>> /\ parent_fd[c] = {}
  /\ ChildEnds(c)
  /\ UNCHANGED <<pair, ppc, parent, chld_handler, term, session, control_shut, seen>>

-----------------------------------------------------------------------------
ParentStep ==
  \/ handle_sigterm \/ handle_sigchld \/ (\E c \in Children : Reap(c))
  \/ ParentContext \/ ParentReads \/ ParentReadsEnd \/ ParentWrites
  \/ LoginFails \/ LoginSucceeds \/ WaitForPre
  \/ cmd_process_pasv_cleanup \/ cmd_process_pasv_active
  \/ cmd_process_pasv_listen \/ cmd_process_pasv_accept
  \/ cmd_process_get_data_sock \/ cmd_process_chown

(* What a child does by itself.                                            *)
ChildStep(c) ==
  \/ ChildContext(c) \/ ControlShut(c)
  \/ ChildWrites(c) \/ ChildReadsFirst(c) \/ ChildReadsEnd(c)
  \/ c = "pre" /\ LoginAnswered
  \/ c = "post" /\ (NextRequest \/ ChildReadsLast)

ClientStep == Login \/ Pasv \/ Port \/ Transfer \/ \E c \in Children : ClientLeaves(c)

Fault == Sigterm \/ \E c \in Children : Crash(c) \/ DeathSignal(c)

Ended ==
  /\ ppc = "dead" /\ \A c \in Children : ~Alive(c)
  /\ UNCHANGED vars

Next == ParentStep \/ (\E c \in Children : ChildStep(c)) \/ ClientStep \/ Fault \/ Ended

Spec == /\ Init /\ [][Next]_vars
        /\ WF_vars(ParentStep) /\ \A c \in Children : WF_vars(ChildStep(c))

-----------------------------------------------------------------------------
TypeOK ==
  /\ ppc \in {"context", "read", "perform", "write", "wait", "reap", "refused", "dead"}
  /\ serving \in Children /\ listening \in BOOLEAN /\ seen \in BOOLEAN
  /\ parent_fd \in [Children -> SUBSET Processes]
  /\ child_fd \in [Children -> SUBSET Processes]
  /\ chld_handler \in {"exit", "null"} /\ chld \in BOOLEAN /\ term \in BOOLEAN
  /\ state \in [Children -> {"unborn", "forked", "idle", "ask", "await", "dead", "reaped"}]
  /\ port_sockaddr \in BOOLEAN /\ login_fails \in 0..max_login_fails
  /\ commands \in 0..MaxCommands /\ control_shut \in BOOLEAN

(* The parent never finds in a request a reason to die: it gets a command  *)
(* where it reads a command, one its child may give (twoprocess.c:302,     *)
(* postprivparent.c:78), and none that its passive socket makes impossible *)
(* (privops.c:46, 130 and 198), whatever the client has its session do.    *)
NeverRefused == ppc # "refused"

(* The session behaves like one whose requests are carried out in one step *)
(* each and answered with their own answers (PrivService): no message is   *)
(* taken for another, none is left over for the next request, and the      *)
(* socket does not change between two answers.                             *)
post_ended == state["post"] \in {"dead", "reaped"}

Service == INSTANCE PrivService WITH
             listening <- seen /\ ~post_ended,
             got <- got, ended <- post_ended

ServesRequests == Service!Spec

(* Neither process waits for ever, or outlives the other (twoprocess.c:47  *)
(* and 67, privsock.c: a read() that returns 0): after a crash, a SIGTERM  *)
(* or the client's leaving, the parent that blocks in a read() or in       *)
(* wait() and the child that waits for its client or for an answer all     *)
(* end, and an answer comes otherwise.                                     *)
NobodyWaitsForEver ==
  /\ (ppc = "dead") ~> (\A c \in Children : ~Alive(c))
  /\ post_ended ~> (ppc = "dead")
  /\ \A c \in Children : (state[c] = "await") ~> (state[c] # "await")
  /\ (state["pre"] = "dead") ~> (ppc = "dead" \/ state["post"] # "unborn")
=============================================================================

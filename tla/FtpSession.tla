----------------------------- MODULE FtpSession -----------------------------
(***************************************************************************)
(* One logged-in session of vsftpd 3.0.3, without SSL: the command loop    *)
(* (postlogin.c), its data connections (ftpdataio.c), and the signals the  *)
(* two are timed and interrupted by.  A signal only becomes pending; its   *)
(* real handler runs in vsf_sysutil_check_pending_actions, which follows   *)
(* every read, write and accept.  SIGALRM carries the idle timeout or the  *)
(* stall timeout of a transfer, whichever handler is installed when it is  *)
(* handled; SIGURG announces an ABOR that is to be read in the middle of a *)
(* transfer.                                                               *)
(*                                                                         *)
(* A call that may block has two states, about to block and blocked: a     *)
(* signal interrupts the second only.  Time passes while the session is    *)
(* blocked.  An answer is written before the session goes on, and the      *)
(* write blocks while the client does not read: unsent holds the places    *)
(* reached once an answer is written.  A request to the privileged parent  *)
(* is one step (TwoProcess), the lock of lock_upload_files is off.         *)
(***************************************************************************)
EXTENDS Integers, Sequences

CONSTANTS
  data_connection_timeout,   \* the tunables of these names; TRUE: not 0
  idle_session_timeout,
  xferlog_enable,
  delete_failed_uploads,
  Transfers,                 \* the transfers tried: RETR, STOR, LIST
  MaxLines,                  \* bound: lines the client sends
  MaxChunks                  \* bound: chunks of one transfer

ASSUME TunablesAssumption ==
  /\ data_connection_timeout \in BOOLEAN /\ idle_session_timeout \in BOOLEAN
  /\ xferlog_enable \in BOOLEAN /\ delete_failed_uploads \in BOOLEAN
ASSUME TransfersAssumption == Transfers \subseteq {"RETR", "STOR", "LIST"}
ASSUME BoundsAssumption == MaxLines \in Nat /\ MaxChunks \in Nat

VARIABLES
  \* the client and the two connections
  control,       \* lines the client has sent and the session has not read
  sent,          \* lines sent so far
  hungup,        \* the client has closed the control connection
  read_shut,     \* the session has shut its reading side
  peer,          \* the client's end of the data connection
  left,          \* chunks of the transfer not yet moved
  \* the session
  pc, stack,     \* where it is, and where it goes on after a check
  blocked,       \* it is blocked in the call it is at
  cmd, urg_cmd,  \* the commands read by the loop and by handle_sigurg
  pasv_fd, port_sockaddr, data_fd,   \* TRUE: there is one
  shut,          \* data_fd has been shut down
  data_progress, data_timeout, idle_timeout, abor_received,
  log_entry,     \* log_type: a transfer is to be logged
  retval,        \* of the transfer
  file,          \* the file an upload has created
  \* signals
  handler, alarm, pending, urg_running,
  \* what the client has been told
  reply, owed,   \* the last answer; commands read and not answered
  unsent,        \* the places that wait for an answer to be written
  merged         \* a second ABOR came before the first was answered

client   == <<control, sent, hungup>>
conn     == <<peer, left, shut>>
sockets  == <<pasv_fd, port_sockaddr, data_fd>>
flags    == <<data_progress, data_timeout, idle_timeout, abor_received,
              log_entry>>
signals  == <<handler, alarm, pending, urg_running>>
told     == <<reply, owed, unsent, merged>>
vars     == <<client, conn, sockets, flags, signals, told, read_shut, pc,
              stack, blocked, cmd, urg_cmd, retval, file>>

Commands == {"NOOP", "ABOR", "PASV", "PORT", "QUIT"} \cup Transfers

(* Where the session waits for somebody else.                              *)
Waits == {"getCmd", "accept", "io", "close", "urgRead"}

Init ==
  /\ control = <<>> /\ sent = 0 /\ hungup = FALSE /\ read_shut = FALSE
  /\ peer = "none" /\ left = 0 /\ shut = FALSE
  /\ pc = "loop" /\ stack = <<>> /\ blocked = FALSE
  /\ cmd = "NOOP" /\ urg_cmd = "NOOP"
  /\ pasv_fd = FALSE /\ port_sockaddr = FALSE /\ data_fd = FALSE
  /\ data_progress = FALSE /\ data_timeout = FALSE
  /\ idle_timeout = FALSE /\ abor_received = FALSE
  /\ log_entry = FALSE /\ retval = 0 /\ file = "none"
  /\ handler = "none" /\ alarm = "off" /\ pending = {} /\ urg_running = FALSE
  /\ reply = "none" /\ owed = 0 /\ unsent = {} /\ merged = FALSE

Running == pc \notin {"exit", "bug"}

At(l) == pc = l /\ l \notin unsent

(* The session goes on at pc l, at once or after the checks of a call.     *)
Goto(l)      == pc' = l /\ blocked' = FALSE /\ UNCHANGED stack
CheckThen(l) == pc' = "checkALRM" /\ blocked' = FALSE /\ stack' = <<l>> \o stack
Resume       == pc' = Head(stack) /\ blocked' = FALSE /\ stack' = Tail(stack)
Exit         == pc' = "exit" /\ blocked' = FALSE /\ stack' = <<>>

(* A line of the log is written, which checks for signals as well.         *)
LogThen(l) == IF xferlog_enable THEN CheckThen(l) ELSE Goto(l)

-----------------------------------------------------------------------------
(* Signals.  A lingering close() that is interrupted is repeated without   *)
(* blocking; the other calls run their check and are tried again.          *)
Deliver(s) ==
  /\ pending' = pending \cup {s}
  /\ IF ~blocked THEN UNCHANGED <<pc, stack, blocked>>
     ELSE IF pc = "close" THEN Goto("closed") ELSE CheckThen(pc)

TimePasses ==
  /\ Running /\ blocked /\ alarm = "set"
  /\ alarm' = "due"
  /\ UNCHANGED <<client, conn, sockets, flags, told, read_shut, pc, stack,
       blocked, cmd, urg_cmd, retval, file, handler, pending, urg_running>>

(* Mutant of Refire: the alarm does not come again.                        *)
Refire_Once == alarm' = "off"

(* vsf_sysutil_common_sighandler: alarm(1) until the signal is handled.    *)
Refire == alarm' = "set"

Sigalrm ==
  /\ Running /\ alarm = "due"
  /\ Deliver("ALRM") /\ Refire
  /\ UNCHANGED <<client, conn, sockets, flags, told, read_shut, cmd, urg_cmd,
       retval, file, handler, urg_running>>

(* The client sends a line; urgent data raises SIGURG.                     *)
SendLine(c) ==
  /\ Running /\ ~hungup /\ sent < MaxLines
  /\ control' = Append(control, c) /\ sent' = sent + 1
  /\ \/ UNCHANGED <<pending, pc, stack, blocked>>
     \/ c = "ABOR" /\ Deliver("URG")
  /\ UNCHANGED <<hungup, conn, sockets, flags, told, read_shut, cmd, urg_cmd,
       retval, file, handler, alarm, urg_running>>

HangUp ==
  /\ Running /\ ~hungup
  /\ hungup' = TRUE
  /\ UNCHANGED <<control, sent, conn, sockets, flags, signals, told, read_shut,
       pc, stack, blocked, cmd, urg_cmd, retval, file>>

(* The client ends the stream it sends, or its data connection breaks.     *)
PeerEnds(how) ==
  /\ Running /\ data_fd /\ peer = "open"
  /\ how = "ended" => cmd = "STOR"
  /\ peer' = how
  /\ UNCHANGED <<client, left, shut, sockets, flags, signals, told, read_shut,
       pc, stack, blocked, cmd, urg_cmd, retval, file>>

(* The call the session is at finds nothing to return with: an answer no   *)
(* room, as long as the connection is not made non-blocking, which both    *)
(* handlers of SIGALRM do with the shutdown of its reading side.           *)
Block ==
  /\ ~blocked
  /\ IF pc \in unsent THEN ~read_shut ELSE pc \in Waits
  /\ blocked' = TRUE
  /\ UNCHANGED <<client, conn, sockets, flags, signals, told, read_shut, pc,
       stack, cmd, urg_cmd, retval, file>>

start_data_alarm ==
  IF data_connection_timeout
  THEN handler' = "data" /\ alarm' = "set"
  ELSE /\ alarm' = IF idle_session_timeout THEN "off" ELSE alarm
       /\ UNCHANGED handler

handle_alarm_timeout ==
  /\ idle_timeout' = TRUE /\ read_shut' = TRUE /\ alarm' = "off"
  /\ UNCHANGED <<data_progress, data_timeout, shut, handler>>

handle_sigalrm ==
  IF data_progress
  THEN /\ data_progress' = FALSE
       /\ start_data_alarm
       /\ UNCHANGED <<data_timeout, idle_timeout, read_shut, shut>>
  ELSE /\ data_timeout' = TRUE /\ read_shut' = TRUE
       /\ shut' = (shut \/ data_fd) /\ alarm' = "off"
       /\ UNCHANGED <<data_progress, idle_timeout, handler>>

CheckAlrm ==
  /\ pc = "checkALRM"
  /\ Goto("checkURG")
  /\ IF "ALRM" \in pending
     THEN /\ pending' = pending \ {"ALRM"}
          /\ IF handler = "idle" THEN handle_alarm_timeout ELSE handle_sigalrm
     ELSE UNCHANGED <<pending, data_progress, data_timeout, idle_timeout,
                      read_shut, shut, handler, alarm>>
  /\ UNCHANGED <<client, peer, left, sockets, abor_received, log_entry,
       urg_running, told, cmd, urg_cmd, retval, file>>

(* handle_sigurg, which is not entered twice: without a data connection    *)
(* the line is left to the loop.                                           *)
CheckUrg ==
  /\ pc = "checkURG"
  /\ IF "URG" \notin pending \/ urg_running
     THEN Resume /\ UNCHANGED <<pending, urg_running>>
     ELSE /\ pending' = pending \ {"URG"}
          /\ IF data_fd THEN Goto("urgRead") /\ urg_running' = TRUE
                        ELSE Resume /\ UNCHANGED urg_running
  /\ UNCHANGED <<client, conn, sockets, flags, told, read_shut, cmd, urg_cmd,
       retval, file, handler, alarm>>

-----------------------------------------------------------------------------
(* A line is read, by the loop or by handle_sigurg.                        *)
TakeLine ==
  /\ control # <<>>
  /\ control' = Tail(control) /\ owed' = owed + 1
  /\ UNCHANGED <<sent, hungup, reply, unsent, merged>>

LineOver == control = <<>> /\ (hungup \/ read_shut)

(* vsf_cmdio_write: the answer that is written before the session goes on. *)
Say(code, answers, next) ==
  /\ reply' = code /\ owed' = owed - answers /\ unsent' = unsent \cup {next}
  /\ Goto(next)

(* The client, or the buffer of its connection, takes the answer.          *)
Written ==
  /\ pc \in unsent
  /\ unsent' = unsent \ {pc}
  /\ CheckThen(pc)
  /\ UNCHANGED <<client, conn, sockets, flags, signals, reply, owed, merged,
       read_shut, cmd, urg_cmd, retval, file>>

(* The client has closed the connection, or it takes no more and does not  *)
(* block: die("ftp_write").                                                *)
WriteDies ==
  /\ pc \in unsent /\ (hungup \/ read_shut)
  /\ Exit
  /\ UNCHANGED <<client, conn, sockets, flags, signals, told, read_shut, cmd,
       urg_cmd, retval, file>>

UrgRead ==
  /\ pc = "urgRead"
  /\ \/ /\ TakeLine /\ urg_cmd' = Head(control)
        /\ CheckThen("urgLine")
     \/ /\ LineOver /\ Exit
        /\ UNCHANGED <<client, told, urg_cmd>>
  /\ UNCHANGED <<conn, sockets, flags, signals, read_shut, cmd, retval, file>>

UrgAbor ==
  /\ pc = "urgLine" /\ ~idle_timeout /\ urg_cmd = "ABOR"
  /\ abor_received' = TRUE /\ merged' = (merged \/ abor_received)
  /\ shut' = TRUE
  /\ urg_running' = FALSE
  /\ Resume
  /\ UNCHANGED <<client, peer, left, sockets, data_progress, data_timeout,
       idle_timeout, log_entry, reply, owed, unsent, handler, alarm, pending,
       read_shut, cmd, urg_cmd, retval, file>>

(* "Unknown command.", whatever it is.                                     *)
UrgOther ==
  /\ pc = "urgLine" /\ ~idle_timeout /\ urg_cmd # "ABOR"
  /\ Say("500", 1, "urgReturn")
  /\ UNCHANGED <<client, conn, sockets, flags, signals, merged, read_shut, cmd,
       urg_cmd, retval, file>>

UrgReturn ==
  /\ At("urgReturn")
  /\ urg_running' = FALSE
  /\ Resume
  /\ UNCHANGED <<client, conn, sockets, flags, handler, alarm, pending, told,
       read_shut, cmd, urg_cmd, retval, file>>

(* vsf_cmdio_get_cmd_and_arg: "Timeout."                                   *)
TimedOut ==
  /\ pc \in {"dispatch", "urgLine"} /\ idle_timeout
  /\ Exit
  /\ UNCHANGED <<client, conn, sockets, flags, signals, told, read_shut, cmd,
       urg_cmd, retval, file>>

-----------------------------------------------------------------------------
(* The command loop (process_post_login), which begins with                *)
(* vsf_cmdio_set_alarm.                                                    *)
(* Mutant of SetAlarm: the handler of a transfer stays installed.          *)
SetAlarm_KeepsHandler ==
  IF idle_session_timeout
  THEN handler' = (IF handler = "none" THEN "idle" ELSE handler) /\ alarm' = "set"
  ELSE UNCHANGED <<handler, alarm>>

SetAlarm ==
  IF idle_session_timeout
  THEN handler' = "idle" /\ alarm' = "set"
  ELSE UNCHANGED <<handler, alarm>>

(* A transfer that failed is logged before the loop goes on.               *)
LogFailed ==
  /\ At("loop") /\ log_entry
  /\ log_entry' = FALSE
  /\ LogThen("loop")
  /\ UNCHANGED <<client, conn, sockets, data_progress, data_timeout,
       idle_timeout, abor_received, signals, told, read_shut, cmd, urg_cmd,
       retval, file>>

Loop ==
  /\ At("loop") /\ ~log_entry
  /\ IF data_timeout
     THEN Exit /\ UNCHANGED <<handler, alarm>>
     ELSE SetAlarm /\ Goto("getCmd")
  /\ UNCHANGED <<client, conn, sockets, flags, pending, urg_running, told,
       read_shut, cmd, urg_cmd, retval, file>>

GetCmd ==
  /\ pc = "getCmd"
  /\ \/ /\ TakeLine /\ cmd' = Head(control)
        /\ CheckThen("dispatch")
     \/ /\ LineOver /\ Exit
        /\ UNCHANGED <<client, told, cmd>>
  /\ UNCHANGED <<conn, sockets, flags, signals, read_shut, urg_cmd, retval, file>>

Dispatch(c) == pc = "dispatch" /\ ~idle_timeout /\ cmd = c

Quit ==
  /\ Dispatch("QUIT")
  /\ Exit
  /\ UNCHANGED <<client, conn, sockets, flags, signals, told, read_shut, cmd,
       urg_cmd, retval, file>>

(* A command without effect here, and an ABOR with nothing to abort.       *)
Simple(c, code) ==
  /\ Dispatch(c)
  /\ Say(code, 1, "loop")
  /\ UNCHANGED <<client, conn, sockets, flags, signals, merged, read_shut, cmd,
       urg_cmd, retval, file>>

(* pasv_active and port_active call bug() if both are, and                 *)
(* vsf_log_start_entry if a transfer is still to be logged.                *)
Impossible == (pasv_fd /\ port_sockaddr) \/ (cmd # "LIST" /\ log_entry)

(* Mutant of handle_pasv: a PORT given before stays.                       *)
handle_pasv_KeepsPort ==
  /\ Dispatch("PASV")
  /\ pasv_fd' = TRUE /\ Say("227", 1, "loop")
  /\ UNCHANGED <<port_sockaddr, data_fd, client, conn, flags, signals, merged,
       read_shut, cmd, urg_cmd, retval, file>>

(* The parent dies if it finds no port to listen on, and the session too.  *)
handle_pasv ==
  /\ Dispatch("PASV")
  /\ port_sockaddr' = FALSE
  /\ \/ pasv_fd' = TRUE /\ Say("227", 1, "loop")
     \/ pasv_fd' = FALSE /\ Exit /\ UNCHANGED <<reply, owed, unsent>>
  /\ UNCHANGED <<data_fd, client, conn, flags, signals, merged, read_shut, cmd,
       urg_cmd, retval, file>>

handle_port ==
  /\ Dispatch("PORT")
  /\ pasv_fd' = FALSE
  /\ \/ port_sockaddr' = TRUE /\ Say("200", 1, "loop")
     \/ port_sockaddr' = FALSE /\ Say("500", 1, "loop")      \* Illegal PORT
  /\ UNCHANGED <<data_fd, client, conn, flags, signals, merged, read_shut, cmd,
       urg_cmd, retval, file>>

(* A transfer that does not start: data_transfer_checks_ok, no access, no  *)
(* file.                                                                   *)
TransferRefused ==
  /\ \E c \in Transfers : Dispatch(c)
  /\ ~Impossible
  /\ \/ /\ ~pasv_fd /\ ~port_sockaddr
        /\ Say("425", 1, "loop") /\ UNCHANGED log_entry
     \/ /\ pasv_fd \/ port_sockaddr
        /\ Say("550", 1, "loop") /\ log_entry' \in {FALSE, cmd # "LIST"}
  /\ UNCHANGED <<client, conn, sockets, data_progress, data_timeout,
       idle_timeout, abor_received, signals, merged, read_shut, cmd, urg_cmd,
       retval, file>>

(* The file is open; get_remote_transfer_fd begins.                        *)
TransferOpens ==
  /\ \E c \in Transfers : Dispatch(c)
  /\ pasv_fd \/ port_sockaddr
  /\ file' = IF cmd = "STOR" THEN "partial" ELSE file
  /\ abor_received' = FALSE /\ log_entry' = (cmd # "LIST")
  /\ Goto(IF Impossible THEN "bug" ELSE "accept")
  /\ UNCHANGED <<client, conn, sockets, data_progress, data_timeout,
       idle_timeout, signals, told, read_shut, cmd, urg_cmd, retval>>

(* The client connects, or is connected to, or not in time.                *)
Accept ==
  /\ pc = "accept"
  /\ \E l \in {"connected", "refused"} : CheckThen(l)
  /\ UNCHANGED <<client, conn, sockets, flags, signals, told, read_shut, cmd,
       urg_cmd, retval, file>>

Refused ==
  /\ pc = "refused"
  /\ Say("425", 1, "cleanup")
  /\ UNCHANGED <<client, conn, sockets, flags, signals, merged, read_shut, cmd,
       urg_cmd, retval, file>>

(* init_data_sock_params.                                                  *)
Connected ==
  /\ pc = "connected"
  /\ data_fd' = TRUE /\ data_progress' = FALSE
  /\ start_data_alarm
  /\ peer' = "open" /\ left' \in 0..MaxChunks /\ shut' = FALSE
  /\ Goto(IF data_fd THEN "bug" ELSE "mark")
  /\ UNCHANGED <<client, pasv_fd, port_sockaddr, data_timeout, idle_timeout,
       abor_received, log_entry, pending, urg_running, told, read_shut, cmd,
       urg_cmd, retval, file>>

Mark ==
  /\ pc = "mark"
  /\ Say("150", 0, "io")
  /\ UNCHANGED <<client, conn, sockets, flags, signals, merged, read_shut, cmd,
       urg_cmd, retval, file>>

-----------------------------------------------------------------------------
(* The data connection: do_file_send_rwloop and do_file_send_sendfile,     *)
(* transfer_dir, do_file_recv.                                             *)
DataUsable ==
  IF cmd = "STOR" THEN peer = "open" ELSE peer # "reset" /\ ~shut

(* A chunk is written or read: handle_io notes the progress.               *)
Chunk ==
  /\ At("io") /\ left > 0 /\ DataUsable
  /\ left' = left - 1 /\ data_progress' = TRUE
  /\ CheckThen("io")
  /\ UNCHANGED <<client, peer, shut, sockets, data_timeout, idle_timeout,
       abor_received, log_entry, signals, told, read_shut, cmd, urg_cmd,
       retval, file>>

(* All is written, which needs no call; or read() returns 0, also because  *)
(* of a shutdown().                                                        *)
StreamOver ==
  /\ At("io")
  /\ retval' = 0
  /\ IF cmd = "STOR" THEN (peer = "ended" \/ shut) /\ CheckThen("dispose")
                     ELSE left = 0 /\ Goto("dispose")
  /\ UNCHANGED <<client, conn, sockets, flags, signals, told, read_shut, cmd,
       urg_cmd, file>>

StreamFails ==
  /\ At("io")
  /\ peer = "reset" \/ (cmd # "STOR" /\ shut /\ left > 0)
  /\ retval' = IF cmd = "LIST" THEN -1 ELSE -2
  /\ CheckThen("dispose")
  /\ UNCHANGED <<client, conn, sockets, flags, signals, told, read_shut, cmd,
       urg_cmd, file>>

(* The local file cannot be read, or written.                              *)
LocalFails ==
  /\ At("io") /\ ~blocked /\ cmd # "LIST"
  /\ retval' = -1
  /\ Goto("dispose")
  /\ UNCHANGED <<client, conn, sockets, flags, signals, told, read_shut, cmd,
       urg_cmd, file>>

(* vsf_ftpdataio_dispose_transfer_fd.  Only a transfer that was not        *)
(* stopped lingers in close().                                             *)
Dispose ==
  /\ pc = "dispose"
  /\ IF abor_received \/ data_timeout
     THEN Goto("closed") /\ UNCHANGED <<handler, alarm>>
     ELSE Goto("close") /\ start_data_alarm
  /\ UNCHANGED <<client, conn, sockets, flags, pending, urg_running, told,
       read_shut, cmd, urg_cmd, retval, file>>

LingerOver ==
  /\ pc = "close"
  /\ Goto("closed")
  /\ UNCHANGED <<client, conn, sockets, flags, signals, told, read_shut, cmd,
       urg_cmd, retval, file>>

(* Mutant of DisposeResult: a shut down connection is a success.           *)
DisposeResult_Ignored == retval

DisposeResult ==
  IF (abor_received \/ data_timeout) /\ retval = 0
  THEN IF cmd = "LIST" THEN -1 ELSE -2
  ELSE retval

(* A transfer that did not fail is logged before it is answered.           *)
Closed ==
  /\ pc = "closed"
  /\ data_fd' = FALSE
  /\ alarm' = IF data_connection_timeout THEN "off" ELSE alarm
  /\ retval' = DisposeResult
  /\ file' = IF cmd = "STOR" /\ DisposeResult = 0 THEN "stored" ELSE file
  /\ IF cmd # "LIST" /\ DisposeResult = 0
     THEN LogThen("result") /\ log_entry' = FALSE
     ELSE Goto("result") /\ UNCHANGED log_entry
  /\ UNCHANGED <<client, conn, pasv_fd, port_sockaddr, data_progress,
       data_timeout, idle_timeout, abor_received, handler, pending,
       urg_running, told, read_shut, cmd, urg_cmd>>

(* The failures a timeout is the reason of, which is told later.           *)
NetworkFailed == retval = -2 \/ (retval = -1 /\ cmd = "LIST")

Result ==
  /\ pc = "result"
  /\ \/ retval = 0 /\ Say("226", 1, "abor")
     \/ NetworkFailed /\ ~data_timeout /\ Say("426", 1, "abor")
     \/ /\ NetworkFailed /\ data_timeout
        /\ Goto("abor") /\ UNCHANGED <<reply, owed, unsent>>
     \/ retval # 0 /\ ~NetworkFailed /\ Say("451", 1, "abor")
  /\ UNCHANGED <<client, conn, sockets, flags, signals, merged, read_shut, cmd,
       urg_cmd, retval, file>>

(* Mutant of check_abor: the flag stays.                                   *)
check_abor_Stays ==
  /\ At("abor")
  /\ IF abor_received
     THEN Say("225", 1, "cleanup")
     ELSE Goto("cleanup") /\ UNCHANGED <<reply, owed, unsent>>
  /\ UNCHANGED <<client, conn, sockets, flags, merged, signals, read_shut, cmd,
       urg_cmd, retval, file>>

check_abor ==
  /\ At("abor")
  /\ abor_received' = FALSE
  /\ IF abor_received
     THEN Say("225", 1, "cleanup")
     ELSE Goto("cleanup") /\ UNCHANGED <<reply, owed, unsent>>
  /\ UNCHANGED <<client, conn, sockets, data_progress, data_timeout,
       idle_timeout, log_entry, merged, signals, read_shut, cmd, urg_cmd,
       retval, file>>

(* port_pasv_cleanup_out.  The data connection is forgotten.               *)
Cleanup ==
  /\ At("cleanup")
  /\ pasv_fd' = FALSE /\ port_sockaddr' = FALSE
  /\ file' = IF cmd = "STOR" /\ file = "partial" /\ delete_failed_uploads
             THEN "deleted" ELSE file
  /\ peer' = "none" /\ left' = 0 /\ shut' = FALSE /\ retval' = 0
  /\ Goto("loop")
  /\ UNCHANGED <<client, data_fd, flags, signals, told, read_shut, cmd, urg_cmd>>

-----------------------------------------------------------------------------
(* What the session does without waiting for its client: a call that can   *)
(* return returns, accept() and close() because they have time limits.     *)
SessionStep ==
  \/ Block \/ CheckAlrm \/ CheckUrg \/ UrgRead \/ UrgAbor \/ UrgOther
  \/ WriteDies \/ UrgReturn \/ TimedOut \/ LogFailed \/ Loop \/ GetCmd \/ Quit
  \/ Simple("NOOP", "200") \/ Simple("ABOR", "225")
  \/ handle_pasv \/ handle_port \/ TransferRefused \/ TransferOpens
  \/ Accept \/ Refused \/ Connected \/ Mark
  \/ StreamOver \/ StreamFails \/ LocalFails \/ Dispose \/ LingerOver \/ Closed
  \/ Result \/ check_abor \/ Cleanup

ClientStep ==
  \/ \E c \in Commands : SendLine(c)
  \/ HangUp
  \/ \E how \in {"ended", "reset"} : PeerEnds(how)
  \/ Chunk \/ Written

Ended == ~Running /\ UNCHANGED vars

Next == SessionStep \/ ClientStep \/ TimePasses \/ Sigalrm \/ Ended

(* The session runs, and so does the clock; the client may do nothing.     *)
Fairness ==
  /\ WF_vars(SessionStep) /\ WF_vars(TimePasses) /\ WF_vars(Sigalrm)

Spec == Init /\ [][Next]_vars /\ Fairness

-----------------------------------------------------------------------------
Lines == {"NOOP", "ABOR", "PASV", "PORT", "QUIT", "RETR", "STOR", "LIST"}

Labels ==
  {"loop", "getCmd", "dispatch", "accept", "refused", "connected", "mark",
   "io", "dispose", "close", "closed", "result", "abor", "cleanup",
   "checkALRM", "checkURG", "urgRead", "urgLine", "urgReturn", "exit", "bug"}

Replies ==
  {"none", "150", "200", "225", "226", "227", "425", "426", "451", "500", "550"}

TypeOK ==
  /\ control \in Seq(Lines) /\ sent \in Nat /\ hungup \in BOOLEAN
  /\ read_shut \in BOOLEAN /\ peer \in {"none", "open", "ended", "reset"}
  /\ left \in Nat /\ shut \in BOOLEAN /\ blocked \in BOOLEAN
  /\ pc \in Labels /\ stack \in Seq(Labels)
  /\ cmd \in Lines /\ urg_cmd \in Lines
  /\ pasv_fd \in BOOLEAN /\ port_sockaddr \in BOOLEAN /\ data_fd \in BOOLEAN
  /\ data_progress \in BOOLEAN /\ data_timeout \in BOOLEAN
  /\ idle_timeout \in BOOLEAN /\ abor_received \in BOOLEAN
  /\ log_entry \in BOOLEAN
  /\ retval \in {0, -1, -2}
  /\ file \in {"none", "partial", "stored", "deleted"}
  /\ handler \in {"none", "idle", "data"} /\ alarm \in {"off", "set", "due"}
  /\ pending \subseteq {"ALRM", "URG"} /\ urg_running \in BOOLEAN
  /\ reply \in Replies /\ owed \in Int /\ unsent \subseteq Labels
  /\ merged \in BOOLEAN

(* When the session waits for a command, each one it has read, from the    *)
(* loop or in the middle of a transfer, has had exactly one answer, and no *)
(* ABOR is left to be answered by a later transfer (check_abor,            *)
(* postlogin.c:1458); only ABORs that came before the first was answered   *)
(* share an answer.                                                        *)
RepliesMatchCommands ==
  pc = "getCmd" => /\ owed >= 0 /\ (~merged => owed = 0)
                   /\ ~abor_received

(* "Transfer complete" (postlogin.c:779 and 1160) is said of an upload     *)
(* only if the client itself has ended the stream, of a download only if   *)
(* all of it was written, and never after an ABOR, or after a stall has    *)
(* shut the connection down: a shutdown() makes read() return 0, as the    *)
(* end of a file does.  data_timeout alone says less: a SIGALRM of the     *)
(* lingering close may be handled at the write of the log, after the       *)
(* transfer is known to be complete.                                       *)
CompleteMeansComplete ==
  [][ (reply' = "226" /\ owed' < owed) =>
        /\ IF cmd = "STOR" THEN peer = "ended" ELSE left = 0
        /\ ~abor_received /\ ~shut ]_vars

(* A session that waits for a command was not found stalled: the alarm of  *)
(* a transfer is never handled outside it without the client being told    *)
(* and the session ending (postlogin.c:459, ftpdataio.c:196).              *)
IdleIsNotStalled == pc = "getCmd" => ~data_timeout

(* bug() of postlogin.c:522 and 545, of ftpdataio.c:236 and of             *)
(* logging.c:85 is not reached.                                            *)
NeverBug == pc # "bug"

(* The session is writing an answer that the client does not read, and no  *)
(* alarm runs: dispose has cleared it (ftpdataio.c:98), and only the loop  *)
(* sets it again, so this is an answer to a transfer or to its ABOR.       *)
Unheard ==
  /\ pc \in unsent /\ alarm = "off" /\ ~read_shut /\ ~hungup
  /\ reply \in {"225", "226", "426", "451"}

(* Whatever the client sends or does not send, and reads or does not read, *)
(* its session ends, at a command, in an accept(), in a transfer, in a     *)
(* lingering close(), inside handle_sigurg and in the write of an answer,  *)
(* unless it is left Unheard for ever.                                     *)
SessionEnds == <>(~Running) \/ <>[]Unheard

(* vsftpd.conf.5:690-692 of idle_session_timeout: "the maximum time a      *)
(* remote client may spend between FTP commands.  If the timeout triggers, *)
(* the remote client is kicked off."                                       *)
SessionAlwaysEnds == <>(~Running)

(* vsftpd.conf.5:173: "If true, any failed upload files are deleted."  *)
FailedUploadsDeleted ==
  (delete_failed_uploads /\ ~Running) => file # "partial"
=============================================================================

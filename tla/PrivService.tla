---------------------------- MODULE PrivService -----------------------------
(***************************************************************************)
(* What a logged-in session is promised of the helper that keeps its       *)
(* passive socket and its privileges (privops.c): each request is carried  *)
(* out once, as one step, and answered with its own answer.                *)
(***************************************************************************)

VARIABLES
  listening,     \* there is a passive socket (pasv_listen_fd # -1)
  got,           \* the request answered last and its answer
  ended          \* the session has come to its end

vars == <<listening, got, ended>>

(* The answers a request may have while the passive socket is as it is.    *)
Answers(req, on) ==
  CASE req = "PASV_CLEANUP"  -> {"OK"}
    [] req = "PASV_ACTIVE"   -> IF on THEN {"1"} ELSE {"0"}
    [] req = "PASV_LISTEN"   -> IF on THEN {} ELSE {"port"}
    [] req = "PASV_ACCEPT"   -> IF on THEN {"fd", "-1", "-2"} ELSE {}
    [] req = "GET_DATA_SOCK" -> IF on THEN {} ELSE {"fd", "BAD"}
    [] req = "CHOWN"         -> {"OK"}

Requests == {"PASV_CLEANUP", "PASV_ACTIVE", "PASV_LISTEN", "PASV_ACCEPT",
             "GET_DATA_SOCK", "CHOWN"}

Init == listening = FALSE /\ got = <<"none", "none">> /\ ended = FALSE

Request(req) ==
  /\ ~ended
  /\ \E ans \in Answers(req, listening) : got' = <<req, ans>>
  /\ listening' = CASE req = "PASV_LISTEN"  -> TRUE
                    [] req = "PASV_CLEANUP" -> FALSE
                    [] OTHER                -> listening
  /\ UNCHANGED ended

(* The session or its helper ends, and the socket with them.               *)
End ==
  /\ ended' = TRUE /\ listening' = FALSE
  /\ UNCHANGED got

Next == (\E req \in Requests : Request(req)) \/ End

Spec == Init /\ [][Next]_vars
=============================================================================

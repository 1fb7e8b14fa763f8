-------------------------------- MODULE Session --------------------------------
(***************************************************************************)
(* The sessions of the server: ftp_server of src/src/factory.c, run by the *)
(* workers at the same time in one process, seen as what it does to the    *)
(* login state, to the passive-mode data port and to the process's table   *)
(* of file descriptors.  What a command does to the catalogue is the       *)
(* module Catalogue; here its outcome is a choice.                         *)
(*                                                                         *)
(* Every session of the server opens its data connection on the one port   *)
(* get_data_port returns, and every wrapper of src/src/pool.c ends the     *)
(* whole process when its system call fails.                               *)
(***************************************************************************)
EXTENDS Integers, FiniteSets

CONSTANTS
  Session,     (* the workers, each of which serves one session at a time  *)
  Nobody,      (* the owner of a descriptor that is free                   *)
  Lost,        (* stands for a session that is over                        *)
  FdLimit      (* the descriptors the process may have open at once        *)

ASSUME SessionAssumption ==
  /\ FdLimit \in Nat
  /\ Nobody \notin Session
  /\ Lost \notin Session \cup {Nobody}

VARIABLES
  pc,          (* where each session is                                    *)
  logged,      (* whether each session is logged on                        *)
  gone,        (* the client has closed its end of the control connection  *)
  control_fd,  (* task->newfd, or -1                                       *)
  listen_sockfd, (* the socket PASV listens on, or -1 before the first PASV *)
  data_sockfd, (* the data connection, or -1                               *)
  fds,         (* the process's descriptor table                           *)
  halted       (* "no", or why the process ended                           *)

vars == <<pc, logged, gone, control_fd, listen_sockfd, data_sockfd, fds, halted>>

LOGGED_ON == 1

LOGGED_OUT == 0

(* "idle" serves no client; "command" and "password" are in recv; "bind",  *)
(* "listen" and "accept" are the calls of PASV; "list", "retr" and "stor"  *)
(* have announced a transfer; "file" transfers a file it has opened.       *)
Label == {"idle", "command", "password", "bind", "listen", "accept",
          "list", "retr", "stor", "file"}

Fd == 0 .. FdLimit - 1

Kind == {"control", "bound", "listening", "data", "file"}

Free == [kind |-> "free", of |-> Nobody]

Entry == [kind : Kind, of : Session] \cup {Free}

TypeOK ==
  /\ pc \in [Session -> Label]
  /\ logged \in [Session -> {LOGGED_OUT, LOGGED_ON}]
  /\ gone \in [Session -> BOOLEAN]
  /\ control_fd \in [Session -> Fd \cup {-1}]
  /\ listen_sockfd \in [Session -> Fd \cup {-1}]
  /\ data_sockfd \in [Session -> Fd \cup {-1}]
  /\ fds \in [Fd -> Entry]
  /\ halted \in {"no", "port", "descriptors", "file", "peer", "undefined", "null"}

Init ==
  /\ pc = [s \in Session |-> "idle"]
  /\ logged = [s \in Session |-> LOGGED_OUT]
  /\ gone = [s \in Session |-> FALSE]
  /\ control_fd = [s \in Session |-> -1]
  /\ listen_sockfd = [s \in Session |-> -1]
  /\ data_sockfd = [s \in Session |-> -1]
  /\ fds = [fd \in Fd |-> Free]
  /\ halted = "no"

-----------------------------------------------------------------------------
(* The kernel: the lowest free descriptor is the next one to be opened,    *)
(* and a port with a listening socket can be neither bound nor listened on *)
(* again (SO_REUSEADDR does not change that).                              *)

IsNext(fd) == fds[fd] = Free /\ \A g \in 0 .. fd - 1 : fds[g] # Free

Exhausted == \A fd \in Fd : fds[fd] # Free

PortTaken == \E fd \in Fd : fds[fd].kind = "listening"

Opened(fd, kind, s) == [fds EXCEPT ![fd] = [kind |-> kind, of |-> s]]

Closed(F) == [fd \in Fd |-> IF fd \in F THEN Free ELSE fds[fd]]

-----------------------------------------------------------------------------
Goto(s, from, to) ==
  /\ halted = "no"
  /\ pc[s] = from
  /\ pc' = [pc EXCEPT ![s] = to]

(* ERROR_CHECK after a failed call: exit() ends every session.             *)
Exit(s, from, why) ==
  /\ halted = "no"
  /\ pc[s] = from
  /\ halted' = why
  /\ UNCHANGED <<pc, logged, gone, control_fd, listen_sockfd, data_sockfd, fds>>

Sockets == <<control_fd, listen_sockfd, data_sockfd, fds>>

(* A connection is accepted and its worker enters ftp_server.              *)
Arrive(s) ==
  /\ Goto(s, "idle", "command")
  /\ \E fd \in Fd :
       /\ IsNext(fd)
       /\ control_fd' = [control_fd EXCEPT ![s] = fd]
       /\ fds' = Opened(fd, "control", s)
  /\ UNCHANGED <<logged, gone, listen_sockfd, data_sockfd, halted>>

ArriveExhausted(s) == Exhausted /\ Exit(s, "idle", "descriptors")

(* The client closes its end, at any moment.                               *)
ClientLeaves(s) ==
  /\ halted = "no"
  /\ pc[s] # "idle"
  /\ ~gone[s]
  /\ gone' = [gone EXCEPT ![s] = TRUE]
  /\ UNCHANGED <<pc, logged, Sockets, halted>>

(* A send or a recv on a control connection the client has left, or on a   *)
(* data connection it has dropped during a transfer: SIGPIPE or            *)
(* ERROR_CHECK.  (The 227 reply is sent in the step that leaves "listen".) *)
PeerReset(s) ==
  \/ /\ gone[s]
     /\ \E from \in Label \ {"idle", "bind", "accept"} : Exit(s, from, "peer")
  \/ \E from \in {"list", "file"} : Exit(s, from, "peer")

(* Faulty variant: the data connection is not closed.                      *)
EndSessionKeepsData(s, from) ==
  /\ Goto(s, from, "idle")
  /\ fds' = Closed({control_fd[s]})
  /\ control_fd' = [control_fd EXCEPT ![s] = -1]
  /\ listen_sockfd' = [listen_sockfd EXCEPT ![s] = -1]
  /\ data_sockfd' = [data_sockfd EXCEPT ![s] = -1]
  /\ logged' = [logged EXCEPT ![s] = LOGGED_OUT]
  /\ gone' = [gone EXCEPT ![s] = FALSE]
  /\ UNCHANGED halted

(* The loop ends, the data connection is closed, and the worker closes the *)
(* control connection; the listening socket is not closed.  The variables  *)
(* of ftp_server are gone: the next session starts with fresh ones.        *)
EndSession(s, from) ==
  /\ Goto(s, from, "idle")
  /\ fds' = Closed({control_fd[s], data_sockfd[s]})
  /\ control_fd' = [control_fd EXCEPT ![s] = -1]
  /\ listen_sockfd' = [listen_sockfd EXCEPT ![s] = -1]
  /\ data_sockfd' = [data_sockfd EXCEPT ![s] = -1]
  /\ logged' = [logged EXCEPT ![s] = LOGGED_OUT]
  /\ gone' = [gone EXCEPT ![s] = FALSE]
  /\ UNCHANGED halted

(* Faulty variant: the end of the stream does not end the loop.            *)
DisconnectedStays(s) ==
  /\ gone[s]
  /\ Goto(s, "command", "command")
  /\ UNCHANGED <<logged, gone, Sockets, halted>>

Disconnected(s) == gone[s] /\ EndSession(s, "command")

(* QUIT, and TYPE without a parameter.                                     *)
Quit(s) == logged[s] = LOGGED_ON /\ EndSession(s, "command")

-----------------------------------------------------------------------------
(* USER is answered with 331 whether or not the session is logged on.      *)
User(s) ==
  /\ Goto(s, "command", "password")
  /\ UNCHANGED <<logged, gone, Sockets, halted>>

(* Without an argument, strcpy() is given a null pointer.                  *)
UserNull(s) == Exit(s, "command", "null")

(* Faulty variant: the result of the comparison is kept as the state.      *)
PassKeepsResult(s) ==
  /\ Goto(s, "password", "command")
  /\ \E result \in {-1, 0, 1} : logged' = [logged EXCEPT ![s] = result]
  /\ UNCHANGED <<gone, Sockets, halted>>

(* PASS: the right password logs on and so does an unknown user name; a    *)
(* wrong password logs out.                                                *)
Pass(s) ==
  /\ Goto(s, "password", "command")
  /\ \E verdict \in {LOGGED_OUT, LOGGED_ON} :
       logged' = [logged EXCEPT ![s] = verdict]
  /\ UNCHANGED <<gone, Sockets, halted>>

PassNull(s) == EndSession(s, "password")

(* A blank line in the place of PASS is no command at all, and strcmp() is *)
(* given a null pointer.                                                   *)
PassBlank(s) == Exit(s, "password", "null")

(* Any other command in the place of PASS is dropped.                      *)
NotPass(s) ==
  /\ Goto(s, "password", "command")
  /\ UNCHANGED <<logged, gone, Sockets, halted>>

(* The result of recv is not looked at here: after a disconnection cmds    *)
(* points to freed memory, which the code reads and frees again.           *)
PassGone(s) == gone[s] /\ Exit(s, "password", "undefined")

-----------------------------------------------------------------------------
(* PASV: Tcp_init on the data port, the 227 reply, and Accept.             *)
Pasv(s) ==
  /\ logged[s] = LOGGED_ON
  /\ Goto(s, "command", "bind")
  /\ UNCHANGED <<logged, gone, Sockets, halted>>

PasvBind(s) ==
  /\ Goto(s, "bind", "listen")
  /\ ~PortTaken
  /\ \E fd \in Fd :
       /\ IsNext(fd)
       /\ listen_sockfd' = [listen_sockfd EXCEPT ![s] = fd]
       /\ fds' = Opened(fd, "bound", s)
  /\ UNCHANGED <<logged, gone, control_fd, data_sockfd, halted>>

(* Faulty variant: SO_REUSEPORT lets several sockets listen on the port.   *)
PasvListenShared(s) ==
  /\ Goto(s, "listen", "accept")
  /\ fds' = Opened(listen_sockfd[s], "listening", s)
  /\ UNCHANGED <<logged, gone, control_fd, listen_sockfd, data_sockfd, halted>>

PasvListen(s) ==
  /\ Goto(s, "listen", "accept")
  /\ ~PortTaken
  /\ fds' = Opened(listen_sockfd[s], "listening", s)
  /\ UNCHANGED <<logged, gone, control_fd, listen_sockfd, data_sockfd, halted>>

PasvClash(s) ==
  /\ PortTaken
  /\ \E from \in {"bind", "listen"} : Exit(s, from, "port")

(* The client connects to the data port.                                   *)
PasvAccept(s) ==
  /\ Goto(s, "accept", "command")
  /\ \E fd \in Fd :
       /\ IsNext(fd)
       /\ data_sockfd' = [data_sockfd EXCEPT ![s] = fd]
       /\ fds' = Opened(fd, "data", s)
  /\ UNCHANGED <<logged, gone, control_fd, listen_sockfd, halted>>

PasvExhausted(s) ==
  /\ Exhausted
  /\ \E from \in {"bind", "accept"} : Exit(s, from, "descriptors")

-----------------------------------------------------------------------------
(* LIST, RETR and STOR need a data connection: 503 without, 150 with one.  *)
StartTransfer(s) ==
  /\ logged[s] = LOGGED_ON
  /\ data_sockfd[s] # -1
  /\ \E cmd \in {"list", "retr", "stor"} : Goto(s, "command", cmd)
  /\ UNCHANGED <<logged, gone, Sockets, halted>>

(* handle_retr and handle_stor open the file and never close it.           *)
OpenFile(s) ==
  /\ \E from \in {"retr", "stor"} : Goto(s, from, "file")
  /\ \E fd \in Fd :
       /\ IsNext(fd)
       /\ fds' = Opened(fd, "file", s)
  /\ UNCHANGED <<logged, gone, control_fd, listen_sockfd, data_sockfd, halted>>

(* STOR does not look at the result of open: when that failed, the first   *)
(* write ends the process.                                                 *)
StorUnopened(s) == Exit(s, "stor", "file")

(* Faulty variant: the closed data connection is still remembered.         *)
EndTransferStale(s) ==
  /\ \E from \in {"list", "retr", "stor", "file"} : Goto(s, from, "command")
  /\ fds' = Closed({data_sockfd[s], listen_sockfd[s]})
  /\ UNCHANGED <<logged, gone, control_fd, listen_sockfd, data_sockfd, halted>>

(* The transfer ended, or its file or directory was not found: both        *)
(* sockets of PASV are closed.                                             *)
EndTransfer(s) ==
  /\ \E from \in {"list", "retr", "stor", "file"} : Goto(s, from, "command")
  /\ fds' = Closed({data_sockfd[s], listen_sockfd[s]})
  /\ data_sockfd' = [data_sockfd EXCEPT ![s] = -1]
  /\ UNCHANGED <<logged, gone, control_fd, listen_sockfd, halted>>

-----------------------------------------------------------------------------
(* What the server does by itself, and what waits for the client.          *)
ServerStep(s) == \/ Disconnected(s) \/ PassGone(s)
                 \/ PasvBind(s) \/ PasvListen(s) \/ PasvClash(s)
                 \/ PasvExhausted(s) \/ OpenFile(s) \/ EndTransfer(s)

ClientStep(s) == \/ Arrive(s) \/ ArriveExhausted(s) \/ ClientLeaves(s)
                 \/ PeerReset(s) \/ Quit(s) \/ User(s) \/ UserNull(s)
                 \/ Pass(s) \/ PassNull(s) \/ PassBlank(s) \/ NotPass(s)
                 \/ Pasv(s) \/ PasvAccept(s)
                 \/ StartTransfer(s) \/ StorUnopened(s)

(* The ended process takes no step.                                        *)
Ended == halted # "no" /\ UNCHANGED vars

Next == \/ \E s \in Session : ServerStep(s) \/ ClientStep(s)
        \/ Ended

SafeSpec == Init /\ [][Next]_vars

(* Threads are scheduled, and a transfer ends when the peer has closed or  *)
(* read everything: weak fairness.  The commands a client sent before it   *)
(* left are finitely many, so a session that reads them comes to the end   *)
(* of the stream again and again only until it takes it: strong fairness.  *)
Fairness == \A s \in Session : /\ WF_vars(ServerStep(s))
                               /\ SF_vars(Disconnected(s) \/ PassGone(s))

Spec == SafeSpec /\ Fairness

-----------------------------------------------------------------------------
(* Descriptors are reused by whoever opens next, so a session that keeps   *)
(* the number of a closed one would read, write and close the connection   *)
(* of another session.  Whenever a session may use a descriptor, it is the *)
(* session's own and of the right kind; both sockets of PASV are there as  *)
(* long as data_sockfd says so.                                            *)
Owns(s, fd, kind) == fd \in Fd /\ fds[fd] = [kind |-> kind, of |-> s]

OwnDescriptors ==
  \A s \in Session :
    /\ pc[s] # "idle" => Owns(s, control_fd[s], "control")
    /\ data_sockfd[s] # -1 => /\ Owns(s, data_sockfd[s], "data")
                             /\ Owns(s, listen_sockfd[s], "listening")
    /\ pc[s] = "listen" => Owns(s, listen_sockfd[s], "bound")
    /\ pc[s] = "accept" => Owns(s, listen_sockfd[s], "listening")

(* No connection is left open behind a session: an open control or data    *)
(* connection is one its session still knows.  (Files and the listening    *)
(* socket are left behind.)                                                *)
NoConnectionLeaks ==
  \A fd \in Fd :
    /\ fds[fd].kind = "control" => control_fd[fds[fd].of] = fd
    /\ fds[fd].kind = "data" => data_sockfd[fds[fd].of] = fd
    /\ fds[fd].kind = "bound" => pc[fds[fd].of] = "listen"

(* A worker whose client has left becomes free, unless the process ended   *)
(* or the worker waits for a data connection.                              *)
WorkerFreed ==
  \A s \in Session :
    gone[s] ~> (pc[s] \in {"idle", "accept"} \/ halted # "no")

(* "Provides a new port for PASV mode" (factory.c:125): a PASV does not    *)
(* meet the socket of another one.                                         *)
NewPortForPasv == halted # "port"

(* The sessions' use of the port is that of DataPort.                      *)
Holder ==
  IF PortTaken
  THEN LET fd == CHOOSE fd \in Fd : fds[fd].kind = "listening"
           s  == fds[fd].of
       IN  IF listen_sockfd[s] = fd THEN s ELSE Lost
  ELSE Nobody

Port == INSTANCE DataPort WITH holder <- Holder, down <- (halted # "no")

PortSpec == Port!SafeSpec
=============================================================================

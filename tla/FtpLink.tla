-------------------------------- MODULE FtpLink --------------------------------
(***************************************************************************)
(* The dialogue of the client (client/client.c) with one session of the    *)
(* server (ftp_server of src/src/factory.c) over the control connection    *)
(* and the data connection.                                                *)
(*                                                                         *)
(* Neither side marks where a message ends: one recv() takes what has      *)
(* arrived, which may be several messages.  The server takes the first     *)
(* word of that for the command and all others for arguments; the client   *)
(* looks at the first reply code only.  So commands and replies need not   *)
(* stay in step.  What the commands do is in the modules Catalogue and     *)
(* Session, the bytes of files in Transfer; here their outcomes are        *)
(* choices, and a block is a row of a listing or a block of a file.        *)
(***************************************************************************)
EXTENDS Integers, Sequences

CONSTANTS
  MaxBlocks,   (* bound: the blocks of a listing or a file                 *)
  Capacity,    (* the blocks a data connection holds before they are read  *)
  MaxOpens,    (* bound: the times the user opens a connection             *)
  MaxCommands  (* bound: the other commands of the user                    *)

ASSUME LinkAssumption ==
  /\ MaxBlocks \in Nat \ {0} /\ Capacity \in Nat \ {0}
  /\ MaxOpens \in Nat /\ MaxCommands \in Nat

VARIABLES
  c2s,        (* the commands under way on the control connection          *)
  s2c,        (* the reply codes under way                                 *)
  c_conn,     (* the client's end of the control connection is open        *)
  c_data,     (* the client's end of the data connection is open           *)
  blocks,     (* the blocks under way to the client                        *)
  cpc,        (* where the client is                                       *)
  job,        (* the command for which it enters passive mode              *)
  need,       (* the blocks cmd_get still counts on                        *)
  account,    (* what the user types at open: is the password right, wrong *)
              (* or of an unknown user?                                    *)
  spc,        (* where the session is                                      *)
  logged,     (* is it logged on?                                          *)
  listening,  (* somebody listens on the data port                         *)
  backlog,    (* a connection to the data port waits to be accepted        *)
  data_open,  (* data_sockfd is a connection                               *)
  togo,       (* the blocks the session has still to send                  *)
  final,      (* its last reply of the transfer, 0 for none                *)
  ahead,      (* history: the replies the client does not wait for, less   *)
              (* those it waits for in vain                                *)
  halted,     (* "no", or why the server ended                             *)
  opens, left (* the bounds' rests                                         *)

control == <<c2s, s2c, c_conn>>
port == <<listening, backlog, data_open>>
client == <<cpc, job, need, account, c_data, opens, left>>
transfer == <<togo, final>>
vars == <<control, port, client, spc, logged, transfer, blocks, ahead, halted>>

LOGGED_ON == 1

LOGGED_OUT == 0

Verb == {"USER", "PASS", "MKD", "RMD", "CWD", "DELE", "PWD", "PASV", "LIST",
         "STOR", "SIZE", "RETR", "QUIT"}

(* A command has no argument, the path "/", or another one.                *)
Command == [verb : Verb, arg : {"none", "slash", "name"}]

Cmd(verb, arg) == [verb |-> verb, arg |-> arg]

Code == {150, 213, 220, 221, 226, 227, 230, 250, 257, 331, 500, 503, 530, 550, 551}

(* The client sends at "name", "mkd", "password", "cwd", "dial" and "ask",  *)
(* moves data at "list", "put" and "get", and else waits for a reply.      *)
ClientLabel == {"prompt", "welcome", "name", "user", "mkd", "password", "pass",
                "cwd", "reply", "pasv", "dial", "list", "listed", "stor", "put",
                "stored", "size", "ask", "retr", "get", "got", "quit", "exit",
                "exited"}

TypeOK ==
  /\ c2s \in Seq(Command) /\ s2c \in Seq(Code)
  /\ {c_conn, c_data, listening, backlog, data_open} \subseteq BOOLEAN
  /\ blocks \in 0 .. MaxBlocks /\ togo \in 0 .. MaxBlocks /\ need \in 0 .. MaxBlocks
  /\ cpc \in ClientLabel
  /\ job \in {"none", "ls", "put", "get"}
  /\ account \in {"right", "wrong", "unknown"}
  /\ spc \in {"idle", "welcome1", "welcome2", "command", "password", "accept",
              "send", "receive"}
  /\ logged \in {LOGGED_OUT, LOGGED_ON}
  /\ final \in {0, 226, 550}
  /\ ahead \in Int
  /\ halted \in {"no", "port", "peer", "undefined"}
  /\ opens \in 0 .. MaxOpens /\ left \in 0 .. MaxCommands

Init ==
  /\ c2s = << >> /\ s2c = << >> /\ c_conn = FALSE
  /\ c_data = FALSE /\ blocks = 0
  /\ cpc = "prompt" /\ job = "none" /\ need = 0 /\ account = "right"
  /\ spc = "idle" /\ logged = LOGGED_OUT
  /\ listening = FALSE /\ backlog = FALSE /\ data_open = FALSE
  /\ togo = 0 /\ final = 0
  /\ ahead = 0
  /\ halted = "no"
  /\ opens = MaxOpens /\ left = MaxCommands

-----------------------------------------------------------------------------
(* One send() and one recv() of the client.                                *)

Drop(s, k) == SubSeq(s, k + 1, Len(s))

ClientAt(label) == halted = "no" /\ cpc = label

ServerAt(label) == halted = "no" /\ spc = label

session == <<spc, logged, transfer>>
user == <<job, need, account, opens>>

(* The client sends a command; `more` counts its replies that the client   *)
(* will not read.                                                          *)
Say(from, command, more, to) ==
  /\ ClientAt(from) /\ c_conn
  /\ c2s' = Append(c2s, command)
  /\ cpc' = to
  /\ ahead' = ahead + more
  /\ UNCHANGED <<s2c, c_conn, session, blocks, halted>>

(* One recv() takes k replies, of which the client sees the first, or none *)
(* when the session is over.                                               *)
Hear(from) ==
  /\ ClientAt(from)
  /\ \E k \in 0 .. Len(s2c) :
       /\ \/ k > 0 /\ ahead' = ahead - (k - 1)
          \/ s2c = << >> /\ spc = "idle" /\ UNCHANGED ahead
       /\ s2c' = Drop(s2c, k)
  /\ UNCHANGED <<c2s, port, session, halted>>

Heard(code) == s2c # << >> /\ s2c[1] = code

(* A reply whose code is not looked at.                                    *)
HearAny(from, to) ==
  /\ Hear(from)
  /\ cpc' = to
  /\ UNCHANGED <<blocks, user, left>>

(* exit(), which closes what is open.                                      *)
Exit ==
  /\ cpc' = "exited"
  /\ c_conn' = FALSE /\ c_data' = FALSE

(* The user kills the client.                                              *)
Killed ==
  /\ halted = "no" /\ c_conn
  /\ Exit
  /\ UNCHANGED <<c2s, s2c, port, session, blocks, user, left, ahead, halted>>

-----------------------------------------------------------------------------
(* cmd_open, with the commands its author left in it: MKD between USER and *)
(* PASS and CWD behind them, whose replies it does not read.               *)
Open ==
  /\ ClientAt("prompt") /\ ~c_conn /\ spc = "idle" /\ opens > 0
  /\ c_conn' = TRUE /\ c2s' = << >> /\ s2c' = << >>
  /\ cpc' = "welcome"
  /\ spc' = "welcome1" /\ logged' = LOGGED_OUT
  /\ account' \in {"right", "wrong", "unknown"}
  /\ ahead' = 1
  /\ opens' = opens - 1
  /\ UNCHANGED <<port, job, need, c_data, left, transfer, blocks, halted>>

OpenScript ==
  \/ HearAny("welcome", "name") /\ UNCHANGED <<c_conn, c_data>>
  \/ /\ Say("name", Cmd("USER", "name"), 0, "user")
     /\ UNCHANGED <<port, user, c_data, left>>
  \/ HearAny("user", "mkd") /\ UNCHANGED <<c_conn, c_data>>
  \/ /\ Say("mkd", Cmd("MKD", "none"), 1, "password")
     /\ UNCHANGED <<port, user, c_data, left>>
  \/ /\ \E arg \in {"none", "name"} :
           /\ account = "right" => arg = "name"
           /\ Say("password", Cmd("PASS", arg), 0, "pass")
     /\ UNCHANGED <<port, user, c_data, left>>
  \/ HearAny("pass", "cwd") /\ UNCHANGED <<c_conn, c_data>>
  \/ /\ Say("cwd", Cmd("CWD", "name"), 1, "prompt")
     /\ UNCHANGED <<port, user, c_data, left>>

(* cd, pwd, rm, mkdir and rmdir send a command and read a reply.           *)
Simple == [verb : {"MKD", "RMD", "DELE"}, arg : {"none", "slash", "name"}]
          \cup {Cmd("CWD", "slash"), Cmd("CWD", "name"), Cmd("PWD", "none")}

UserCommand == left > 0 /\ left' = left - 1

SendSimple ==
  /\ UserCommand
  /\ \E command \in Simple : Say("prompt", command, 0, "reply")
  /\ UNCHANGED <<port, user, c_data>>

SimpleReply == HearAny("reply", "prompt") /\ UNCHANGED <<c_conn, c_data>>

(* cmd_close and cmd_exit.                                                 *)
SendQuit ==
  /\ UserCommand
  /\ \E to \in {"quit", "exit"} : Say("prompt", Cmd("QUIT", "none"), 0, to)
  /\ UNCHANGED <<port, user, c_data>>

QuitReply ==
  \/ /\ HearAny("quit", "prompt")
     /\ c_conn' = FALSE
     /\ UNCHANGED c_data
  \/ /\ Hear("exit")
     /\ Exit
     /\ UNCHANGED <<blocks, user, left>>

-----------------------------------------------------------------------------
(* ls, put and get begin with cmd_pasv, which reads one reply; unless that *)
(* is 227 the port is -1, the connection fails and the wrapper exits.      *)
SendPasv ==
  /\ UserCommand
  /\ Say("prompt", Cmd("PASV", "none"), 0, "pasv")
  /\ job' \in {"ls", "put", "get"}
  /\ UNCHANGED <<port, need, account, opens, c_data>>

(* Faulty variant: the reply code is not looked at.                        *)
PasvReplyUnchecked ==
  /\ Hear("pasv")
  /\ cpc' = "dial"
  /\ UNCHANGED <<c_conn, c_data, blocks, user, left>>

PasvReply ==
  /\ Hear("pasv")
  /\ \/ Heard(227) /\ cpc' = "dial" /\ UNCHANGED <<c_conn, c_data>>
     \/ ~Heard(227) /\ Exit
  /\ UNCHANGED <<blocks, user, left>>

(* The connection is made by the server's kernel, before Accept returns.   *)
(* ls reads one reply to a command that has two.                           *)
Dial ==
  /\ listening /\ backlog' = TRUE
  /\ c_data' = TRUE
  /\ \/ job = "ls" /\ \E arg \in {"none", "name"} : Say("dial", Cmd("LIST", arg), 1, "list")
     \/ job = "put" /\ Say("dial", Cmd("STOR", "name"), 0, "stor")
     \/ job = "get" /\ Say("dial", Cmd("SIZE", "name"), 0, "size")
  /\ UNCHANGED <<listening, data_open, user, left>>

(* The server accepted the data connection and has closed it.              *)
HungUp == ~data_open /\ ~backlog

(* The rest of cmd_ls: one recv() of the listing.                          *)
ListData ==
  /\ ClientAt("list")
  /\ blocks > 0 \/ HungUp
  /\ blocks' = 0 /\ c_data' = FALSE
  /\ cpc' = "listed"
  /\ UNCHANGED <<control, port, session, user, left, ahead, halted>>

ListReply == HearAny("listed", "prompt") /\ UNCHANGED <<c_conn, c_data>>

(* The rest of cmd_put.  When the reply is not 150 it returns, and leaves  *)
(* the connection open.                                                    *)
StorReply ==
  /\ Hear("stor")
  /\ cpc' = IF Heard(150) THEN "put" ELSE "prompt"
  /\ UNCHANGED <<c_conn, c_data, blocks, user, left>>

PutData ==
  /\ ClientAt("put")
  /\ c_data' = FALSE
  /\ cpc' = "stored"
  /\ UNCHANGED <<control, port, session, blocks, user, left, ahead, halted>>

PutReset ==
  /\ ClientAt("put") /\ HungUp
  /\ Exit
  /\ UNCHANGED <<c2s, s2c, port, session, blocks, user, left, ahead, halted>>

StoredReply == HearAny("stored", "prompt") /\ UNCHANGED <<c_conn, c_data>>

(* The rest of cmd_get.  When the reply is not 213 it returns, and leaves  *)
(* the connection open; 213 comes with the size of the file.               *)
SizeReply ==
  /\ Hear("size")
  /\ \/ Heard(213) /\ cpc' = "ask" /\ need' \in 0 .. MaxBlocks
     \/ ~Heard(213) /\ cpc' = "prompt" /\ UNCHANGED need
  /\ UNCHANGED <<c_conn, c_data, blocks, job, account, opens, left>>

SendRetr ==
  /\ Say("ask", Cmd("RETR", "name"), 0, "retr")
  /\ UNCHANGED <<port, user, c_data, left>>

RetrReply == HearAny("retr", "get") /\ UNCHANGED <<c_conn, c_data>>

(* Faulty variant: the loop reads on when the file is complete.            *)
GetDataPastEnd ==
  /\ ClientAt("get")
  /\ blocks > 0
  /\ blocks' = blocks - 1 /\ need' = need - 1
  /\ UNCHANGED <<control, port, session, cpc, job, account, opens, c_data, left,
                 ahead, halted>>

GetData ==
  /\ ClientAt("get")
  /\ need > 0 /\ blocks > 0
  /\ blocks' = blocks - 1 /\ need' = need - 1
  /\ UNCHANGED <<control, port, session, cpc, job, account, opens, c_data, left,
                 ahead, halted>>

(* recv() returns 0 and the loop goes on.                                  *)
Spinning == ClientAt("get") /\ need > 0 /\ blocks = 0 /\ HungUp

GetSpins == Spinning /\ UNCHANGED vars

GetEnds ==
  /\ ClientAt("get") /\ need = 0
  /\ cpc' = "got"
  /\ UNCHANGED <<control, port, session, blocks, user, c_data, left, ahead, halted>>

(* Blocks that were not read go with the connection.                       *)
GotReply ==
  /\ Hear("got")
  /\ cpc' = "prompt"
  /\ c_data' = FALSE /\ blocks' = 0
  /\ UNCHANGED <<c_conn, user, left>>

-----------------------------------------------------------------------------
(* The session.  A reply to a client that has closed is lost.              *)
Reply(codes) == s2c' = IF c_conn THEN s2c \o codes ELSE s2c

theirs == <<c_conn, client>>

Welcome ==
  /\ \/ ServerAt("welcome1") /\ spc' = "welcome2"
     \/ ServerAt("welcome2") /\ spc' = "command"
  /\ Reply(<<220>>)
  /\ UNCHANGED <<c2s, theirs, port, logged, transfer, blocks, ahead, halted>>

(* One recv() and split_cmds: of several commands the first is seen, with  *)
(* the words of the others for arguments.                                  *)
First(k) == IF k > 1 /\ c2s[1].arg = "none" THEN Cmd(c2s[1].verb, "name") ELSE c2s[1]

Receive(at, k) ==
  /\ ServerAt(at)
  /\ c2s' = Drop(c2s, k)

(* The replies a command may get that changes nothing here, 0 for none.    *)
Answers(command) ==
  IF logged = LOGGED_OUT THEN {530}
  ELSE CASE command.verb = "PWD"  -> {257}
         [] command.verb = "CWD"  -> IF command.arg = "none" THEN {150} ELSE {250, 550}
         [] command.verb = "DELE" -> IF command.arg = "none" THEN {550} ELSE {250, 550}
         [] command.verb = "SIZE" -> IF command.arg = "none" THEN {550} ELSE {213, 550}
         [] command.verb = "MKD" -> CASE command.arg = "none"  -> {550}
                                      [] command.arg = "slash" -> {0}
                                      [] OTHER                 -> {257, 550, 551}
         [] command.verb = "RMD" -> CASE command.arg = "none"  -> {550}
                                      [] command.arg = "slash" -> {0}
                                      [] OTHER                 -> {250, 550}
         [] command.verb \in {"LIST", "RETR", "STOR"} -> {503}
         [] OTHER -> {500}

Transfers(command) == command.verb \in {"LIST", "RETR", "STOR"} /\ data_open

Special(command) ==
  \/ command.verb = "USER"
  \/ /\ logged = LOGGED_ON
     /\ command.verb \in {"PASV", "QUIT"} \/ Transfers(command)

(* The commands of which the server takes k at once have one reply.        *)
Merged(k, answered) == ahead' = ahead - (k - 1) - (IF answered THEN 0 ELSE 1)

(* Faulty variant: a file that is not found is not answered.               *)
ServeDeleSilent ==
  /\ \E k \in 1 .. Len(c2s) :
       /\ Receive("command", k) /\ ~Special(First(k))
       /\ \E code \in Answers(First(k)) :
            LET silent == code = 0 \/ (First(k).verb = "DELE" /\ code = 550)
            IN  /\ IF silent THEN UNCHANGED s2c ELSE Reply(<<code>>)
                /\ Merged(k, code # 0)
  /\ UNCHANGED <<theirs, port, session, blocks, halted>>

Serve ==
  /\ \E k \in 1 .. Len(c2s) :
       /\ Receive("command", k) /\ ~Special(First(k))
       /\ \E code \in Answers(First(k)) :
            /\ IF code = 0 THEN UNCHANGED s2c ELSE Reply(<<code>>)
            /\ Merged(k, code # 0)
  /\ UNCHANGED <<theirs, port, session, blocks, halted>>

ServeUser ==
  /\ \E k \in 1 .. Len(c2s) :
       Receive("command", k) /\ First(k).verb = "USER" /\ Merged(k, TRUE)
  /\ Reply(<<331>>)
  /\ spc' = "password"
  /\ UNCHANGED <<theirs, port, logged, transfer, blocks, halted>>

db_get_user == account # "unknown"

(* An unknown user is told 530 and is logged on.  Without a password the   *)
(* session ends.                                                           *)
ServePass ==
  /\ \E k \in 1 .. Len(c2s) :
       /\ Receive("password", k) /\ First(k).verb = "PASS"
       /\ Merged(k, TRUE)
       /\ IF First(k).arg = "none"
          THEN spc' = "idle" /\ data_open' = FALSE /\ UNCHANGED logged
          ELSE /\ spc' = "command"
               /\ logged' = IF db_get_user /\ account = "wrong" THEN LOGGED_OUT
                            ELSE LOGGED_ON
               /\ UNCHANGED data_open
       /\ Reply(<<IF First(k).arg # "none" /\ account = "right" THEN 230 ELSE 530>>)
  /\ UNCHANGED <<theirs, listening, backlog, transfer, blocks, halted>>

(* Another command in the place of PASS is dropped, and answered only when *)
(* the session is not logged on.                                           *)
ServeNotPass ==
  /\ \E k \in 1 .. Len(c2s) :
       /\ Receive("password", k) /\ First(k).verb # "PASS"
       /\ Merged(k, logged = LOGGED_OUT)
  /\ IF logged = LOGGED_OUT THEN Reply(<<530>>) ELSE UNCHANGED s2c
  /\ spc' = "command"
  /\ UNCHANGED <<theirs, port, logged, transfer, blocks, halted>>

(* The loop ends: the listening socket stays, if there is one.             *)
EndSession ==
  /\ spc' = "idle"
  /\ data_open' = FALSE
  /\ UNCHANGED <<theirs, listening, backlog, logged, transfer, blocks, halted>>

ServeQuit ==
  /\ logged = LOGGED_ON
  /\ \E k \in 1 .. Len(c2s) :
       Receive("command", k) /\ First(k).verb = "QUIT" /\ Merged(k, TRUE)
  /\ Reply(<<221>>)
  /\ EndSession

Disconnected ==
  /\ ServerAt("command") /\ c2s = << >> /\ ~c_conn
  /\ EndSession
  /\ UNCHANGED <<c2s, s2c, ahead>>

ReceivePasv(k) ==
  /\ logged = LOGGED_ON
  /\ Receive("command", k) /\ First(k).verb = "PASV"

(* Faulty variant: 227 is sent when the connection has been accepted.      *)
ServePasvLate ==
  /\ ~listening
  /\ \E k \in 1 .. Len(c2s) : ReceivePasv(k) /\ Merged(k, TRUE)
  /\ listening' = TRUE
  /\ spc' = "accept"
  /\ UNCHANGED <<s2c, theirs, backlog, data_open, logged, transfer, blocks, halted>>

ServePasv ==
  /\ ~listening
  /\ \E k \in 1 .. Len(c2s) : ReceivePasv(k) /\ Merged(k, TRUE)
  /\ listening' = TRUE
  /\ Reply(<<227>>)
  /\ spc' = "accept"
  /\ UNCHANGED <<theirs, backlog, data_open, logged, transfer, blocks, halted>>

(* The port is taken, by the socket of an earlier PASV.                    *)
PasvClash ==
  /\ listening
  /\ \E k \in 1 .. Len(c2s) : ReceivePasv(k)
  /\ halted' = "port"
  /\ UNCHANGED <<s2c, theirs, port, session, blocks, ahead>>

(* Faulty variant: the connection is announced when it has been accepted,  *)
(* too.                                                                    *)
AcceptDataAnnounced ==
  /\ ServerAt("accept") /\ backlog
  /\ backlog' = FALSE /\ data_open' = TRUE
  /\ spc' = "command"
  /\ Reply(<<150>>)
  /\ UNCHANGED <<c2s, c_conn, client, listening, logged, transfer, blocks, ahead, halted>>

AcceptData ==
  /\ ServerAt("accept") /\ backlog
  /\ backlog' = FALSE /\ data_open' = TRUE
  /\ spc' = "command"
  /\ UNCHANGED <<control, client, listening, logged, transfer, blocks, ahead, halted>>

-----------------------------------------------------------------------------
(* LIST, RETR and STOR announce themselves before they look at the path.   *)
Announce(verb) ==
  /\ logged = LOGGED_ON
  /\ \E k \in 1 .. Len(c2s) :
       /\ Receive("command", k)
       /\ First(k).verb = verb /\ Transfers(First(k))
       /\ Merged(k, TRUE)
  /\ Reply(<<150>>)
  /\ UNCHANGED <<theirs, port, logged, blocks, halted>>

Outcome(work, n, code) == spc' = work /\ togo' = n /\ final' = code

NoSuchPath == Outcome("send", 0, 550)

ServeList ==
  /\ Announce("LIST")
  /\ NoSuchPath \/ \E rows \in 0 .. MaxBlocks : Outcome("send", rows, 226)

(* A file that cannot be opened has no last reply.  What is sent is what   *)
(* is on the disk, whatever size the client was told.                      *)
ServeRetr ==
  /\ Announce("RETR")
  /\ \/ NoSuchPath
     \/ Outcome("send", 0, 0)
     \/ \E n \in 0 .. MaxBlocks : Outcome("send", n, 226)

ServeStor ==
  /\ Announce("STOR")
  /\ NoSuchPath \/ Outcome("receive", 0, 226)

(* Send waits while the connection is full.  What the client has closed    *)
(* its end to is dropped.                                                  *)
SendBlock ==
  /\ ServerAt("send") /\ togo > 0
  /\ c_data => blocks < Capacity
  /\ togo' = togo - 1
  /\ blocks' = IF c_data THEN blocks + 1 ELSE blocks
  /\ UNCHANGED <<control, client, port, spc, logged, final, ahead, halted>>

(* Both sockets of PASV are closed.                                        *)
EndTransfer ==
  /\ \/ ServerAt("send") /\ togo = 0
     \/ ServerAt("receive") /\ ~c_data
  /\ IF final = 0 THEN UNCHANGED s2c ELSE Reply(<<final>>)
  /\ ahead' = IF final = 0 THEN ahead - 1 ELSE ahead
  /\ spc' = "command" /\ togo' = 0 /\ final' = 0
  /\ listening' = FALSE /\ data_open' = FALSE
  /\ UNCHANGED <<c2s, theirs, backlog, logged, blocks, halted>>

(* A send() or recv() meets a connection that the client has closed:       *)
(* SIGPIPE or ERROR_CHECK.                                                 *)
PeerReset ==
  /\ halted = "no"
  /\ \/ ~c_conn /\ spc \notin {"idle", "accept"}
     \/ ~c_data /\ spc = "send" /\ togo > 0
  /\ halted' = "peer"
  /\ UNCHANGED <<control, client, port, session, blocks, ahead>>

(* The result of recv() is not looked at while PASS is awaited.            *)
PassGone ==
  /\ ServerAt("password") /\ c2s = << >> /\ ~c_conn
  /\ halted' = "undefined"
  /\ UNCHANGED <<control, client, port, session, blocks, ahead>>

-----------------------------------------------------------------------------
ClientStep == \/ OpenScript \/ SimpleReply \/ QuitReply
              \/ PasvReply \/ Dial \/ ListData \/ ListReply
              \/ StorReply \/ PutData \/ StoredReply
              \/ SizeReply \/ SendRetr \/ RetrReply \/ GetData \/ GetSpins
              \/ GetEnds \/ GotReply

ServerStep == \/ Welcome \/ Serve \/ ServeUser \/ ServePass \/ ServeNotPass
              \/ ServeQuit \/ Disconnected \/ ServePasv \/ PasvClash
              \/ AcceptData \/ ServeList \/ ServeRetr \/ ServeStor
              \/ SendBlock \/ EndTransfer
              \/ PassGone

UserStep == Open \/ SendSimple \/ SendQuit \/ SendPasv

Next == ClientStep \/ ServerStep \/ UserStep \/ PutReset \/ PeerReset \/ Killed

SafeSpec == Init /\ [][Next]_vars

(* Both programs run on, and a user who opens a connection types a name    *)
(* and a password.  Nobody has to give the next command.                   *)
Spec == SafeSpec /\ WF_vars(ClientStep) /\ WF_vars(ServerStep)

-----------------------------------------------------------------------------
(* However far the replies had been out of step before, the 227 a client   *)
(* has read puts them in step: what it then reads in the place of the      *)
(* announcement of a transfer, or of the answer to SIZE, is that.          *)
AnnouncedInStep ==
  s2c # << >> => /\ cpc \in {"stor", "retr"} => s2c[1] = 150
                 /\ cpc = "size" => s2c[1] \in {213, 550}

(* A client that has read 227 finds the server in Accept and its own       *)
(* connection the only one, and no other waits while a transfer goes on.   *)
DataAgreed ==
  halted = "no" =>
    /\ cpc = "dial" => spc = "accept" /\ listening /\ ~backlog
    /\ spc \in {"send", "receive"} => listening /\ data_open
    /\ backlog => spc = "accept" /\ listening

(* The client has all the blocks it was told of and waits for 226, while   *)
(* the session waits for it to read the rest (client.c:193-202).           *)
MutualWait ==
  /\ cpc = "got" /\ s2c = << >>
  /\ spc = "send" /\ togo > 0 /\ blocks = Capacity

(* Every command of the user comes to its end, unless the server ended,    *)
(* the client counts on blocks that never come, the two wait for each      *)
(* other over a file that is longer than the client was told, or the       *)
(* replies that were swallowed (by a recv() of several, by MKD and RMD of  *)
(* "/", by a command in the place of PASS, by RETR of a file that cannot   *)
(* be opened) outweigh those the client did not wait for.                  *)
Busy == cpc \notin {"prompt", "exited"}

Answered ==
  Busy ~> (~Busy \/ halted # "no" \/ Spinning \/ MutualWait \/ ahead < 0)

(* The session comes out of Accept unless its client has exited: what made *)
(* the client exit was a stale reply in the place of 227 (client.c:27).    *)
AcceptEnds ==
  spc = "accept" ~> (spc # "accept" \/ cpc = "exited")

(* cmd_open, "log on to the ftp server" (client.c:49): when it has         *)
(* returned, the password was right and the server has done all it was     *)
(* sent, the session is logged on.                                         *)
OpenLogsOn ==
  cpc = "prompt" /\ c_conn /\ account = "right" /\ spc = "command" /\ c2s = << >>
    => logged = LOGGED_ON
=============================================================================

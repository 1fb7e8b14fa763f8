---------------------------- MODULE FtpLinkProofs ----------------------------
(***************************************************************************)
(* Proofs about the dialogue: from the moment PASV is sent the replies     *)
(* come back into step, and what holds while a transfer is set up.         *)
(***************************************************************************)
EXTENDS FtpLink, SequenceTheorems, TLAPS

(* A client that runs a command has the control connection.                *)
Connected == /\ cpc \notin {"prompt", "exited"} => c_conn
             /\ cpc = "exited" => ~c_conn /\ ~c_data

(* The sockets of PASV and the place of the session.                       *)
PortInv ==
  /\ spc = "accept" => listening /\ logged = LOGGED_ON
  /\ data_open => listening
  /\ spc \in {"send", "receive"} => data_open
  /\ backlog => spc = "accept"
  /\ togo # 0 => spc = "send"

(* Only the last command under way can be PASV, and commands that need a   *)
(* data connection are sent on the heels of PASV only.                     *)
CommandsInv ==
  \A i \in 1 .. Len(c2s) :
    /\ c2s[i].verb = "PASV" => i = Len(c2s) /\ cpc \in {"pasv", "exited"}
    /\ c2s[i].verb \in {"LIST", "STOR", "RETR"} =>
         cpc \in {"list", "stor", "retr", "exited"}

(* While 227 is under way nothing follows it and nothing was sent since    *)
(* PASV: the session waits for the connection.                             *)
EnteredInv ==
  \A i \in 1 .. Len(s2c) : s2c[i] = 227 =>
    /\ i = Len(s2c) /\ c2s = << >> /\ cpc \in {"pasv", "exited"}
    /\ spc = "accept" /\ ~backlog

(* The command sent when the client has connected is the only one under    *)
(* way, and no reply is.                                                   *)
Asked(verb) ==
  /\ Len(c2s) = 1 /\ c2s[1].verb = verb
  /\ c2s[1].arg = "none" => verb = "LIST"
  /\ s2c = << >> /\ blocks = 0
  /\ \/ spc = "accept" /\ backlog
     \/ spc = "command" /\ data_open
  /\ logged = LOGGED_ON

Announced == c2s = << >> /\ s2c # << >> /\ s2c[1] = 150

Prepared ==
  c2s = << >> /\ spc = "command" /\ data_open /\ logged = LOGGED_ON

(* From reading 227 to the announcement of the transfer.                   *)
InStep ==
  /\ cpc = "dial" => c2s = << >> /\ s2c = << >> /\ spc = "accept" /\ ~backlog
  /\ cpc = "list" => Asked("LIST") \/ c2s = << >>
  /\ cpc = "stor" => Asked("STOR") \/ Announced
  /\ cpc = "size" => Asked("SIZE") \/ (Prepared /\ s2c \in {<<213>>, <<550>>})
  /\ cpc = "ask" => Prepared /\ s2c = << >>
  /\ cpc = "retr" => Asked("RETR") \/ Announced

(* The blocks a client that is connected may still get.                    *)
Due == IF cpc \in {"list", "retr", "get", "got"} THEN MaxBlocks ELSE 0

BlocksInv ==
  /\ c_data => blocks + togo <= Due
  /\ ~c_data => blocks = 0 \/ cpc = "exited"

(* The inductive invariant.                                                *)
LinkInv == /\ TypeOK /\ Connected /\ PortInv /\ CommandsInv /\ EnteredInv
           /\ InStep /\ BlocksInv

-----------------------------------------------------------------------------
(* What is left of a queue, and a queue with one more.                     *)
LEMMA DropFacts ==
  ASSUME NEW S, NEW q \in Seq(S), NEW k \in 0 .. Len(q)
  PROVE  /\ Drop(q, k) \in Seq(S) /\ Len(Drop(q, k)) = Len(q) - k
         /\ \A i \in 1 .. Len(Drop(q, k)) : i + k \in 1 .. Len(q) /\ Drop(q, k)[i] = q[i + k]
         /\ k = Len(q) => Drop(q, k) = << >>
<1>1. Drop(q, k) \in Seq(S) /\ Len(Drop(q, k)) = Len(q) - k
      /\ \A i \in 1 .. Len(q) - k : Drop(q, k)[i] = q[i + k]
  <2>1. Len(q) \in Nat /\ k + 1 \in 1 .. Len(q) + 1
    BY LenProperties
  <2> QED
    BY <2>1 DEF Drop
<1>2. k = Len(q) => Drop(q, k) = << >>
  BY <1>1, EmptySeq
<1> QED
  BY <1>1, <1>2, LenProperties

LEMMA AppendFacts ==
  ASSUME NEW S, NEW q \in Seq(S), NEW x \in S
  PROVE  /\ Append(q, x) \in Seq(S) /\ Len(Append(q, x)) = Len(q) + 1
         /\ \A i \in 1 .. Len(q) + 1 : Append(q, x)[i] = IF i = Len(q) + 1 THEN x ELSE q[i]
         /\ q \o <<x>> = Append(q, x)
OBVIOUS

(* A reply is lost or the last under way.                                  *)
LEMMA ReplyFacts ==
  ASSUME s2c \in Seq(Code), NEW x \in Code, Reply(<<x>>)
  PROVE  /\ s2c' \in Seq(Code)
         /\ s2c' = s2c \/ (c_conn /\ s2c' = Append(s2c, x))
BY AppendFacts DEF Reply

-----------------------------------------------------------------------------
(* Commands that have nothing to do with the data connection.              *)
Plain(q) == \A i \in 1 .. Len(q) : q[i].verb \notin {"PASV", "LIST", "STOR", "RETR"}

Unentered(q) == \A i \in 1 .. Len(q) : q[i] # 227

Free(label) == label \notin {"pasv", "dial", "list", "stor", "size", "ask", "retr", "exited"}

LEMMA FreeFacts ==
  ASSUME LinkInv
  PROVE  /\ Free(cpc) \/ cpc \in {"dial", "size", "ask"} => Plain(c2s)
         /\ cpc \notin {"pasv", "exited"} \/ c2s # << >> \/ spc # "accept" \/ backlog
              => Unentered(s2c)
BY DEF LinkInv, CommandsInv, EnteredInv, Plain, Unentered, Free

LEMMA DropPlain ==
  ASSUME NEW q \in Seq(Command), NEW k \in 0 .. Len(q), Plain(q)
  PROVE  Plain(Drop(q, k))
BY ZenonT(60), DropFacts DEF Plain

LEMMA DropUnentered ==
  ASSUME NEW q \in Seq(Code), NEW k \in 0 .. Len(q), Unentered(q)
  PROVE  Unentered(Drop(q, k))
<1>1. \A i \in 1 .. Len(Drop(q, k)) : i + k \in 1 .. Len(q) /\ Drop(q, k)[i] = q[i + k]
  BY DropFacts
<1> QED
  BY <1>1 DEF Unentered

LEMMA ReplyUnentered ==
  ASSUME s2c \in Seq(Code), Unentered(s2c), NEW x \in Code \ {227}, Reply(<<x>>)
  PROVE  Unentered(s2c')
BY SMTT(30), ReplyFacts, AppendFacts DEF Unentered

(* A step of either side that leaves the client where nothing is expected  *)
(* of the data connection.                                                 *)
LEMMA FreeStep ==
  ASSUME TypeOK', Connected', PortInv', BlocksInv',
         Plain(c2s'), Unentered(s2c'), Free(cpc')
  PROVE  LinkInv'
BY DEF LinkInv, CommandsInv, EnteredInv, InStep, Plain, Unentered, Free

(* The server takes commands while the client is not setting a transfer    *)
(* up.                                                                     *)
LEMMA TakeStep ==
  ASSUME LinkInv, TypeOK', Connected', PortInv', BlocksInv', cpc' = cpc,
         cpc \notin {"dial", "list", "stor", "size", "ask", "retr"},
         Unentered(s2c'), NEW k \in 0 .. Len(c2s), c2s' = Drop(c2s, k)
  PROVE  LinkInv'
<1>1. CommandsInv'
  <2>1. c2s \in Seq(Command) /\ Len(c2s) \in Nat
    BY LenProperties DEF LinkInv, TypeOK
  <2>2. /\ Len(c2s') = Len(c2s) - k
        /\ \A i \in 1 .. Len(c2s') : i + k \in 1 .. Len(c2s) /\ c2s'[i] = c2s[i + k]
    BY ZenonT(60), <2>1, DropFacts
  <2> QED
    BY SMTT(30), <2>1, <2>2 DEF LinkInv, CommandsInv
<1> QED
  BY <1>1 DEF LinkInv, EnteredInv, Unentered, InStep

-----------------------------------------------------------------------------
(* The client.                                                             *)
LEMMA HearFacts ==
  ASSUME LinkInv, NEW from, Hear(from)
  PROVE  /\ cpc = from /\ halted = "no"
         /\ \E k \in 0 .. Len(s2c) : /\ s2c' = Drop(s2c, k)
                                     /\ k > 0 \/ (s2c = << >> /\ spc = "idle")
         /\ s2c' \in Seq(Code) /\ ahead' \in Int
         /\ Unentered(s2c) => Unentered(s2c')
         /\ UNCHANGED <<c2s, port, session, halted>>
<1>1. s2c \in Seq(Code) /\ Len(s2c) \in Nat /\ ahead \in Int
  BY LenProperties DEF LinkInv, TypeOK
<1>2. PICK k \in 0 .. Len(s2c) :
        /\ \/ k > 0 /\ ahead' = ahead - (k - 1)
           \/ s2c = << >> /\ spc = "idle" /\ UNCHANGED ahead
        /\ s2c' = Drop(s2c, k)
  BY DEF Hear
<1>3. s2c' \in Seq(Code) /\ (Unentered(s2c) => Unentered(s2c'))
  BY <1>1, <1>2, DropFacts, DropUnentered
<1>4. ahead' \in Int
  BY <1>1, <1>2
<1> QED
  BY <1>2, <1>3, <1>4 DEF Hear, ClientAt

(* The client reads a reply where nothing depends on what it is.           *)
LEMMA QuietHear ==
  ASSUME LinkInv, NEW from, Hear(from), Free(from), from \notin {"get", "prompt"},
         cpc' \in ClientLabel, Free(cpc'), cpc' \notin {"get", "got"},
         c_conn' \in BOOLEAN, c_conn' = c_conn \/ cpc' = "prompt",
         c_data' \in {c_data, FALSE},
         \/ from # "got" /\ UNCHANGED blocks
         \/ c_data' = FALSE /\ blocks' = 0,
         UNCHANGED <<user, left>>
  PROVE  LinkInv'
<1> USE DEF LinkInv
<1>1. /\ cpc = from /\ s2c' \in Seq(Code) /\ ahead' \in Int
      /\ Unentered(s2c) => Unentered(s2c')
      /\ UNCHANGED <<c2s, port, session, halted>>
  BY HearFacts
<1>2. TypeOK'
  <2>1. c_conn' \in BOOLEAN /\ c_data' \in BOOLEAN
    BY DEF TypeOK
  <2>2. blocks' \in 0 .. MaxBlocks
    BY LinkAssumption DEF TypeOK
  <2> QED
    BY <1>1, <2>1, <2>2 DEF TypeOK, port, session, transfer, user
<1>3. Connected' /\ PortInv'
  BY <1>1 DEF Connected, PortInv, port, session, transfer, Free
<1>4. BlocksInv'
  <2>1. CASE c_data' = FALSE /\ blocks' = 0
    BY <2>1 DEF BlocksInv
  <2>2. CASE from # "got" /\ UNCHANGED blocks
    <3>1. Due = 0 /\ Due' = 0
      BY <1>1, <2>2 DEF Due, Free
    <3>2. blocks = 0 /\ (c_data => togo = 0)
      BY <1>1, <3>1 DEF BlocksInv, Free, TypeOK
    <3>3. c_data' => c_data
      OBVIOUS
    <3>4. blocks' = 0 /\ togo' = togo
      BY <1>1, <2>2, <3>2 DEF session, transfer
    <3> QED
      BY <3>1, <3>2, <3>3, <3>4 DEF BlocksInv
  <2> QED
    BY <2>1, <2>2
<1>5. Plain(c2s') /\ Unentered(s2c')
  BY <1>1, FreeFacts DEF Free
<1> QED
  BY <1>2, <1>3, <1>4, <1>5, FreeStep

(* The client exits.                                                       *)
LEMMA ExitStep ==
  ASSUME LinkInv, Exit, UNCHANGED <<c2s, port, session, blocks, user, left, halted>>,
         ahead' \in Int, NEW k \in 0 .. Len(s2c), s2c' = s2c \/ s2c' = Drop(s2c, k)
  PROVE  LinkInv'
<1> USE DEF LinkInv
<1>1. s2c \in Seq(Code) /\ Len(s2c) \in Nat
  BY LenProperties DEF TypeOK
<1>2. s2c' \in Seq(Code)
  BY <1>1, DropFacts
<1>3. TypeOK'
  <2>1. c_conn' \in BOOLEAN /\ c_data' \in BOOLEAN /\ cpc' \in ClientLabel
    BY DEF Exit, ClientLabel
  <2> QED
    BY <1>2, <2>1 DEF TypeOK, port, session, transfer, user
<1>4. Connected' /\ PortInv' /\ CommandsInv' /\ InStep' /\ BlocksInv'
  BY DEF Connected, PortInv, CommandsInv, InStep, BlocksInv, Exit, port, session, transfer
<1>5. EnteredInv'
  <2>1. CASE s2c' = s2c
    BY <2>1 DEF EnteredInv, Exit, port, session, transfer
  <2>2. CASE s2c' = Drop(s2c, k)
    <3>1. /\ Len(s2c') = Len(s2c) - k
          /\ \A i \in 1 .. Len(s2c') : i + k \in 1 .. Len(s2c) /\ s2c'[i] = s2c[i + k]
      BY <1>1, <2>2, DropFacts
    <3> QED
      BY <1>1, <3>1 DEF EnteredInv, Exit, port, session, transfer
  <2> QED
    BY <2>1, <2>2
<1> QED
  BY <1>3, <1>4, <1>5

LEMMA SayFacts ==
  ASSUME LinkInv, NEW from, NEW command \in Command, NEW more \in Int, NEW to,
         Say(from, command, more, to)
  PROVE  /\ cpc = from /\ cpc' = to /\ c_conn /\ halted = "no"
         /\ c2s' = Append(c2s, command) /\ c2s' \in Seq(Command)
         /\ Len(c2s') = Len(c2s) + 1 /\ Len(c2s) \in Nat
         /\ \A i \in 1 .. Len(c2s) + 1 : c2s'[i] = IF i = Len(c2s) + 1 THEN command ELSE c2s[i]
         /\ ahead' \in Int
         /\ UNCHANGED <<s2c, c_conn, session, blocks, halted>>
<1>1. c2s \in Seq(Command) /\ Len(c2s) \in Nat /\ ahead \in Int
  BY LenProperties DEF LinkInv, TypeOK
<1> QED
  BY <1>1, AppendFacts DEF Say, ClientAt

(* The client sends a command for which it needs no data connection.       *)
LEMMA QuietSay ==
  ASSUME LinkInv, NEW from, NEW command \in Command, NEW more \in Int, NEW to \in ClientLabel,
         Say(from, command, more, to), Free(from), Free(to),
         {from, to} \cap {"get", "got"} = {},
         to # "prompt" \/ from # "prompt",
         command.verb \notin {"PASV", "LIST", "STOR", "RETR"},
         UNCHANGED <<port, user, c_data>>, left' \in 0 .. MaxCommands
  PROVE  LinkInv'
<1> USE DEF LinkInv
<1>1. /\ cpc = from /\ cpc' = to /\ c_conn
      /\ c2s' \in Seq(Command) /\ Len(c2s') = Len(c2s) + 1 /\ Len(c2s) \in Nat
      /\ \A i \in 1 .. Len(c2s) + 1 : c2s'[i] = IF i = Len(c2s) + 1 THEN command ELSE c2s[i]
      /\ ahead' \in Int
      /\ UNCHANGED <<s2c, c_conn, session, blocks, halted>>
  BY SayFacts
<1>2. TypeOK'
  BY <1>1 DEF TypeOK, port, session, transfer, user
<1>3. Connected' /\ PortInv'
  BY <1>1 DEF Connected, PortInv, port, session, transfer, Free
<1>4. BlocksInv'
  BY <1>1 DEF BlocksInv, Due, Free, TypeOK, port, session, transfer, user
<1>5. Plain(c2s) /\ Unentered(s2c)
  BY <1>1, FreeFacts DEF Free
<1>6. Plain(c2s') /\ Unentered(s2c')
  BY <1>1, <1>5 DEF Plain
<1> QED
  BY <1>1, <1>2, <1>3, <1>4, <1>6, FreeStep

LEMMA OpenKeeps == ASSUME LinkInv, Open PROVE LinkInv'
<1> USE DEF LinkInv
<1>1. /\ c2s' = << >> /\ s2c' = << >> /\ cpc = "prompt" /\ cpc' = "welcome"
      /\ c_conn' = TRUE /\ spc = "idle" /\ spc' = "welcome1"
      /\ UNCHANGED <<port, c_data, transfer, blocks, need>>
  BY DEF Open, ClientAt
<1>2. c2s' \in Seq(Command) /\ s2c' \in Seq(Code) /\ Plain(c2s') /\ Unentered(s2c')
  BY <1>1, EmptySeq DEF Plain, Unentered
<1>3. TypeOK'
  <2>1. opens' \in 0 .. MaxOpens
    BY LinkAssumption DEF Open, TypeOK
  <2> QED
    BY <1>1, <1>2, <2>1 DEF Open, TypeOK, port, transfer, ClientLabel
<1>4. Connected' /\ PortInv'
  BY <1>1 DEF Connected, PortInv, port, transfer
<1>5. BlocksInv'
  BY <1>1 DEF BlocksInv, Due, transfer
<1> QED
  BY <1>1, <1>2, <1>3, <1>4, <1>5, FreeStep DEF Free

LEMMA OpenScriptKeeps == ASSUME LinkInv, OpenScript PROVE LinkInv'
<1>1. left \in 0 .. MaxCommands /\ c_conn \in BOOLEAN
  BY DEF LinkInv, TypeOK
<1>2. CASE \E from \in {"welcome", "user", "pass"} : \E to \in {"name", "mkd", "cwd"} :
             HearAny(from, to) /\ UNCHANGED <<c_conn, c_data>>
  BY <1>1, <1>2, QuietHear DEF HearAny, Free, ClientLabel
<1>3. CASE \E from \in {"name", "mkd", "password", "cwd"} :
           \E to \in {"user", "password", "pass", "prompt"} :
           \E verb \in {"USER", "MKD", "PASS", "CWD"} : \E arg \in {"none", "name"} :
           \E more \in {0, 1} : /\ Say(from, Cmd(verb, arg), more, to)
                                /\ UNCHANGED <<port, user, c_data, left>>
  <2>1. PICK from \in {"name", "mkd", "password", "cwd"},
             to \in {"user", "password", "pass", "prompt"},
             command \in Command, more \in {0, 1} :
          /\ Say(from, command, more, to) /\ UNCHANGED <<port, user, c_data, left>>
          /\ command.verb \notin {"PASV", "LIST", "STOR", "RETR"}
    BY <1>3 DEF Cmd, Command, Verb
  <2> QED
    BY <1>1, <2>1, QuietSay DEF Free, ClientLabel
<1> QED
  BY <1>2, <1>3 DEF OpenScript

LEMMA SimpleKeeps ==
  ASSUME LinkInv, SendSimple \/ SimpleReply \/ ListReply \/ StoredReply \/ GotReply
  PROVE  LinkInv'
<1>1. left \in 0 .. MaxCommands /\ c_conn \in BOOLEAN
  BY DEF LinkInv, TypeOK
<1>2. CASE SendSimple
  <2>1. PICK command \in Simple : Say("prompt", command, 0, "reply")
    BY <1>2 DEF SendSimple
  <2>2. command \in Command /\ command.verb \notin {"PASV", "LIST", "STOR", "RETR"}
    BY DEF Simple, Command, Verb, Cmd
  <2>3. left' \in 0 .. MaxCommands /\ UNCHANGED <<port, user, c_data>>
    BY <1>1, <1>2, LinkAssumption DEF SendSimple, UserCommand
  <2> QED
    BY <2>1, <2>2, <2>3, QuietSay DEF Free, ClientLabel
<1>3. CASE SimpleReply \/ ListReply \/ StoredReply
  <2>1. PICK from \in {"reply", "listed", "stored"} : HearAny(from, "prompt")
    BY <1>3 DEF SimpleReply, ListReply, StoredReply
  <2>2. UNCHANGED <<c_conn, c_data>>
    BY <1>3 DEF SimpleReply, ListReply, StoredReply
  <2> QED
    BY <1>1, <2>1, <2>2, QuietHear DEF HearAny, Free, ClientLabel
<1>4. CASE GotReply
  BY <1>1, <1>4, QuietHear DEF GotReply, Free, ClientLabel
<1> QED
  BY <1>2, <1>3, <1>4

LEMMA QuitKeeps == ASSUME LinkInv, SendQuit \/ QuitReply PROVE LinkInv'
<1>1. left \in 0 .. MaxCommands /\ c_conn \in BOOLEAN
  BY DEF LinkInv, TypeOK
<1>2. CASE SendQuit
  <2> DEFINE command == Cmd("QUIT", "none")
  <2>1. PICK to \in {"quit", "exit"} : Say("prompt", command, 0, to)
    BY <1>2 DEF SendQuit
  <2>2. command \in Command /\ command.verb \notin {"PASV", "LIST", "STOR", "RETR"}
    BY DEF Command, Verb, Cmd
  <2> HIDE DEF command
  <2>3. left' \in 0 .. MaxCommands /\ UNCHANGED <<port, user, c_data>>
    BY <1>1, <1>2, LinkAssumption DEF SendQuit, UserCommand
  <2> QED
    BY <2>1, <2>2, <2>3, QuietSay DEF Free, ClientLabel
<1>3. CASE HearAny("quit", "prompt") /\ c_conn' = FALSE /\ UNCHANGED c_data
  BY <1>1, <1>3, QuietHear DEF HearAny, Free, ClientLabel
<1>4. CASE Hear("exit") /\ Exit /\ UNCHANGED <<blocks, user, left>>
  <2>1. /\ UNCHANGED <<c2s, port, session, blocks, halted>> /\ ahead' \in Int
        /\ \E k \in 0 .. Len(s2c) : s2c' = Drop(s2c, k)
    BY <1>4, HearFacts
  <2> QED
    BY <1>4, <2>1, ExitStep
<1> QED
  BY <1>2, <1>3, <1>4 DEF QuitReply

(* A client that is killed, or whose data connection is reset.             *)
LEMMA GoneKeeps == ASSUME LinkInv, Killed \/ PutReset PROVE LinkInv'
<1>1. /\ Exit /\ s2c' = s2c /\ ahead' \in Int
      /\ UNCHANGED <<c2s, port, session, blocks, user, left, halted>>
  BY DEF Killed, PutReset, LinkInv, TypeOK
<1>2. 0 \in 0 .. Len(s2c)
  BY LenProperties DEF LinkInv, TypeOK
<1> QED
  BY <1>1, <1>2, ExitStep

-----------------------------------------------------------------------------
(* From PASV to the transfer: the client's part.                           *)
LEMMA SendPasvKeeps == ASSUME LinkInv, SendPasv PROVE LinkInv'
<1> USE DEF LinkInv
<1> DEFINE command == Cmd("PASV", "none")
<1>1. PICK from \in {"prompt"}, to \in {"pasv"}, more \in Int :
        Say(from, command, more, to)
  BY DEF SendPasv
<1>2. command \in Command /\ command.verb = "PASV"
  BY DEF Command, Verb, Cmd
<1> HIDE DEF command
<1>3. /\ cpc = "prompt" /\ cpc' = "pasv" /\ c_conn
      /\ c2s' \in Seq(Command) /\ Len(c2s') = Len(c2s) + 1 /\ Len(c2s) \in Nat
      /\ \A i \in 1 .. Len(c2s) + 1 : c2s'[i] = IF i = Len(c2s) + 1 THEN command ELSE c2s[i]
      /\ ahead' \in Int
      /\ UNCHANGED <<s2c, c_conn, session, blocks, halted>>
  <2>1. /\ cpc = from /\ cpc' = to /\ c_conn
        /\ c2s' \in Seq(Command) /\ Len(c2s') = Len(c2s) + 1 /\ Len(c2s) \in Nat
        /\ \A i \in 1 .. Len(c2s) + 1 : c2s'[i] = IF i = Len(c2s) + 1 THEN command ELSE c2s[i]
        /\ ahead' \in Int
        /\ UNCHANGED <<s2c, c_conn, session, blocks, halted>>
    BY <1>1, <1>2, SayFacts
  <2> QED
    BY <1>1, <2>1
<1>4. UNCHANGED <<port, need, account, opens, c_data>>
  BY DEF SendPasv
<1>5. TypeOK'
  <2>1. left' \in 0 .. MaxCommands /\ job' \in {"ls", "put", "get"}
    BY LinkAssumption DEF SendPasv, UserCommand, TypeOK
  <2> QED
    BY <1>3, <1>4, <2>1 DEF TypeOK, port, session, transfer, ClientLabel
<1>6. Connected' /\ PortInv' /\ InStep'
  BY <1>3, <1>4 DEF Connected, PortInv, InStep, port, session, transfer
<1>7. BlocksInv'
  BY <1>3, <1>4 DEF BlocksInv, Due, port, session, transfer
<1>8. Plain(c2s) /\ Unentered(s2c)
  BY <1>3, FreeFacts DEF Free
<1>9. CommandsInv'
  BY <1>2, <1>3, <1>8 DEF CommandsInv, Plain
<1>10. EnteredInv'
  BY <1>3, <1>8 DEF EnteredInv, Unentered
<1> QED
  BY <1>5, <1>6, <1>7, <1>9, <1>10

(* A client that reads 227 has read all there was.                         *)
LEMMA PasvReplyKeeps == ASSUME LinkInv, PasvReply PROVE LinkInv'
<1> USE DEF LinkInv
<1>1. /\ cpc = "pasv" /\ s2c' \in Seq(Code) /\ ahead' \in Int
      /\ UNCHANGED <<c2s, port, session, blocks, halted>>
  BY HearFacts DEF PasvReply
<1>2. PICK k \in 0 .. Len(s2c) : s2c' = Drop(s2c, k) /\ (k > 0 \/ s2c = << >>)
  BY HearFacts DEF PasvReply
<1>3. CASE Exit
  BY <1>1, <1>2, <1>3, ExitStep DEF PasvReply
<1>4. CASE Heard(227) /\ cpc' = "dial" /\ UNCHANGED <<c_conn, c_data>>
  <2>1. Len(s2c) \in Nat /\ Len(s2c) >= 1 /\ s2c[1] = 227
    BY <1>4, LenProperties DEF Heard, TypeOK
  <2>2. Len(s2c) = 1 /\ c2s = << >> /\ spc = "accept" /\ ~backlog
    <3>1. 1 \in 1 .. Len(s2c)
      BY <2>1
    <3> QED
      BY <2>1, <3>1 DEF EnteredInv
  <2>3. s2c' = << >>
    <3>1. k = Len(s2c)
      BY <1>2, <1>4, <2>1, <2>2 DEF Heard
    <3> QED
      BY <1>2, <3>1, DropFacts DEF TypeOK
  <2>4. TypeOK'
    BY <1>1, <1>4 DEF PasvReply, TypeOK, port, session, transfer, user, ClientLabel
  <2>5. Connected' /\ PortInv' /\ InStep' /\ CommandsInv' /\ EnteredInv'
    BY <1>1, <1>4, <2>2, <2>3 DEF Connected, PortInv, InStep, CommandsInv, EnteredInv, port,
       session, transfer
  <2>6. BlocksInv'
    BY <1>1, <1>4 DEF BlocksInv, Due, port, session, transfer
  <2> QED
    BY <2>4, <2>5, <2>6
<1> QED
  BY <1>3, <1>4 DEF PasvReply

LEMMA DialKeeps == ASSUME LinkInv, Dial PROVE LinkInv'
<1> USE DEF LinkInv
<1>1. PICK from \in {"dial"}, command \in Command, to \in {"list", "stor", "size"},
           more \in Int :
        /\ Say(from, command, more, to)
        /\ command.verb = CASE to = "list" -> "LIST"
                            [] to = "stor" -> "STOR"
                            [] OTHER -> "SIZE"
        /\ command.arg = "none" => to = "list"
  BY DEF Dial, Command, Verb, Cmd
<1>2. /\ cpc = "dial" /\ cpc' = to /\ c_conn
      /\ c2s' \in Seq(Command) /\ Len(c2s') = Len(c2s) + 1 /\ Len(c2s) \in Nat
      /\ \A i \in 1 .. Len(c2s) + 1 : c2s'[i] = IF i = Len(c2s) + 1 THEN command ELSE c2s[i]
      /\ ahead' \in Int
      /\ UNCHANGED <<s2c, c_conn, session, blocks, halted>>
  <2>1. /\ cpc = from /\ cpc' = to /\ c_conn
        /\ c2s' \in Seq(Command) /\ Len(c2s') = Len(c2s) + 1 /\ Len(c2s) \in Nat
        /\ \A i \in 1 .. Len(c2s) + 1 : c2s'[i] = IF i = Len(c2s) + 1 THEN command ELSE c2s[i]
        /\ ahead' \in Int
        /\ UNCHANGED <<s2c, c_conn, session, blocks, halted>>
    BY <1>1, SayFacts
  <2> QED
    BY <1>1, <2>1
<1>3. /\ listening /\ backlog' = TRUE /\ c_data' = TRUE
      /\ UNCHANGED <<listening, data_open, user, left>>
  BY DEF Dial
<1>4. c2s = << >> /\ s2c = << >> /\ spc = "accept" /\ togo = 0 /\ blocks = 0
  <2>1. c2s = << >> /\ s2c = << >> /\ spc = "accept" /\ togo = 0
    BY <1>2 DEF InStep, PortInv
  <2>2. blocks = 0
    BY <1>2, <2>1 DEF BlocksInv, Due, TypeOK
  <2> QED
    BY <2>1, <2>2
<1>5. Len(c2s') = 1 /\ c2s'[1] = command
  BY <1>2, <1>4
<1>6. TypeOK'
  BY <1>2, <1>3 DEF TypeOK, session, transfer, user, ClientLabel
<1>7. Connected' /\ PortInv'
  BY <1>2, <1>3, <1>4 DEF Connected, PortInv, session, transfer
<1>8. CommandsInv' /\ EnteredInv'
  BY <1>1, <1>2, <1>4, <1>5 DEF CommandsInv, EnteredInv
<1>9. InStep'
  BY <1>1, <1>2, <1>3, <1>4, <1>5 DEF InStep, Asked, PortInv, session
<1>10. BlocksInv'
  <2>1. Due' \in Nat
    BY <1>2, LinkAssumption DEF Due
  <2> QED
    BY <1>2, <1>3, <1>4, <2>1 DEF BlocksInv, session, transfer
<1> QED
  BY <1>6, <1>7, <1>8, <1>9, <1>10

LEMMA EmptyFacts ==
  /\ << >> \in Seq(Command) /\ << >> \in Seq(Code)
  /\ Plain(<< >>) /\ Unentered(<< >>)
BY EmptySeq DEF Plain, Unentered

LEMMA ListDataKeeps == ASSUME LinkInv, ListData PROVE LinkInv'
<1> USE DEF LinkInv
<1>1. /\ cpc = "list" /\ cpc' = "listed" /\ blocks' = 0 /\ c_data' = FALSE
      /\ blocks > 0 \/ HungUp
      /\ UNCHANGED <<control, port, session, user, left, ahead, halted>>
  BY DEF ListData, ClientAt
<1>2. c2s = << >>
  BY <1>1 DEF InStep, Asked, HungUp
<1>3. Unentered(s2c)
  BY <1>1, FreeFacts
<1>4. TypeOK'
  <2>1. blocks' \in 0 .. MaxBlocks
    BY <1>1, LinkAssumption
  <2>2. c_data' \in BOOLEAN
    BY <1>1
  <2>3. cpc' \in ClientLabel
    BY <1>1 DEF ClientLabel
  <2> QED
    BY <1>1, <2>1, <2>2, <2>3 DEF TypeOK, control, port, session, transfer, user
<1>5. Connected' /\ PortInv' /\ BlocksInv'
  BY <1>1 DEF Connected, PortInv, BlocksInv, control, port, session, transfer
<1> QED
  BY <1>1, <1>2, <1>3, <1>4, <1>5, FreeStep, EmptyFacts DEF control, Free

(* At "stor" and "retr" the client reads nothing but the announcement.     *)
LEMMA AnnouncementRead ==
  ASSUME LinkInv, NEW from \in {"stor", "retr"}, Hear(from)
  PROVE  Announced
<1>1. cpc = from /\ (s2c # << >> \/ spc = "idle")
  <2>1. PICK k \in 0 .. Len(s2c) : k > 0 \/ (s2c = << >> /\ spc = "idle")
    BY HearFacts
  <2>2. s2c = << >> => Len(s2c) = 0
    BY EmptySeq
  <2> QED
    BY <2>1, <2>2, HearFacts
<1> QED
  BY <1>1 DEF LinkInv, InStep, Asked

LEMMA AnnouncedKeeps == ASSUME LinkInv, StorReply \/ RetrReply PROVE LinkInv'
<1> USE DEF LinkInv
<1>1. PICK from \in {"stor", "retr"} : Hear(from)
  BY DEF StorReply, RetrReply, HearAny
<1>2. /\ cpc = from /\ s2c' \in Seq(Code) /\ ahead' \in Int
      /\ Unentered(s2c) => Unentered(s2c')
      /\ UNCHANGED <<c2s, port, session, halted>>
  BY <1>1, HearFacts
<1>3. c2s = << >> /\ Unentered(s2c) /\ Heard(150)
  BY <1>1, <1>2, AnnouncementRead, FreeFacts DEF Announced, Heard
<1>4. /\ cpc' = IF from = "stor" THEN "put" ELSE "get"
      /\ UNCHANGED <<c_conn, c_data, blocks, user, left>>
  <2>1. from = "stor" => StorReply
    BY <1>2 DEF RetrReply, HearAny, Hear, ClientAt
  <2>2. from = "retr" => RetrReply
    BY <1>2 DEF StorReply, Hear, ClientAt
  <2> QED
    BY <1>3, <2>1, <2>2 DEF StorReply, RetrReply, HearAny
<1>5. TypeOK'
  BY <1>2, <1>4 DEF TypeOK, port, session, transfer, user, ClientLabel
<1>6. Connected' /\ PortInv'
  BY <1>2, <1>4 DEF Connected, PortInv, port, session, transfer
<1>7. BlocksInv'
  <2>1. Due' = Due
    BY <1>2, <1>4 DEF Due
  <2> QED
    BY <1>2, <1>4, <2>1 DEF BlocksInv, session, transfer
<1> QED
  BY <1>2, <1>3, <1>4, <1>5, <1>6, <1>7, FreeStep, EmptyFacts DEF Free

LEMMA SizeReplyKeeps == ASSUME LinkInv, SizeReply PROVE LinkInv'
<1> USE DEF LinkInv
<1>1. /\ cpc = "size" /\ s2c' \in Seq(Code) /\ ahead' \in Int
      /\ Unentered(s2c) => Unentered(s2c')
      /\ UNCHANGED <<c2s, port, session, blocks, halted>>
  BY HearFacts DEF SizeReply
<1>2. PICK k \in 0 .. Len(s2c) : s2c' = Drop(s2c, k) /\ (k > 0 \/ (s2c = << >> /\ spc = "idle"))
  BY HearFacts DEF SizeReply
<1>3. Prepared /\ s2c \in {<<213>>, <<550>>}
  <2>1. s2c # << >> \/ spc = "idle"
    BY <1>2, EmptySeq
  <2> QED
    BY <1>1, <2>1 DEF InStep, Asked
<1>4. s2c' = << >>
  <2>1. Len(s2c) = 1 /\ s2c # << >>
    BY <1>3
  <2>2. k = Len(s2c)
    BY <1>2, <2>1
  <2> QED
    BY <1>2, <2>2, DropFacts DEF TypeOK
<1>5. /\ UNCHANGED <<c_conn, c_data, job, account, opens, left>>
      /\ \/ cpc' = "ask" /\ need' \in 0 .. MaxBlocks
         \/ cpc' = "prompt" /\ UNCHANGED need
  BY DEF SizeReply
<1>6. TypeOK'
  <2>1. need' \in 0 .. MaxBlocks /\ cpc' \in ClientLabel
    BY <1>5, LinkAssumption DEF TypeOK, ClientLabel
  <2> QED
    BY <1>1, <1>5, <2>1 DEF TypeOK, port, session, transfer
<1>7. Connected' /\ PortInv'
  BY <1>1, <1>5 DEF Connected, PortInv, port, session, transfer
<1>8. BlocksInv'
  BY <1>1, <1>5 DEF BlocksInv, Due, session, transfer
<1>9. CommandsInv' /\ EnteredInv' /\ InStep'
  <2>1. c2s' = << >>
    BY <1>1, <1>3 DEF Prepared
  <2>2. Len(c2s') = 0 /\ Len(s2c') = 0
    BY <1>4, <2>1
  <2>3. CommandsInv' /\ EnteredInv'
    BY <2>2 DEF CommandsInv, EnteredInv
  <2>4. InStep'
    BY <1>1, <1>3, <1>4, <1>5 DEF InStep, Prepared, port, session
  <2> QED
    BY <2>3, <2>4
<1> QED
  BY <1>6, <1>7, <1>8, <1>9

LEMMA SendRetrKeeps == ASSUME LinkInv, SendRetr PROVE LinkInv'
<1> USE DEF LinkInv
<1> DEFINE command == Cmd("RETR", "name")
<1>1. PICK from \in {"ask"}, to \in {"retr"}, more \in Int : Say(from, command, more, to)
  BY DEF SendRetr
<1>2. command \in Command /\ command.verb = "RETR" /\ command.arg = "name"
  BY DEF Command, Verb, Cmd
<1> HIDE DEF command
<1>3. /\ cpc = from /\ cpc' = to /\ c_conn
      /\ c2s' \in Seq(Command) /\ Len(c2s') = Len(c2s) + 1 /\ Len(c2s) \in Nat
      /\ \A i \in 1 .. Len(c2s) + 1 : c2s'[i] = IF i = Len(c2s) + 1 THEN command ELSE c2s[i]
      /\ ahead' \in Int
      /\ UNCHANGED <<s2c, c_conn, session, blocks, halted>>
  BY <1>1, <1>2, SayFacts
<1>4. cpc = "ask" /\ cpc' = "retr" /\ UNCHANGED <<port, user, c_data, left>>
  BY <1>1, <1>3 DEF SendRetr
<1>5. Prepared /\ s2c = << >> /\ togo = 0 /\ blocks = 0
  <2>1. Prepared /\ s2c = << >> /\ togo = 0
    BY <1>4 DEF InStep, Prepared, PortInv
  <2>2. blocks = 0
    BY <1>4, <2>1 DEF BlocksInv, Due, TypeOK
  <2> QED
    BY <2>1, <2>2
<1>6. Len(c2s') = 1 /\ c2s'[1] = command
  BY <1>3, <1>5 DEF Prepared
<1>7. TypeOK'
  BY <1>3, <1>4 DEF TypeOK, port, session, transfer, user, ClientLabel
<1>8. Connected' /\ PortInv'
  BY <1>3, <1>4 DEF Connected, PortInv, port, session, transfer
<1>9. CommandsInv' /\ EnteredInv'
  BY <1>2, <1>3, <1>4, <1>5, <1>6 DEF CommandsInv, EnteredInv
<1>10. InStep'
  BY <1>2, <1>3, <1>4, <1>5, <1>6 DEF InStep, Asked, Prepared, port, session
<1>11. BlocksInv'
  BY <1>3, <1>4, <1>5 DEF BlocksInv, Due, TypeOK, session, transfer, user
<1> QED
  BY <1>7, <1>8, <1>9, <1>10, <1>11

(* The client moves the data of its transfer.                              *)
LEMMA DataKeeps ==
  ASSUME LinkInv, PutData \/ GetData \/ GetSpins \/ GetEnds
  PROVE  LinkInv'
<1> USE DEF LinkInv
<1>1. CASE GetSpins
  BY <1>1 DEF GetSpins, vars, control, port, client, transfer, TypeOK, Connected, PortInv,
     CommandsInv, EnteredInv, InStep, Asked, Announced, Prepared, BlocksInv, Due
<1>2. CASE PutData \/ GetData \/ GetEnds
  <2>1. /\ cpc \in {"put", "get"} /\ cpc' \in {"stored", "get", "got"}
        /\ UNCHANGED <<control, port, session, ahead, halted, job, account, opens, left>>
    BY <1>2 DEF PutData, GetData, GetEnds, ClientAt, user
  <2>2. Plain(c2s) /\ Unentered(s2c)
    BY <2>1, FreeFacts DEF Free
  <2>3. BlocksInv'
    <3>1. blocks \in Nat /\ togo \in Nat /\ MaxBlocks \in Nat /\ togo' = togo
      BY <2>1, LinkAssumption DEF TypeOK, session, transfer
    <3>2. CASE PutData
      <4>1. cpc = "put" /\ c_data' = FALSE /\ blocks' = blocks
        BY <3>2 DEF PutData, ClientAt
      <4> QED
        BY <3>1, <4>1 DEF BlocksInv, Due
    <3>3. CASE GetData
      <4>1. cpc = "get" /\ cpc' = "get" /\ c_data' = c_data /\ blocks > 0 /\ blocks' = blocks - 1
        BY <3>3 DEF GetData, ClientAt
      <4> QED
        BY <3>1, <4>1 DEF BlocksInv, Due
    <3>4. CASE GetEnds
      <4>1. cpc = "get" /\ cpc' = "got" /\ c_data' = c_data /\ blocks' = blocks
        BY <3>4 DEF GetEnds, ClientAt
      <4> QED
        BY <3>1, <4>1 DEF BlocksInv, Due
    <3> QED
      BY <1>2, <3>2, <3>3, <3>4
  <2>4. TypeOK'
    <3>1. blocks' \in 0 .. MaxBlocks /\ need' \in 0 .. MaxBlocks
      BY <1>2, LinkAssumption DEF PutData, GetData, GetEnds, TypeOK, user
    <3>2. c_data' \in BOOLEAN
      BY <1>2 DEF PutData, GetData, GetEnds, TypeOK
    <3>3. cpc' \in ClientLabel
      BY <2>1 DEF ClientLabel
    <3> QED
      BY <2>1, <3>1, <3>2, <3>3 DEF TypeOK, control, port, session, transfer
  <2>5. Connected' /\ PortInv'
    BY <2>1 DEF Connected, PortInv, control, port, session, transfer
  <2> QED
    BY <2>1, <2>2, <2>3, <2>4, <2>5, FreeStep DEF control, Free
<1> QED
  BY <1>1, <1>2

-----------------------------------------------------------------------------
(* The session.  When it takes commands while the client sets a transfer   *)
(* up, that is the one command the client has sent since.                  *)
SettingUp == cpc \in {"list", "stor", "size", "retr"}

Wanted == CASE cpc = "list" -> "LIST"
            [] cpc = "stor" -> "STOR"
            [] cpc = "size" -> "SIZE"
            [] OTHER -> "RETR"

LEMMA TakeFacts ==
  ASSUME LinkInv, NEW at \in {"command", "password"}, NEW k \in 1 .. Len(c2s), Receive(at, k)
  PROVE  /\ spc = at /\ c2s' = Drop(c2s, k) /\ c2s' \in Seq(Command) /\ k \in 0 .. Len(c2s)
         /\ Unentered(s2c) /\ cpc \notin {"dial", "ask"}
         /\ First(k).verb = c2s[1].verb /\ First(k) \in Command
         /\ SettingUp => /\ c2s' = << >> /\ First(k) = c2s[1] /\ at = "command"
                         /\ data_open /\ logged = LOGGED_ON /\ s2c = << >> /\ blocks = 0
                         /\ c_conn
                         /\ First(k).verb = Wanted
                         /\ First(k).arg = "none" => cpc = "list"
<1> USE DEF LinkInv
<1>1. c2s \in Seq(Command) /\ Len(c2s) \in Nat /\ Len(c2s) >= 1 /\ c2s # << >>
  BY LenProperties, EmptySeq DEF TypeOK
<1>2. spc = at /\ c2s' = Drop(c2s, k)
  BY DEF Receive, ServerAt
<1>3. c2s' \in Seq(Command) /\ (k = Len(c2s) => c2s' = << >>)
  BY <1>1, <1>2, DropFacts
<1>4. Unentered(s2c) /\ cpc \notin {"dial", "ask"}
  BY <1>1, <1>2, FreeFacts DEF InStep, Prepared
<1>5. c2s[1] \in Command
  BY <1>1
<1>6. /\ First(k).verb = c2s[1].verb /\ First(k) \in Command
      /\ k = 1 => First(k) = c2s[1]
  BY <1>5 DEF First, Cmd, Command
<1>7. SettingUp => c_conn
  BY DEF SettingUp, Connected
<1>8. SettingUp => Asked(Wanted)
  BY <1>1 DEF SettingUp, Wanted, InStep, Announced, Prepared
<1>9. SettingUp => /\ Len(c2s) = 1 /\ s2c = << >> /\ blocks = 0 /\ logged = LOGGED_ON
                   /\ spc = "command" /\ data_open
                   /\ c2s[1].verb = Wanted
                   /\ c2s[1].arg = "none" => Wanted = "LIST"
  BY <1>2, <1>8 DEF Asked
<1>10. Wanted = "LIST" => cpc = "list"
  BY DEF Wanted
<1>11. Len(c2s) = 1 => k = 1 /\ k = Len(c2s)
  BY <1>1
<1> QED
  BY <1>2, <1>3, <1>4, <1>6, <1>7, <1>9, <1>10, <1>11

LEMMA MergedFacts ==
  ASSUME LinkInv, NEW k \in 1 .. Len(c2s), NEW answered \in BOOLEAN, Merged(k, answered)
  PROVE  ahead' \in Int
<1>1. ahead \in Int /\ Len(c2s) \in Nat
  BY LenProperties DEF LinkInv, TypeOK
<1>2. (IF answered THEN 0 ELSE 1) \in Int
  OBVIOUS
<1> QED
  BY <1>1, <1>2 DEF Merged

LEMMA AnswersFacts ==
  ASSUME NEW command \in Command, NEW code \in Answers(command)
  PROVE  code = 0 \/ code \in Code \ {227}
BY DEF Answers, Code, Command, Verb

(* A reply, or none, while nothing is expected of the session's next step. *)
LEMMA QuietServer ==
  ASSUME LinkInv, spc \notin {"accept", "command"}, c2s' = c2s, UNCHANGED theirs,
         NEW x \in Code \ {227}, s2c' = s2c \/ Reply(<<x>>),
         TypeOK', PortInv', BlocksInv'
  PROVE  LinkInv'
<1> USE DEF LinkInv
<1>1. UNCHANGED <<c_conn, cpc, c_data>>
  BY DEF theirs, client
<1>2. s2c \in Seq(Code) /\ Unentered(s2c) /\ cpc \notin {"dial", "ask", "size"}
  BY FreeFacts DEF TypeOK, InStep, Prepared, Asked
<1>3. Unentered(s2c')
  BY <1>2, ReplyUnentered
<1>4. CommandsInv' /\ EnteredInv' /\ Connected'
  BY <1>1, <1>3 DEF CommandsInv, EnteredInv, Unentered, Connected
<1>5. Announced => Announced'
  <2>1. s2c # << >> => Len(s2c) \in Nat /\ Len(s2c) >= 1
    BY <1>2, EmptySeq
  <2>2. s2c # << >> => s2c' # << >> /\ s2c'[1] = s2c[1]
    BY <1>2, <2>1, ReplyFacts, AppendFacts
  <2> QED
    BY <2>2 DEF Announced
<1>6. InStep'
  BY <1>1, <1>2, <1>5 DEF InStep, Asked
<1> QED
  BY <1>4, <1>6

LEMMA WelcomeKeeps == ASSUME LinkInv, Welcome PROVE LinkInv'
<1> USE DEF LinkInv
<1>1. PICK x \in {220} : Reply(<<x>>)
  BY DEF Welcome
<1>2. x \in Code \ {227} /\ s2c \in Seq(Code)
  BY DEF Code, TypeOK
<1>3. s2c' \in Seq(Code)
  BY <1>1, <1>2, ReplyFacts
<1>4. /\ spc \in {"welcome1", "welcome2"} /\ spc' \in {"welcome2", "command"}
      /\ UNCHANGED <<c2s, theirs, port, logged, transfer, blocks, ahead, halted>>
  BY DEF Welcome, ServerAt
<1>5. TypeOK' /\ PortInv' /\ BlocksInv'
  BY <1>3, <1>4 DEF TypeOK, PortInv, BlocksInv, Due, theirs, client, port, transfer
<1> QED
  BY <1>1, <1>2, <1>4, <1>5, QuietServer

LEMMA SendBlockKeeps == ASSUME LinkInv, SendBlock PROVE LinkInv'
<1> USE DEF LinkInv
<1>1. /\ spc = "send" /\ togo > 0 /\ togo' = togo - 1
      /\ blocks' = IF c_data THEN blocks + 1 ELSE blocks
      /\ UNCHANGED <<control, client, port, spc, logged, final, ahead, halted>>
  BY DEF SendBlock, ServerAt
<1>2. /\ blocks \in Nat /\ togo \in Nat /\ need \in Nat /\ need <= MaxBlocks
      /\ togo <= MaxBlocks /\ blocks <= MaxBlocks /\ MaxBlocks \in Nat
  BY LinkAssumption DEF TypeOK
<1>3. Due' = Due /\ Due <= MaxBlocks /\ Due \in Nat
  BY <1>1, <1>2 DEF Due, client
<1>4. BlocksInv'
  BY <1>1, <1>2, <1>3 DEF BlocksInv, client
<1>5. blocks' \in 0 .. MaxBlocks /\ togo' \in 0 .. MaxBlocks
  BY <1>1, <1>2, <1>3 DEF BlocksInv
<1>6. TypeOK' /\ PortInv'
  BY <1>1, <1>5 DEF TypeOK, PortInv, control, client, port
<1>7. 220 \in Code \ {227}
  BY DEF Code
<1> QED
  BY <1>1, <1>4, <1>6, <1>7, QuietServer DEF control, theirs

LEMMA EndTransferKeeps == ASSUME LinkInv, EndTransfer PROVE LinkInv'
<1> USE DEF LinkInv
<1>1. PICK x \in Code \ {227} : s2c' = s2c \/ Reply(<<x>>)
  <2>1. 226 \in Code \ {227} /\ 550 \in Code \ {227}
    BY DEF Code
  <2> QED
    BY <2>1 DEF EndTransfer, TypeOK
<1>2. s2c' \in Seq(Code) /\ ahead' \in Int
  <2>1. s2c' \in Seq(Code)
    BY <1>1, ReplyFacts DEF TypeOK
  <2> QED
    BY <2>1 DEF EndTransfer, TypeOK
<1>3. /\ spc \in {"send", "receive"} /\ spc' = "command" /\ togo' = 0 /\ final' = 0
      /\ listening' = FALSE /\ data_open' = FALSE
      /\ UNCHANGED <<c2s, theirs, backlog, logged, blocks, halted>>
  BY DEF EndTransfer, ServerAt
<1>4. TypeOK'
  <2>1. togo' \in 0 .. MaxBlocks
    BY <1>3, LinkAssumption
  <2>2. listening' \in BOOLEAN /\ data_open' \in BOOLEAN
    BY <1>3
  <2> QED
    BY <1>2, <1>3, <2>1, <2>2 DEF TypeOK, theirs, client
<1>5. PortInv'
  BY <1>3 DEF PortInv
<1>6. BlocksInv'
  <2>1. Due' = Due /\ Due \in Int
    BY <1>3, LinkAssumption DEF Due, theirs, client, TypeOK
  <2> QED
    BY <1>3, <2>1 DEF BlocksInv, TypeOK, theirs, client
<1> QED
  BY <1>1, <1>3, <1>4, <1>5, <1>6, QuietServer

(* The session takes a command and answers it while the client does not    *)
(* set a transfer up.                                                      *)
LEMMA TakeKeeps ==
  ASSUME LinkInv, NEW at \in {"command", "password"}, NEW k \in 1 .. Len(c2s), Receive(at, k),
         ~SettingUp, UNCHANGED theirs,
         Unentered(s2c'), TypeOK', PortInv', BlocksInv'
  PROVE  LinkInv'
<1>1. UNCHANGED <<c_conn, cpc, c_data>>
  BY DEF theirs, client
<1>2. /\ c2s' = Drop(c2s, k) /\ k \in 0 .. Len(c2s) /\ cpc \notin {"dial", "ask"}
  BY TakeFacts
<1>3. Connected'
  BY <1>1 DEF LinkInv, Connected
<1> QED
  BY <1>1, <1>2, <1>3, TakeStep DEF SettingUp

LEMMA ServeKeeps == ASSUME LinkInv, Serve PROVE LinkInv'
<1> USE DEF LinkInv
<1>1. PICK k \in 1 .. Len(c2s) :
        /\ Receive("command", k) /\ ~Special(First(k))
        /\ \E code \in Answers(First(k)) :
             /\ IF code = 0 THEN UNCHANGED s2c ELSE Reply(<<code>>)
             /\ Merged(k, code # 0)
  BY DEF Serve
<1>2. PICK code \in Answers(First(k)) :
        /\ IF code = 0 THEN UNCHANGED s2c ELSE Reply(<<code>>)
        /\ Merged(k, code # 0)
  BY <1>1
<1>3. PICK at \in {"command", "password"} : at = "command"
  OBVIOUS
<1>4. /\ spc = "command" /\ c2s' \in Seq(Command) /\ Unentered(s2c)
      /\ First(k) \in Command
      /\ SettingUp => /\ c2s' = << >> /\ data_open /\ logged = LOGGED_ON /\ s2c = << >>
                      /\ blocks = 0 /\ c_conn /\ First(k).verb = Wanted
                      /\ First(k).arg = "none" => cpc = "list"
  BY <1>1, <1>3, TakeFacts
<1>5. code = 0 \/ code \in Code \ {227}
  BY <1>4, AnswersFacts
<1>6. ahead' \in Int
  BY <1>2, MergedFacts
<1>7. s2c' \in Seq(Code) /\ Unentered(s2c')
  BY <1>2, <1>4, <1>5, ReplyFacts, ReplyUnentered DEF TypeOK
<1>8. UNCHANGED <<theirs, port, session, blocks, halted>>
  BY DEF Serve
<1>9. TypeOK' /\ PortInv' /\ BlocksInv'
  BY <1>4, <1>6, <1>7, <1>8 DEF TypeOK, PortInv, BlocksInv, Due, theirs, client, port, session,
     transfer
<1>10. CASE ~SettingUp
  BY <1>1, <1>3, <1>7, <1>8, <1>9, <1>10, TakeKeeps
<1>11. CASE SettingUp
  <2>1. cpc = "size" /\ First(k).verb = "SIZE" /\ First(k).arg # "none"
    BY <1>1, <1>4, <1>11 DEF SettingUp, Wanted, Special, Transfers
  <2>2. code \in {213, 550}
    BY <1>4, <1>11, <2>1 DEF Answers, LOGGED_OUT, LOGGED_ON
  <2>3. s2c' = <<code>>
    BY <1>2, <1>4, <1>11, <2>2 DEF Reply
  <2>4. CommandsInv' /\ EnteredInv'
    BY <1>4, <1>11, <2>2, <2>3 DEF CommandsInv, EnteredInv
  <2>5. InStep'
    BY <1>4, <1>8, <1>11, <2>1, <2>2, <2>3 DEF InStep, Prepared, theirs, client, port, session
  <2>6. Connected'
    BY <1>8 DEF Connected, theirs, client
  <2> QED
    BY <1>9, <2>4, <2>5, <2>6
<1> QED
  BY <1>10, <1>11

(* USER, PASS and QUIT: what comes after USER is taken for PASS.           *)
LEMMA LogKeeps ==
  ASSUME LinkInv, ServeUser \/ ServePass \/ ServeNotPass \/ ServeQuit
  PROVE  LinkInv'
<1> USE DEF LinkInv
<1>1. PICK at \in {"command", "password"}, k \in 1 .. Len(c2s), answered \in BOOLEAN :
        /\ Receive(at, k) /\ Merged(k, answered)
        /\ at = "command" => First(k).verb \in {"USER", "QUIT"}
  <2>1. TRUE \in BOOLEAN /\ (logged = LOGGED_OUT) \in BOOLEAN
    OBVIOUS
  <2> QED
    BY <2>1 DEF ServeUser, ServePass, ServeNotPass, ServeQuit
<1>2. PICK code \in {331, 230, 530, 221} : s2c' = s2c \/ Reply(<<code>>)
  <2>1. CASE ServePass
    <3>1. PICK j \in 1 .. Len(c2s) :
            Reply(<<IF First(j).arg # "none" /\ account = "right" THEN 230 ELSE 530>>)
      BY <2>1 DEF ServePass
    <3> QED
      BY <3>1
  <2>2. ServeUser => Reply(<<331>>)
    BY DEF ServeUser
  <2>3. ServeQuit => Reply(<<221>>)
    BY DEF ServeQuit
  <2>4. ServeNotPass => s2c' = s2c \/ Reply(<<530>>)
    BY DEF ServeNotPass
  <2> QED
    BY <2>1, <2>2, <2>3, <2>4
<1>3. /\ spc = at /\ c2s' \in Seq(Command) /\ Unentered(s2c)
      /\ SettingUp => at = "command" /\ First(k).verb = Wanted
  BY <1>1, TakeFacts
<1>4. ~SettingUp
  BY <1>1, <1>3 DEF Wanted
<1>5. code \in Code \ {227} /\ s2c \in Seq(Code)
  BY DEF Code, TypeOK
<1>6. s2c' \in Seq(Code) /\ Unentered(s2c')
  BY <1>2, <1>3, <1>5, ReplyFacts, ReplyUnentered
<1>7. ahead' \in Int
  BY <1>1, MergedFacts
<1>8. /\ spc \in {"command", "password"} /\ spc' \in {"idle", "command", "password"}
      /\ data_open' \in {data_open, FALSE} /\ logged' \in {logged, LOGGED_OUT, LOGGED_ON}
      /\ UNCHANGED <<theirs, listening, backlog, transfer, blocks, halted>>
  BY ZenonT(60), <1>3 DEF ServeUser, ServePass, ServeNotPass, ServeQuit, EndSession, port
<1>9. TypeOK'
  <2>1. data_open' \in BOOLEAN /\ logged' \in {LOGGED_OUT, LOGGED_ON}
    BY ZenonT(60), <1>8 DEF TypeOK
  <2> QED
    BY <1>3, <1>6, <1>7, <1>8, <2>1 DEF TypeOK, theirs, client, transfer
<1>10. PortInv'
  <2>1. data_open' => data_open
    BY <1>8
  <2> QED
    BY <1>8, <2>1 DEF PortInv, transfer
<1>11. BlocksInv'
  BY <1>8 DEF BlocksInv, Due, theirs, client, transfer
<1> QED
  BY <1>1, <1>4, <1>6, <1>8, <1>9, <1>10, <1>11, TakeKeeps

LEMMA DisconnectedKeeps == ASSUME LinkInv, Disconnected PROVE LinkInv'
<1> USE DEF LinkInv
<1>1. /\ spc = "command" /\ c2s = << >> /\ ~c_conn /\ spc' = "idle" /\ data_open' = FALSE
      /\ UNCHANGED <<c2s, s2c, ahead, theirs, listening, backlog, logged, transfer, blocks,
                     halted>>
  BY DEF Disconnected, EndSession, ServerAt
<1>2. cpc \in {"prompt", "exited"} /\ Unentered(s2c)
  BY <1>1, FreeFacts DEF Connected
<1>3. TypeOK'
  <2>1. data_open' \in BOOLEAN
    BY <1>1
  <2> QED
    BY <1>1, <2>1 DEF TypeOK, theirs, client, transfer
<1>4. PortInv' /\ Connected' /\ CommandsInv' /\ InStep'
  BY <1>1, <1>2 DEF PortInv, Connected, CommandsInv, InStep, theirs, client, transfer
<1>5. EnteredInv'
  BY <1>1, <1>2 DEF EnteredInv, Unentered
<1>6. BlocksInv'
  BY <1>1 DEF BlocksInv, Due, theirs, client, transfer
<1> QED
  BY <1>3, <1>4, <1>5, <1>6

-----------------------------------------------------------------------------
(* From PASV to the transfer: the session's part.                          *)
LEMMA ServePasvKeeps == ASSUME LinkInv, ServePasv PROVE LinkInv'
<1> USE DEF LinkInv
<1>1. PICK at \in {"command", "password"}, k \in 1 .. Len(c2s) :
        /\ at = "command" /\ Receive(at, k) /\ Merged(k, TRUE) /\ First(k).verb = "PASV"
  BY DEF ServePasv, ReceivePasv
<1>2. /\ spc = "command" /\ c2s' \in Seq(Command) /\ Unentered(s2c) /\ k \in 0 .. Len(c2s)
      /\ c2s' = Drop(c2s, k) /\ c2s[1].verb = "PASV" /\ cpc \notin {"dial", "ask"}
      /\ ~SettingUp
  <2>1. SettingUp => First(k).verb = Wanted
    BY <1>1, TakeFacts
  <2>2. ~SettingUp
    BY <1>1, <2>1 DEF Wanted
  <2> QED
    BY <1>1, <2>2, TakeFacts
<1>3. PICK x \in Code : x = 227 /\ Reply(<<x>>)
  BY DEF ServePasv, Code
<1>4. /\ ~listening /\ logged = LOGGED_ON /\ listening' = TRUE /\ spc' = "accept"
      /\ UNCHANGED <<theirs, backlog, data_open, logged, transfer, blocks, halted>>
  BY DEF ServePasv, ReceivePasv
<1>5. Len(c2s) = 1 /\ k = 1 /\ cpc \in {"pasv", "exited"}
  <2>1. Len(c2s) \in Nat /\ 1 \in 1 .. Len(c2s)
    BY LenProperties DEF TypeOK
  <2>2. Len(c2s) = 1 /\ cpc \in {"pasv", "exited"}
    BY <1>2, <2>1 DEF CommandsInv
  <2> QED
    BY <2>2
<1>6. c2s' = << >>
  <2>1. c2s \in Seq(Command) /\ k = Len(c2s)
    BY <1>5 DEF TypeOK
  <2> QED
    BY <1>2, <2>1, DropFacts
<1>7. s2c \in Seq(Code) /\ s2c' \in Seq(Code) /\ ahead' \in Int
  BY <1>1, <1>3, MergedFacts, ReplyFacts DEF TypeOK
<1>8. ~data_open /\ ~backlog /\ togo = 0
  BY <1>2, <1>4 DEF PortInv
<1>9. TypeOK'
  <2>1. listening' \in BOOLEAN
    BY <1>4
  <2> QED
    BY <1>2, <1>4, <1>7, <2>1 DEF TypeOK, theirs, client, transfer
<1>10. Connected' /\ PortInv' /\ InStep'
  BY <1>4, <1>5, <1>8 DEF Connected, PortInv, InStep, theirs, client, transfer
<1>11. BlocksInv'
  BY <1>4 DEF BlocksInv, Due, theirs, client, transfer
<1>12. CommandsInv'
  BY <1>6 DEF CommandsInv
<1>13. EnteredInv'
  <2>1. cpc' \in {"pasv", "exited"} /\ spc' = "accept" /\ ~backlog'
    BY <1>4, <1>5, <1>8 DEF theirs, client
  <2>2. \A i \in 1 .. Len(s2c') : s2c'[i] = 227 => i = Len(s2c')
    <3>1. CASE s2c' = s2c
      BY <1>2, <3>1 DEF Unentered
    <3>2. CASE s2c' = Append(s2c, x)
      BY <1>2, <1>7, <3>2, AppendFacts DEF Unentered
    <3> QED
      BY <1>3, <1>7, <3>1, <3>2, ReplyFacts
  <2> QED
    BY <1>6, <2>1, <2>2 DEF EnteredInv
<1> QED
  BY <1>9, <1>10, <1>11, <1>12, <1>13

(* The steps with which the server ends.                                   *)
LEMMA HaltKeeps == ASSUME LinkInv, PasvClash \/ PassGone \/ PeerReset PROVE LinkInv'
<1> USE DEF LinkInv
<1>1. CASE PassGone \/ PeerReset
  <2>1. UNCHANGED <<control, client, port, session, blocks, ahead>>
        /\ halted' \in {"peer", "undefined"}
    BY <1>1 DEF PassGone, PeerReset
  <2>2. TypeOK'
    BY <2>1 DEF TypeOK, control, client, port, session, transfer
  <2> QED
    BY <2>1, <2>2 DEF control, client, port, session, transfer, Connected, PortInv,
       CommandsInv, EnteredInv, InStep, Asked, Announced, Prepared, BlocksInv, Due
<1>2. CASE PasvClash
  <2>1. PICK at \in {"command", "password"}, k \in 1 .. Len(c2s) :
          /\ at = "command" /\ Receive(at, k) /\ First(k).verb = "PASV"
    BY <1>2 DEF PasvClash, ReceivePasv
  <2>2. SettingUp => First(k).verb = Wanted
    BY <2>1, TakeFacts
  <2>3. ~SettingUp
    BY <2>1, <2>2 DEF Wanted
  <2>4. c2s' \in Seq(Command) /\ Unentered(s2c)
    BY <2>1, TakeFacts
  <2>5. UNCHANGED <<s2c, theirs, port, session, blocks, ahead>> /\ halted' = "port"
    BY <1>2 DEF PasvClash
  <2>6. TypeOK' /\ PortInv' /\ BlocksInv'
    BY <2>4, <2>5 DEF TypeOK, PortInv, BlocksInv, Due, theirs, client, port, session, transfer
  <2> QED
    BY <2>1, <2>3, <2>4, <2>5, <2>6, TakeKeeps
<1> QED
  BY <1>1, <1>2

LEMMA AcceptDataKeeps == ASSUME LinkInv, AcceptData PROVE LinkInv'
<1> USE DEF LinkInv
<1>1. /\ spc = "accept" /\ backlog /\ backlog' = FALSE /\ data_open' = TRUE /\ spc' = "command"
      /\ UNCHANGED <<control, client, listening, logged, transfer, blocks, ahead, halted>>
  BY DEF AcceptData, ServerAt
<1>2. Unentered(s2c) /\ cpc \notin {"dial", "ask"} /\ (cpc = "size" => Asked("SIZE"))
  BY <1>1, FreeFacts DEF InStep, Prepared
<1>3. TypeOK'
  <2>1. backlog' \in BOOLEAN /\ data_open' \in BOOLEAN
    BY <1>1
  <2> QED
    BY <1>1, <2>1 DEF TypeOK, control, client, transfer
<1>4. Connected' /\ PortInv' /\ CommandsInv' /\ BlocksInv'
  BY <1>1 DEF Connected, PortInv, CommandsInv, BlocksInv, Due, control, client, transfer
<1>5. EnteredInv'
  BY <1>1, <1>2 DEF EnteredInv, Unentered, control
<1>6. ASSUME NEW verb, Asked(verb) PROVE Asked(verb)'
  BY <1>1, <1>6 DEF Asked, control
<1>7. InStep'
  BY <1>1, <1>2, <1>6 DEF InStep, Announced, control, client
<1> QED
  BY <1>3, <1>4, <1>5, <1>7

LEMMA AnnounceFacts ==
  ASSUME LinkInv, NEW verb \in {"LIST", "STOR", "RETR"}, Announce(verb)
  PROVE  /\ \E at \in {"command", "password"}, k \in 1 .. Len(c2s) : Receive(at, k)
         /\ spc = "command" /\ data_open /\ ahead' \in Int
         /\ c2s' \in Seq(Command) /\ s2c' \in Seq(Code) /\ Unentered(s2c')
         /\ SettingUp \/ cpc = "exited"
         /\ SettingUp => verb = Wanted /\ c2s' = << >> /\ s2c' = <<150>> /\ blocks = 0
         /\ UNCHANGED <<theirs, port, logged, blocks, halted>>
<1> USE DEF LinkInv
<1>1. PICK at \in {"command", "password"}, k \in 1 .. Len(c2s) :
        /\ at = "command" /\ Receive(at, k) /\ Merged(k, TRUE)
        /\ First(k).verb = verb /\ Transfers(First(k))
  BY DEF Announce
<1>2. PICK x \in Code \ {227} : x = 150 /\ Reply(<<x>>)
  BY DEF Announce, Code
<1>3. UNCHANGED <<theirs, port, logged, blocks, halted>>
  BY DEF Announce
<1>4. /\ spc = "command" /\ c2s' \in Seq(Command) /\ Unentered(s2c) /\ c2s[1].verb = verb
      /\ SettingUp => /\ c2s' = << >> /\ s2c = << >> /\ blocks = 0 /\ c_conn
                      /\ First(k).verb = Wanted
  BY <1>1, TakeFacts
<1>5. s2c \in Seq(Code) /\ ahead' \in Int
  <2>1. PICK answered \in BOOLEAN : Merged(k, answered)
    BY <1>1
  <2>2. ahead' \in Int
    BY <2>1, MergedFacts
  <2> QED
    BY <2>2 DEF TypeOK
<1>6. s2c' \in Seq(Code) /\ Unentered(s2c')
  BY <1>2, <1>4, <1>5, ReplyFacts, ReplyUnentered
<1>7. SettingUp \/ cpc = "exited"
  <2>1. 1 \in 1 .. Len(c2s)
    BY LenProperties DEF TypeOK
  <2> QED
    BY <1>4, <2>1 DEF CommandsInv, SettingUp
<1>8. SettingUp => s2c' = <<150>>
  BY <1>2, <1>4 DEF Reply
<1> QED
  BY <1>1, <1>3, <1>4, <1>5, <1>6, <1>7, <1>8 DEF Transfers

LEMMA TransferKeeps == ASSUME LinkInv, ServeList \/ ServeRetr \/ ServeStor PROVE LinkInv'
<1> USE DEF LinkInv
<1>1. MaxBlocks \in Nat /\ need \in 0 .. MaxBlocks /\ blocks \in 0 .. MaxBlocks
  BY LinkAssumption DEF TypeOK
<1>2. PICK verb \in {"LIST", "STOR", "RETR"} :
        /\ Announce(verb)
        /\ spc' \in {"send", "receive"} /\ togo' \in 0 .. MaxBlocks /\ final' \in {0, 226, 550}
        /\ togo' # 0 => spc' = "send"
        /\ verb = "STOR" => togo' = 0
  <2>1. CASE ServeList
    BY <1>1, <2>1 DEF ServeList, NoSuchPath, Outcome
  <2>2. CASE ServeRetr
    BY <1>1, <2>2 DEF ServeRetr, NoSuchPath, Outcome
  <2>3. CASE ServeStor
    BY <1>1, <2>3 DEF ServeStor, NoSuchPath, Outcome
  <2> QED
    BY <2>1, <2>2, <2>3
<1>3. /\ spc = "command" /\ data_open /\ ahead' \in Int
      /\ c2s' \in Seq(Command) /\ s2c' \in Seq(Code) /\ Unentered(s2c')
      /\ SettingUp \/ cpc = "exited"
      /\ SettingUp => verb = Wanted /\ c2s' = << >> /\ s2c' = <<150>> /\ blocks = 0
      /\ UNCHANGED <<theirs, port, logged, blocks, halted>>
  BY <1>2, AnnounceFacts
<1>4. TypeOK'
  BY <1>2, <1>3 DEF TypeOK, theirs, client, port
<1>5. PortInv' /\ Connected'
  BY <1>2, <1>3 DEF PortInv, Connected, theirs, client, port
<1>6. BlocksInv'
  <2>1. Due' = Due /\ c_data' = c_data /\ blocks' = blocks /\ cpc' = cpc
    BY <1>3 DEF Due, theirs, client
  <2>2. CASE cpc = "exited"
    BY <2>1, <2>2 DEF BlocksInv, Connected
  <2>3. CASE SettingUp
    <3>1. blocks = 0 /\ togo' <= Due
      <4>1. /\ verb = "LIST" => cpc = "list"
            /\ verb = "RETR" => cpc = "retr"
            /\ verb = "STOR" => cpc = "stor"
        BY <1>3, <2>3 DEF Wanted, SettingUp
      <4>2. /\ verb \in {"LIST", "RETR"} => Due = MaxBlocks
            /\ verb = "STOR" => Due = 0
        BY <4>1 DEF Due
      <4> QED
        BY <1>1, <1>2, <1>3, <2>3, <4>2
    <3> QED
      BY <1>2, <2>1, <3>1 DEF BlocksInv
  <2> QED
    BY <1>3, <2>2, <2>3
<1>7. CASE ~SettingUp
  <2>1. PICK at \in {"command", "password"}, k \in 1 .. Len(c2s) : Receive(at, k)
    BY <1>2, AnnounceFacts
  <2> QED
    BY <1>3, <1>4, <1>5, <1>6, <1>7, <2>1, TakeKeeps
<1>8. CASE SettingUp
  <2>1. cpc \in {"list", "stor", "retr"} /\ cpc' = cpc
    BY <1>2, <1>3, <1>8 DEF Wanted, SettingUp, theirs, client
  <2>2. c2s' = << >> /\ s2c' = <<150>>
    BY <1>3, <1>8
  <2>3. CommandsInv'
    BY <2>2 DEF CommandsInv
  <2>4. EnteredInv'
    BY <2>2 DEF EnteredInv
  <2>5. InStep'
    <3>1. Announced'
      BY <2>2 DEF Announced
    <3> QED
      BY <2>1, <2>2, <3>1 DEF InStep
  <2> QED
    BY <1>4, <1>5, <1>6, <2>3, <2>4, <2>5
<1> QED
  BY <1>7, <1>8

-----------------------------------------------------------------------------
LEMMA LinkInit == Init => LinkInv
<1> SUFFICES ASSUME Init PROVE LinkInv
  OBVIOUS
<1>1. TypeOK
  <2>1. 0 \in 0 .. MaxBlocks /\ MaxOpens \in 0 .. MaxOpens /\ MaxCommands \in 0 .. MaxCommands
    BY LinkAssumption
  <2>2. << >> \in Seq(Command) /\ << >> \in Seq(Code) /\ "prompt" \in ClientLabel
    BY EmptySeq DEF ClientLabel
  <2>3. /\ c_conn \in BOOLEAN /\ c_data \in BOOLEAN
        /\ listening \in BOOLEAN /\ backlog \in BOOLEAN /\ data_open \in BOOLEAN
    BY DEF Init
  <2>4. /\ c2s \in Seq(Command) /\ s2c \in Seq(Code) /\ cpc \in ClientLabel
        /\ blocks \in 0 .. MaxBlocks /\ togo \in 0 .. MaxBlocks /\ need \in 0 .. MaxBlocks
        /\ opens \in 0 .. MaxOpens /\ left \in 0 .. MaxCommands
    BY <2>1, <2>2 DEF Init
  <2>5. /\ job = "none" /\ account = "right" /\ spc = "idle" /\ logged = LOGGED_OUT
        /\ final = 0 /\ ahead = 0 /\ halted = "no"
    BY DEF Init
  <2> QED
    BY <2>3, <2>4, <2>5 DEF TypeOK
<1>2. /\ Connected /\ PortInv /\ CommandsInv /\ EnteredInv /\ InStep /\ BlocksInv
  BY DEF Init, Connected, PortInv, CommandsInv, EnteredInv, InStep, BlocksInv, Due
<1> QED
  BY <1>1, <1>2 DEF LinkInv

LEMMA LinkNext == LinkInv /\ [Next]_vars => LinkInv'
<1> SUFFICES ASSUME LinkInv, [Next]_vars PROVE LinkInv'
  OBVIOUS
<1>1. CASE UNCHANGED vars
  BY <1>1 DEF vars, control, port, client, transfer, LinkInv, TypeOK, Connected, PortInv,
     CommandsInv, EnteredInv, InStep, Asked, Announced, Prepared, BlocksInv, Due
<1>2. CASE UserStep
  BY <1>2, OpenKeeps, SimpleKeeps, QuitKeeps, SendPasvKeeps DEF UserStep
<1>3. CASE ClientStep
  BY <1>3, OpenScriptKeeps, SimpleKeeps, QuitKeeps, PasvReplyKeeps, DialKeeps, ListDataKeeps,
     AnnouncedKeeps, SizeReplyKeeps, SendRetrKeeps, DataKeeps DEF ClientStep
<1>4. CASE ServerStep
  BY <1>4, WelcomeKeeps, ServeKeeps, LogKeeps, DisconnectedKeeps, ServePasvKeeps, HaltKeeps,
     AcceptDataKeeps, TransferKeeps, SendBlockKeeps, EndTransferKeeps DEF ServerStep
<1>5. CASE PutReset \/ PeerReset \/ Killed
  BY <1>5, GoneKeeps, HaltKeeps
<1> QED
  BY <1>1, <1>2, <1>3, <1>4, <1>5 DEF Next

(* However far the replies were out of step, what is under way from PASV   *)
(* to the transfer is as InStep says.                                      *)
THEOREM LinkInvariant == SafeSpec => []LinkInv
BY LinkInit, LinkNext, PTL DEF SafeSpec

(* The commands and replies under way are of the protocol, and the client  *)
(* never takes more blocks of a file than it was told of.                  *)
THEOREM LinkTypeCorrect == SafeSpec => []TypeOK
<1>1. LinkInv => TypeOK
  BY DEF LinkInv
<1> QED
  BY <1>1, LinkInvariant, PTL

(* The reply a client reads after STOR, RETR or SIZE is the reply to that. *)
THEOREM AnnouncementsAreInStep == SafeSpec => []AnnouncedInStep
<1>1. LinkInv => AnnouncedInStep
  BY DEF LinkInv, InStep, Asked, Announced, AnnouncedInStep
<1> QED
  BY <1>1, LinkInvariant, PTL

(* A client that has read 227 and the session are on one data connection   *)
(* until the transfer is over.                                             *)
THEOREM DataConnectionsAgree == SafeSpec => []DataAgreed
<1>1. LinkInv => DataAgreed
  BY DEF LinkInv, InStep, PortInv, DataAgreed
<1> QED
  BY <1>1, LinkInvariant, PTL

=============================================================================

-------------------------------- MODULE Transfer --------------------------------
(***************************************************************************)
(* The bytes of uploads and downloads: cmd_put and cmd_get of              *)
(* client/client.c against handle_stor, handle_size, handle_retr and       *)
(* ftp_send_file of src/src/factory.c.                                     *)
(*                                                                         *)
(* The server keeps the bytes of a file in its working directory, under    *)
(* the last name of the path, and a row with the path and the size in the  *)
(* catalogue, so files of one name in different directories are one file   *)
(* on the disk.  There is one data port, so there is one transfer at a     *)
(* time (module DataPort); other sessions can still delete rows.  The      *)
(* dialogue that sets a transfer up, and the replies before its last one,  *)
(* are the module FtpLink; here a transfer starts with both ends of the    *)
(* data connection open.                                                   *)
(***************************************************************************)
EXTENDS Integers, Sequences

CONSTANTS
  Dir,          (* the directories of the catalogue                        *)
  Name,         (* the names of files                                      *)
  Byte,         (* the bytes a file is made of                             *)
  LocalFile,    (* the files the client has to upload                      *)
  StoredFile,   (* the server's files at the start: records [path, bytes]  *)
  BufSize,      (* the size of the buffers buf[1024]                       *)
  StreamCap,    (* the bytes the kernel keeps for a data connection        *)
  StaleSize,    (* what an st_size that was never written may hold         *)
  MaxTransfers  (* bound: the transfers that are started                   *)

(* The content of a buffer that was never written.                         *)
Zero == 0

Path == [dir : Dir, name : Name]

(* cmd_put cannot map an empty file, so it never sends one.  A size of -1  *)
(* is handle_size's failure, whatever it comes from (factory.c:899).       *)
ASSUME TransferAssumption ==
  /\ Zero \notin Byte
  /\ Path # {}
  /\ BufSize \in Nat \ {0}
  /\ StreamCap \in Nat /\ BufSize <= StreamCap
  /\ MaxTransfers \in Nat
  /\ StaleSize \subseteq Int \ {-1}
  /\ LocalFile \subseteq Seq(Byte) \ {<< >>}
  /\ StoredFile \subseteq [path : Path, bytes : Seq(Byte)]
  /\ \A f, g \in StoredFile : f.path.name = g.path.name => f = g

VARIABLES
  disk,       (* the files in the server's working directory               *)
  file_tbl,   (* the rows of files in the catalogue                        *)
  cpc,        (* where the client is                                       *)
  path,       (* the path of the transfer                                  *)
  local,      (* the local file that is sent or written                    *)
  filesize,   (* the number in the answer to SIZE                          *)
  curr_size,  (* what cmd_put counts as sent                               *)
  copied,     (* the bytes the running send() has taken                    *)
  short,      (* did a send() of this upload return early?                 *)
  spc,        (* where the server is                                       *)
  found,      (* the row that db_find_file found, of which it has the code *)
  md5sum,     (* the name of the file that ftp_send_file reads             *)
  fd,         (* the server's open file, -1 if open() failed               *)
  size,       (* the bytes it has received, or read from the file          *)
  buf,        (* the buffer of ftp_send_file                               *)
  before,     (* history: the file on the disk before the upload           *)
  torn,       (* history: was the row that was found gone a query later?   *)
  data,       (* the bytes under way on the data connection                *)
  c_open,     (* the client's end of the data connection                   *)
  s_open,     (* the server's end of it, with the port it listens on       *)
  reply,      (* the last reply of the transfer, 0 if there is none (yet)  *)
  halted,     (* "no", or why the server ended                             *)
  left        (* bound: the transfers that may still be started            *)

store == <<disk, file_tbl>>
sent == <<curr_size, copied, short>>
mine == <<path, local, filesize, sent>>
client == <<cpc, mine>>
lookup == <<found, md5sum>>
block == <<size, buf>>
history == <<before, torn>>
handler == <<lookup, fd, block, history>>
server == <<spc, handler>>
wire == <<data, c_open, s_open, reply>>
fate == <<halted, left>>
vars == <<store, client, server, wire, fate>>

(* "put" and "get" are the loops over send and recv, "stored" and "got"    *)
(* wait for the last reply; "size" waits for the answer to SIZE.           *)
ClientLabel == {"prompt", "put", "stored", "size", "get", "got", "dead"}

(* "stor", "size" and "retr" look the path up, "stat" and "open" ask for   *)
(* the row that was found, "recv" and "send" are the loops over blocks,    *)
(* "reply" has stored a file and not answered yet.                         *)
ServerLabel == {"command", "stor", "recv", "reply", "size", "stat", "retr",
                "open", "send"}

(* A file created by open() without a mode gets the permissions that       *)
(* happen to lie on the stack: it may not be usable when opened again.     *)
File == [exists : BOOLEAN, usable : BOOLEAN, bytes : Seq(Byte)]

NoFile == [exists |-> FALSE, usable |-> FALSE, bytes |-> << >>]

Clear == [i \in 1 .. BufSize |-> Zero]

(* The path while there is no transfer.                                    *)
NoPath == CHOOSE p \in Path : TRUE

(* A row has the number of the transfer that made it for its code, which   *)
(* no other row ever has.                                                  *)
Row == [code : 0 .. MaxTransfers, path : Path, size : Nat]

NoRow == [code |-> 0, path |-> NoPath, size |-> 0]

TypeOK ==
  /\ disk \in [Name -> File]
  /\ file_tbl \subseteq Row
  /\ cpc \in ClientLabel
  /\ path \in Path
  /\ local \in Seq(Byte \cup {Zero})
  /\ filesize \in Nat \cup StaleSize
  /\ curr_size \in 0 .. Len(local)
  /\ copied \in 0 .. Len(local)
  /\ short \in BOOLEAN
  /\ spc \in ServerLabel
  /\ found \in Row
  /\ md5sum \in Name
  /\ fd \in {-1, 0}
  /\ size \in Nat
  /\ buf \in [1 .. BufSize -> Byte \cup {Zero}]
  /\ before \in Seq(Byte) /\ torn \in BOOLEAN
  /\ data \in Seq(Byte \cup {Zero}) /\ Len(data) <= StreamCap
  /\ c_open \in BOOLEAN
  /\ s_open \in BOOLEAN
  /\ reply \in {0, 213, 226, 550}
  /\ halted \in {"no", "port", "file", "peer"}
  /\ left \in 0 .. MaxTransfers

Init ==
  /\ disk = [n \in Name |->
               IF \E f \in StoredFile : f.path.name = n
               THEN [exists |-> TRUE, usable |-> TRUE,
                     bytes |-> (CHOOSE f \in StoredFile : f.path.name = n).bytes]
               ELSE NoFile]
  /\ file_tbl = {[code |-> 0, path |-> f.path, size |-> Len(f.bytes)] : f \in StoredFile}
  /\ cpc = "prompt" /\ spc = "command"
  /\ path = NoPath
  /\ local = << >> /\ filesize = 0 /\ curr_size = 0 /\ copied = 0
  /\ short = FALSE
  /\ found = NoRow /\ md5sum = NoPath.name
  /\ fd = -1 /\ size = 0 /\ buf = Clear
  /\ before = << >> /\ torn = FALSE
  /\ data = << >> /\ c_open = FALSE /\ s_open = FALSE /\ reply = 0
  /\ halted = "no"
  /\ left = MaxTransfers

-----------------------------------------------------------------------------
Minimum(m, n) == IF m < n THEN m ELSE n

Drop(s, k) == SubSeq(s, k + 1, Len(s))

(* What a recv() with a buffer of BufSize may return: some of the bytes.   *)
Receivable == 1 .. Minimum(BufSize, Len(data))

Room == StreamCap - Len(data)

OnDisk == disk[path.name].bytes

Rows == {r \in file_tbl : r.path = path}

ServerAt(label) == halted = "no" /\ spc = label

ClientAt(label) == halted = "no" /\ cpc = label

(* Both sockets of PASV are closed after a transfer, and the variables of  *)
(* its handler are gone.                                                   *)
Hangup(answer) ==
  /\ spc' = "command"
  /\ found' = NoRow /\ md5sum' = NoPath.name
  /\ fd' = -1 /\ size' = 0 /\ buf' = Clear
  /\ s_open' = FALSE
  /\ reply' = answer

(* cmd_put or cmd_get returns to the prompt.                               *)
Return ==
  /\ cpc' = "prompt"
  /\ path' = NoPath
  /\ local' = << >> /\ filesize' = 0 /\ curr_size' = 0 /\ copied' = 0
  /\ short' = FALSE
  /\ before' = << >> /\ torn' = FALSE

-----------------------------------------------------------------------------
(* A transfer starts with PASV, for which the data port must be free.      *)
Ready == ClientAt("prompt") /\ spc = "command" /\ left > 0

Connect(p) ==
  /\ Ready /\ ~s_open
  /\ path' = p
  /\ data' = << >> /\ c_open' = TRUE /\ s_open' = TRUE /\ reply' = 0
  /\ left' = left - 1
  /\ UNCHANGED <<store, halted>>

(* An earlier transfer left its listening socket: Bind ends the server.    *)
PasvClash ==
  /\ Ready /\ s_open
  /\ halted' = "port"
  /\ left' = left - 1
  /\ UNCHANGED <<store, client, server, wire>>

-----------------------------------------------------------------------------
(* cmd_put: a loop over send().                                            *)
StartPut(p, file) ==
  /\ Connect(p)
  /\ cpc' = "put" /\ local' = file
  /\ spc' = "stor"
  /\ before' = disk[p.name].bytes
  /\ UNCHANGED <<filesize, sent, lookup, fd, block, torn>>

Remaining == Len(local) - curr_size

(* The kernel takes bytes of the running send(), which was given the start *)
(* of the file; the last ones end the call.  What the server has hung up   *)
(* on is lost.                                                             *)
PutSend ==
  /\ ClientAt("put") /\ Remaining > 0
  /\ \E k \in 1 .. Minimum(IF s_open THEN Room ELSE Remaining, Remaining - copied) :
       /\ data' = IF s_open THEN data \o SubSeq(local, copied + 1, copied + k)
                  ELSE data
       /\ IF copied + k = Remaining
          THEN curr_size' = Len(local) /\ copied' = 0
          ELSE copied' = copied + k /\ UNCHANGED curr_size
  /\ UNCHANGED <<store, cpc, path, local, filesize, short, server, c_open,
                 s_open, reply, fate>>

(* send() may return having taken only some of the bytes, any number of    *)
(* times.                                                                  *)
PutShort ==
  /\ ClientAt("put") /\ copied > 0
  /\ curr_size' = curr_size + copied
  /\ copied' = 0
  /\ short' = TRUE
  /\ UNCHANGED <<store, cpc, path, local, filesize, server, wire, fate>>

PutClose ==
  /\ ClientAt("put") /\ Remaining = 0
  /\ cpc' = "stored"
  /\ c_open' = FALSE
  /\ UNCHANGED <<store, mine, server, data, s_open, reply, fate>>

PutDone ==
  /\ ClientAt("stored") /\ reply # 0
  /\ Return
  /\ reply' = 0 /\ data' = << >>
  /\ UNCHANGED <<store, spc, lookup, fd, block, c_open, s_open, fate>>

(* The server hung up and send() fails: the client exits.                  *)
PutReset ==
  /\ ClientAt("put") /\ ~s_open
  /\ cpc' = "dead"
  /\ c_open' = FALSE
  /\ UNCHANGED <<store, mine, server, data, s_open, reply, fate>>

-----------------------------------------------------------------------------
(* handle_stor.                                                            *)
StorRefused ==
  /\ ServerAt("stor")
  /\ Hangup(550)
  /\ UNCHANGED <<store, client, history, data, c_open, fate>>

(* Faulty variant: the file is truncated when it is opened.                *)
StorOpenTruncates ==
  /\ ServerAt("stor")
  /\ spc' = "recv" /\ fd' = 0
  /\ disk' = [disk EXCEPT ![path.name] =
                [exists |-> TRUE, usable |-> TRUE, bytes |-> << >>]]
  /\ UNCHANGED <<file_tbl, client, lookup, block, history, wire, fate>>

StorOpen ==
  /\ ServerAt("stor")
  /\ spc' = "recv"
  /\ IF disk[path.name].exists
     THEN /\ fd' = IF disk[path.name].usable THEN 0 ELSE -1
          /\ UNCHANGED disk
     ELSE /\ fd' = 0
          /\ \E u \in BOOLEAN :
               disk' = [disk EXCEPT ![path.name] =
                          [exists |-> TRUE, usable |-> u, bytes |-> << >>]]
  /\ UNCHANGED <<file_tbl, client, lookup, block, history, wire, fate>>

Received(k) == SubSeq(data, 1, k)

(* Faulty variant: the file is opened for appending.                       *)
StorRecvAppends ==
  /\ ServerAt("recv") /\ fd = 0
  /\ \E k \in Receivable :
       /\ disk' = [disk EXCEPT ![path.name].bytes = OnDisk \o Received(k)]
       /\ size' = size + k
       /\ data' = Drop(data, k)
  /\ UNCHANGED <<file_tbl, client, spc, lookup, fd, buf, history, c_open,
                 s_open, reply, fate>>

StorRecv ==
  /\ ServerAt("recv") /\ fd = 0
  /\ \E k \in Receivable :
       /\ disk' = [disk EXCEPT ![path.name].bytes =
                     SubSeq(OnDisk, 1, size) \o Received(k) \o Drop(OnDisk, size + k)]
       /\ size' = size + k
       /\ data' = Drop(data, k)
  /\ UNCHANGED <<file_tbl, client, spc, lookup, fd, buf, history, c_open,
                 s_open, reply, fate>>

(* Write() to the result of a failed open() ends the server.               *)
StorUnopened ==
  /\ ServerAt("recv") /\ fd = -1 /\ data # << >>
  /\ halted' = "file"
  /\ UNCHANGED <<store, client, server, wire, left>>

(* Faulty variant: the loop goes on when recv() returns 0.                 *)
StorEndUnseen == ServerAt("recv") /\ data = << >> /\ ~c_open /\ UNCHANGED vars

(* recv() returns 0.  db_create_file is to insert the row that handle_stor *)
(* has filled in, or fails (its text is not complete); handle_stor does    *)
(* not look at its result.                                                 *)
StorEnd ==
  /\ ServerAt("recv") /\ data = << >> /\ ~c_open
  /\ spc' = "reply"
  /\ \/ file_tbl' = file_tbl \cup
                     {[code |-> MaxTransfers - left, path |-> path, size |-> size]}
     \/ UNCHANGED file_tbl
  /\ UNCHANGED <<disk, client, handler, wire, fate>>

StorReply ==
  /\ ServerAt("reply")
  /\ Hangup(226)
  /\ UNCHANGED <<store, client, history, data, c_open, fate>>

-----------------------------------------------------------------------------
(* cmd_get: the local file is truncated before anything else; SIZE; RETR;  *)
(* a loop over recv() that counts up to the answer to SIZE.                *)
StartGet(p) ==
  /\ Connect(p)
  /\ cpc' = "size" /\ spc' = "size"
  /\ UNCHANGED <<local, filesize, sent, handler>>

SizeFound ==
  /\ ClientAt("size") /\ reply = 213
  /\ cpc' = "get" /\ spc' = "retr"
  /\ reply' = 0
  /\ UNCHANGED <<store, mine, handler, data, c_open, s_open, fate>>

(* Faulty variant: the reply is not tested, and the size is -1.            *)
SizeUnchecked ==
  /\ ClientAt("size") /\ reply = 550
  /\ filesize' = -1
  /\ cpc' = "get" /\ spc' = "retr"
  /\ reply' = 0
  /\ UNCHANGED <<store, path, local, sent, handler, data, c_open, s_open, fate>>

(* cmd_get returns at once and leaves the data connection as it is.        *)
SizeFails ==
  /\ ClientAt("size") /\ reply = 550
  /\ Return
  /\ reply' = 0
  /\ UNCHANGED <<store, spc, lookup, fd, block, data, c_open, s_open, fate>>

GetRecv ==
  /\ ClientAt("get") /\ Len(local) < filesize
  /\ \E k \in Receivable :
       /\ local' = local \o Received(k)
       /\ data' = Drop(data, k)
  /\ UNCHANGED <<store, cpc, path, filesize, sent, server, c_open, s_open,
                 reply, fate>>

(* recv() returns 0, which the loop takes for a block of no bytes.         *)
Spinning ==
  ClientAt("get") /\ Len(local) < filesize /\ data = << >> /\ ~s_open

GetSpins == Spinning /\ UNCHANGED vars

GetEnds ==
  /\ ClientAt("get") /\ Len(local) >= filesize
  /\ cpc' = "got"
  /\ UNCHANGED <<store, mine, server, wire, fate>>

GetDone ==
  /\ ClientAt("got") /\ reply # 0
  /\ Return
  /\ c_open' = FALSE /\ data' = << >> /\ reply' = 0
  /\ UNCHANGED <<store, spc, lookup, fd, block, s_open, fate>>

-----------------------------------------------------------------------------
(* handle_size and handle_retr.  db_find_file looks for a row with the     *)
(* path, and db_get_file asks for the row of the code that was found; its  *)
(* result is not looked at.  If the row has gone in between, file_info has *)
(* what lay on the stack: a directory's mode, any size, the name of any    *)
(* file (of an earlier command's, perhaps) or of none.                     *)
Find(first, second) ==
  /\ ServerAt(first)
  /\ found' \in Rows
  /\ spc' = second
  /\ UNCHANGED <<store, client, md5sum, fd, block, history, wire, fate>>

Gone == found \notin file_tbl

SizeAnswer(answer) ==
  /\ reply' = answer
  /\ spc' = "command" /\ found' = NoRow
  /\ UNCHANGED <<store, cpc, path, local, sent, md5sum, fd, block, before, data,
                 c_open, s_open, fate>>

SizeFind == Find("size", "stat")

SizeMissing ==
  /\ ServerAt("size") /\ Rows = {}
  /\ SizeAnswer(550)
  /\ UNCHANGED <<filesize, torn>>

SizeStat ==
  /\ ServerAt("stat")
  /\ filesize' \in IF Gone THEN StaleSize ELSE {found.size}
  /\ torn' = Gone
  /\ SizeAnswer(213)

SizeDirectory ==
  /\ ServerAt("stat") /\ Gone
  /\ torn' = TRUE
  /\ SizeAnswer(550)
  /\ UNCHANGED filesize

RetrFind == Find("retr", "open")

RetrMissing ==
  /\ ServerAt("retr") /\ Rows = {}
  /\ Hangup(550)
  /\ UNCHANGED <<store, client, history, data, c_open, fate>>

RetrDirectory ==
  /\ ServerAt("open") /\ Gone
  /\ torn' = TRUE
  /\ Hangup(550)
  /\ UNCHANGED <<store, client, before, data, c_open, fate>>

(* open() of ftp_send_file fails: -2, to which ftp_server sends no reply.  *)
RetrUnreadable ==
  /\ ServerAt("open") /\ (Gone \/ ~disk[path.name].usable)
  /\ torn' = (torn \/ Gone)
  /\ Hangup(0)
  /\ UNCHANGED <<store, client, before, data, c_open, fate>>

RetrOpen ==
  /\ ServerAt("open")
  /\ md5sum' \in IF Gone THEN Name ELSE {path.name}
  /\ disk[md5sum'].usable
  /\ torn' = (torn \/ Gone)
  /\ spc' = "send" /\ fd' = 0
  /\ UNCHANGED <<store, client, found, block, before, wire, fate>>

-----------------------------------------------------------------------------
(* ftp_send_file.                                                          *)
Content == disk[md5sum].bytes

(* A block: what Read() got, and behind it what the buffer held before.    *)
Block ==
  LET len == Minimum(BufSize, Len(Content) - size)
  IN  [i \in 1 .. BufSize |-> IF i <= len THEN Content[size + i] ELSE buf[i]]

(* Faulty variant: the file is read from its start again for every block.  *)
SendBlockAgain ==
  /\ ServerAt("send") /\ size < Len(Content)
  /\ Room >= BufSize \/ ~c_open
  /\ buf' = [i \in 1 .. BufSize |-> IF i <= Len(Content) THEN Content[i] ELSE buf[i]]
  /\ size' = Minimum(size + BufSize, Len(Content))
  /\ data' = IF c_open THEN data \o buf' ELSE data
  /\ UNCHANGED <<store, client, spc, lookup, fd, history, c_open, s_open,
                 reply, fate>>

(* Faulty variant: a block that is not full is not sent.                   *)
SendBlockFullOnly ==
  /\ ServerAt("send") /\ size < Len(Content)
  /\ Room >= BufSize \/ ~c_open
  /\ buf' = Block
  /\ size' = Minimum(size + BufSize, Len(Content))
  /\ data' = IF c_open /\ size + BufSize <= Len(Content) THEN data \o buf' ELSE data
  /\ UNCHANGED <<store, client, spc, lookup, fd, history, c_open, s_open,
                 reply, fate>>

(* The whole buffer is sent, however many bytes Read() got.  Until the     *)
(* kernel knows that the client has closed, it takes bytes and drops them. *)
SendBlock ==
  /\ ServerAt("send") /\ size < Len(Content)
  /\ Room >= BufSize \/ ~c_open
  /\ buf' = Block
  /\ size' = Minimum(size + BufSize, Len(Content))
  /\ data' = IF c_open THEN data \o buf' ELSE data
  /\ UNCHANGED <<store, client, spc, lookup, fd, history, c_open, s_open,
                 reply, fate>>

SendEnd ==
  /\ ServerAt("send") /\ size >= Len(Content)
  /\ Hangup(226)
  /\ UNCHANGED <<store, client, history, data, c_open, fate>>

-----------------------------------------------------------------------------
(* What can happen to the two.                                             *)

(* Another session deletes a row.  The file stays on the disk.             *)
DeleteRow(r) ==
  /\ halted = "no"
  /\ r \in file_tbl
  /\ file_tbl' = file_tbl \ {r}
  /\ UNCHANGED <<disk, client, server, wire, fate>>

(* The client is killed.  What it has sent still arrives; what was sent to *)
(* it is lost.                                                             *)
ClientDies ==
  /\ halted = "no"
  /\ cpc \in {"put", "stored", "size", "get", "got"}
  /\ cpc' = "dead"
  /\ c_open' = FALSE
  /\ data' = IF cpc \in {"put", "stored"} THEN data ELSE << >>
  /\ UNCHANGED <<store, mine, server, s_open, reply, fate>>

(* A block or a reply is sent to a client that is gone.                    *)
PeerReset ==
  /\ ClientAt("dead")
  /\ spc \in {"size", "stat", "retr", "open", "send", "reply"}
  /\ halted' = "peer"
  /\ UNCHANGED <<store, client, server, wire, left>>

(* The session of the dead client ends, and the client is started again.   *)
NewClient ==
  /\ ClientAt("dead") /\ spc = "command"
  /\ Return
  /\ data' = << >> /\ reply' = 0
  /\ UNCHANGED <<store, spc, lookup, fd, block, c_open, s_open, fate>>

(* The server, and with it the client, is started again: the disk and the  *)
(* catalogue are as the end of the server left them.                       *)
Restart ==
  /\ halted # "no"
  /\ halted' = "no"
  /\ Return
  /\ Hangup(0)
  /\ data' = << >> /\ c_open' = FALSE
  /\ UNCHANGED <<store, left>>

-----------------------------------------------------------------------------
ServerStep == \/ StorOpen \/ StorRecv \/ StorUnopened \/ StorEnd \/ StorReply
              \/ SizeFind \/ SizeMissing \/ SizeStat \/ SizeDirectory
              \/ RetrFind \/ RetrMissing \/ RetrDirectory \/ RetrUnreadable
              \/ RetrOpen
              \/ SendBlock \/ SendEnd

ClientStep == \/ PutSend \/ PutClose \/ PutDone
              \/ SizeFound \/ SizeFails \/ GetRecv \/ GetSpins \/ GetEnds \/ GetDone

Start == \E p \in Path : StartGet(p) \/ \E file \in LocalFile : StartPut(p, file)

Fault == \/ PasvClash \/ PutShort \/ PutReset \/ StorRefused
         \/ ClientDies \/ PeerReset \/ NewClient \/ Restart

Next == \/ Start \/ ClientStep \/ ServerStep \/ Fault
        \/ \E r \in file_tbl : DeleteRow(r)

SafeSpec == Init /\ [][Next]_vars

(* Both programs run on: weak fairness of their own steps.  Nobody has to  *)
(* start a transfer, to delete, to fail or to start anything again.        *)
Spec == SafeSpec /\ WF_vars(ServerStep) /\ WF_vars(ClientStep)

-----------------------------------------------------------------------------
(* A row promises its size to SIZE and to the loop of every later get,     *)
(* while all files of one name share the bytes: an upload to another       *)
(* directory, one cut off by the client's death, or a restart must not     *)
(* leave a row with more than there is on the disk (handle_stor).          *)
DiskHoldsSize ==
  \A r \in file_tbl : /\ disk[r.path.name].exists
                      /\ r.size <= Len(disk[r.path.name].bytes)

(* Behind a confirmed upload the file on the disk has the bytes of the     *)
(* local file, however the stream was cut into recv() calls, and after     *)
(* them what the longer file of that name had before.  After an upload     *)
(* with a short send() only the length is right (client.c:145).            *)
StoredAsSent ==
  cpc = "stored" /\ reply = 226 =>
    /\ Drop(OnDisk, Len(local)) = Drop(before, Len(local))
    /\ Len(OnDisk) >= Len(local)
    /\ ~short => SubSeq(OnDisk, 1, Len(local)) = local

(* A download that counted up to its size has that much of the file, in    *)
(* order, and less than a block more (factory.c:434 sends whole buffers),  *)
(* unless the row was deleted between the two queries of SIZE or of RETR   *)
(* (factory.c:471, 476, 519, 524).                                         *)
DownloadTrue ==
  cpc = "got" /\ ~torn =>
    /\ Len(local) < filesize + BufSize
    /\ SubSeq(local, 1, filesize) = SubSeq(OnDisk, 1, filesize)

(* The loop of cmd_get (client.c:193) runs on for ever only when every row *)
(* of the path went before RETR looked for one, or one that was found went *)
(* before db_get_file asked for it (factory.c:476, 524), or the file on    *)
(* the disk cannot be opened: never for lack of bytes, though the size     *)
(* comes from a row and the bytes from a file that other rows share.       *)
SpinExplained ==
  Spinning => \/ torn
              \/ reply = 550 /\ Rows = {}
              \/ ~disk[path.name].usable

(* The server gets out of every transfer, whatever becomes of its client,  *)
(* unless it ends, or client and server wait for each other: the client    *)
(* has counted up to the size and reads no more, and the file on the disk  *)
(* is longer by what an earlier file of that name left.                    *)
OldTailWaits == cpc = "got" /\ spc = "send" /\ Len(Content) > filesize

ServerFreed ==
  spc # "command" ~> (spc = "command" \/ halted # "no" \/ OldTailWaits)
=============================================================================

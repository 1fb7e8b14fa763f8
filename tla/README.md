# tiny-ftp in TLA+

A formal model of tiny-ftp, a small FTP server and client in C: a thread pool
that serves control connections, sessions with passive-mode data transfers, a
directory catalogue kept in a MySQL table, and a command-line client. The
modules translate the C source under `src/` (paths below are relative to the
repository's root; `factory.c` is `src/factory.c`); the repository's own README is
one line, so the comments in the code are the only documentation the model is
compared with.

At this commit the server does not compile: `src/factory.c:579` lacks a
semicolon and `src/user_info.c:317` declares `p_file_infofile` and goes on to
use undefined names. The first is read as the statement it must be. The
function with the second one, `db_create_file`, has no complete text; `Transfer`
takes it for what its caller `handle_stor` prepares and names: the insertion of
the row, or a failure that the caller does not look at.

## 1. Inventory

| Component | State | Operations | Talks to |
|---|---|---|---|
| Task queue (`queue.c`) | ring, `size`, `front`, `rear`, mutex | `enqueue`, `dequeue`, `front`, tests; ends the process when full or empty | main, workers |
| Thread pool (`main.c`, end of `factory.c`) | main's and each worker's place, condition variable | accept loop, worker loop | queue (shared), sessions (call) |
| Sessions (`ftp_server`) | login state, control, listening and data sockets | USER/PASS, PASV, LIST, RETR, STOR, QUIT, TYPE, disconnection | kernel (descriptors, one data port), catalogue (queries), client (messages) |
| Catalogue (`user_info.c`, `handle_*`) | table `file_tbl`; per session `pwd_code`, `pwd`, `user`, `file` | CWD, MKD, RMD, DELE, SIZE and the queries of LIST, RETR, STOR | database (queries) |
| Authentication (`db_get_user`) | table `user_tbl` | look-up of the password | sessions |
| File transfer (`ftp_send_file`, `handle_stor`, `tran_list_info`) | open file, block buffer, files on the disk | blocks over the data connection | client (bytes), catalogue (rows), file system |
| Path and command parsing (`split_cmds`, `split_path`, `reverse`, `ftp_strcmp`) | none | pure | sessions |
| Client (`client/client.c`) | two sockets, place in a script | one script of commands and replies per user command | sessions (messages), data port |
| Configuration (`conf.c`) | scanner position, current and previous token, `config` | load once at start | main |
| Socket wrappers (`pool.c`) | none | system calls, each ends the process on failure | everything |
| Process-pool leftovers (`child.c`, `send_fd.c`, `tran_file.c`) | | nothing calls them | |

What is hard about it:

* Threads share the queue, the descriptor table, one data port and the database
  without any coordination other than the queue's mutex.
* `pthread_cond_wait` stands in an `if`, and the signal is sent after the unlock.
* Every failed system call ends the process, so the fault of one session is the
  end of all of them. In the models this is a state (`halted`), not the end of
  the behaviour that is looked at.
* A command on the catalogue is a sequence of separate queries, each on a
  connection of its own, with no transaction around them. Results are often not
  looked at, and variables are read that were never written.
* No message on the control connection says where it ends, and the client leaves
  replies unread, so the two sides' ideas of what is being answered drift apart.
* A file is in three places, which are changed one after the other: the disk
  (by its last name only), the catalogue (by its path) and the client.
* No call has a timeout.

What makes each part correct:

* pool: no connection lost, duplicated or starved; the emptiness test holds
  until the dequeue; a burst that fits does not end the process;
* sessions: descriptors are used only by their owner and only while open; no
  connection leaks; one holder of the data port; a worker whose client has left
  becomes free;
* catalogue: no cycles, no children of files, directories with names of their
  own that are removed only when empty, a shown path that is true, and confirmed
  removals that took place;
* dialogue: a reply is taken for the answer to the command it answers where it
  matters, both sides agree on the data connection, each command ends;
* transfer: what is confirmed is stored, what is stored is what is downloaded,
  no row promises bytes that are not there, and nobody waits for ever;
* configuration: each item has the value the file gives it, and parsing ends.

`PROJECT.json` lists the hazards line by line.

## 2. Modules

| Module | Models | Role |
|---|---|---|
| `TaskQueue` | `queue.c` | operators on the ring, its contents, its representation invariant |
| `ConnectionDispatch` | | what the pool promises: arrival order, one worker each |
| `ThreadPool` | `main.c`, `factory.c` 1123-1165 | the threads; extends `TaskQueue`, implements `ConnectionDispatch` |
| `DataPort` | | one data port, held by one session at a time, possibly lost |
| `Session` | `ftp_server` without the catalogue, `pool.c` | login, passive mode and descriptors of several sessions; implements `DataPort` |
| `Catalogue` | `user_info.c`, the `handle_*` functions | one action per query |
| `FtpLink` | `client.c` and the dialogue of `ftp_server` | client and session over the control and the data connection |
| `Transfer` | `cmd_put`, `cmd_get`, `handle_stor`, `handle_retr`, `ftp_send_file` | the bytes of files, the disk and the catalogue's rows of files |
| `Conf` | `conf.c`, `conf.h` | scanner and parser of the configuration |
| `MC*` | | symmetry sets, constant values and input sets for TLC |
| `TaskQueueProofs`, `ThreadPoolProofs`, `ThreadPoolWakeups` | | theorems about the queue and the pool |
| `SessionProofs`, `CatalogueProofs`, `FtpLinkProofs`, `TransferProofs`, `ConfProofs` | | theorems about the module of that name |

**ThreadPool.** Each access to the queue is under its mutex, so a queue operation
is one step; lock, emptiness test, wait, return from the wait, dequeue, unlock
and signal are separate steps. `wpc[w]` is the line the worker is at: `"resume"`
is the return from the wait, after which the code does not look at the queue
again, `"dequeue"` is the way past the `if`. `pthread_cond_signal` wakes any one
waiting worker; the woken worker competes for the mutex. `Error(...)` in
`enqueue` and `front` is `halted' = "full"` or `"empty"`. Connections that are
closed can be opened again.

**Session.** The descriptor table is modelled (lowest free number first), because
the code keeps numbers of sockets in local variables and descriptors are reused
across sessions. `Tcp_init` is two steps, bind and listen: with `SO_REUSEADDR`
two sockets may be bound to the port until one of them listens. `gone[s]` is the
client's close, which may happen at any moment; what the server makes of it
depends on where the session is (`Disconnected`, `PassGone`, `PeerReset`).
Commands that touch none of the state are left out. A send to a client that has
left *may* end the process, at the kernel's choice. USER without an argument and
a blank line in the place of PASS hand a null pointer to `strcpy` and `strcmp`
and end it for certain (`UserNull`, `PassBlank`; `factory.c` 623, 627, 1084, 1088);
the repository's client sends neither.

**Catalogue.** One query is one step; `at[s]` names the next one. A path is a start
and a sequence of names, since both are all that `split_path` leaves of it.
`db_get_file` returns the set of at most one row, so that a caller that ignores
its failure is visible: `Mode` gives either answer then, and `Parent` uses what
`file.precode` held (`filePre`, `-1` for never written, in which case it is any
value of `Garbage`; `wild` is a history variable: such a value was the code of a row
that was still to come). Where `failing` is TRUE (`Outages` says which values are
considered) any query may fail at any time: a failed look-up is a row not found,
a failed test of emptiness can go either way, a failed delete leaves the row; a
refused insert (`MkdRefused`) needs no failing database. `Login` is a completed
USER/PASS for another user, `NewSession` the end of a session and the start of
its worker's next one.

**FtpLink.** Each label of `cpc` is a place between two calls in a command of the
client, so that a script is a chain of labels: the server moves between any two
of its sends and receives. `c2s` and `s2c` are what is under way; one receive
takes any number of messages at once. `First` is what `split_cmds` makes of
several commands: the first one, with the words of the others for arguments.
The client looks at the first code of what it has received (`Heard`). A data
connection holds `Capacity` blocks that the client has not read, and the server
waits in `Send` while it is full; what RETR sends is the file on the disk, whose
length need not be the size that SIZE told (`ServeRetr`). The
commands the author left in `cmd_open`, MKD between USER and PASS and CWD behind
them, are in `OpenScript`. `ahead` is a history variable: the replies the client
does not wait for, less those it waits for in vain. Outcomes of the catalogue
(`Answers`) and of the look-up of a user (`account`) are choices. `Killed` is the
user's kill, which may come at any moment.

**Transfer.** The file on the disk is named by the last name of the path, the row
by the whole path. SIZE and RETR are two queries each, `db_find_file` for a code
(`SizeFind`, `RetrFind`) and `db_get_file` for its row, whose result the code does not
look at. Another session may delete the row in between (`DeleteRow`): then the mode,
the size and the name of the file are what lay on the stack, any value of
`StaleSize` and any name or none, and the history variable `torn` says that it
happened. The stream `data` holds what is under way, up to `StreamCap`; a send that
does not fit goes on in steps and may return early, any number of times
(`PutShort`); a receive takes any part. `ftp_send_file` sends its whole buffer, with
what the block before left in it (`Block`). The client may die, files may not be
usable when opened again (they are created without a mode), and after the end of
the server `Restart` starts it over the disk and the catalogue as they were. Queries
that fail are the business of `Catalogue`, the replies before the last one that of
`FtpLink`. `before` is a history variable.

**Conf.** A file is a sequence of pieces: names, digits, dots, `=`, `#`, newlines,
other characters. A step of the scanner reads one piece; the parser takes each
token as it is completed. Kept as in the code: whether digits begin an address
or a number depends on the token before the current one; a character that begins
no token hands the old token to the parser again; the end of the file cannot be
written back; a comment looks for a newline only; numbers are taken modulo 2^16.

The definitions commented as faulty variants stand before the definition they
vary and are no part of any specification: put in its place, each must violate
the property it is listed with in `PROJECT.json`.

## 3. Runs

| Run | Expect | Shows |
|---|---|---|
| `pool_safety` | pass | types, `ControlInv`, `OnePlace`, `NoLostWakeup`, `CheckedStaysNonEmpty`: 4 connections, 3 workers, 3 slots |
| `pool_live` | pass | `EveryConnectionServed`, `SmallBurstFits`, refinement of `ConnectionDispatch` with its fairness: 3 connections, 2 workers |
| `pool_steal` | violation | the server ends on an empty queue without any spurious wakeup |
| `session` | pass | `OwnDescriptors`, `NoConnectionLeaks`, `WorkerFreed`, refinement of `DataPort`: 2 sessions, 4 descriptors |
| `session_port` | violation | a PASV meets the socket of another one and ends the server |
| `catalogue_single` | pass | one session, two users and a database that may fail: `NoFileParent`, `PwdTrue`, `RemovedIsGone`, `RemovesOwnKind` |
| `catalogue_shared` | pass | `ParentsFirst`, `PwdTrue`, `DeletedIsGone` with two sessions |
| `catalogue_race` | violation | two sessions create one directory twice: what MKD and RMD have looked at changes before they act (`ActsOnLook`) |
| `link` | pass | `AnnouncedInStep`, `DataAgreed`, `Answered`, `AcceptEnds`: every script of three commands after a login |
| `link_login` | violation | a user with the right password is not logged on by `cmd_open` |
| `transfer` | pass | `DiskHoldsSize`, `StoredAsSent`, `DownloadTrue`, `SpinExplained`, `ServerFreed`: two transfers with deletions, deaths and restarts |
| `conf` | pass | `AsWritten`, `Accountable`, `Terminates`: all files of up to four fragments |

The four violations are disagreements between the code and its own comments or
messages; `findings` in `PROJECT.json` quotes them.

What the passing runs say besides, as the conditions of their properties:

* Catalogue. The counterexample of `catalogue_race` has two MKD of one name, which both
  find no directory before either inserts one. The other half of `ActsOnLook` fails in
  the same way, by a longer trace: MKD creates a directory in one that RMD has
  found empty and removes afterwards. With one session the property holds. MKD in a
  removed working directory inserts a row below nothing; RMD of another user's
  directory is confirmed and removes nothing (`RemovedIsGone` speaks about the
  user's own); RMD sees its user's rows only and leaves those of others in it.
  What an earlier command left in `file.precode` makes no cycle; what was never
  written there may, if it happens to be the code of a row still to come (`wild`, the
  exception in `ParentsFirst`).
* FtpLink. `cmd_open` leaves the replies to its MKD and CWD unread and `ls` one
  more, so a later PASV can take a stale reply for its own: the port is `-1`,
  the client exits, and the server stays in `Accept` (the exception of
  `AcceptEnds`). Replies are swallowed when 150 and 226 arrive in one receive,
  when the command stood in the place of PASS, when MKD or RMD get "/", and
  when RETR cannot open its file; a command then waits for ever once `ahead` is
  negative (an exception of `Answered`, like the client that loops on a data
  connection that was closed early, and `MutualWait`). What the client does rely on, that the
  answer it reads as the announcement of its transfer is that announcement, and
  that both are on the same data connection, does hold however far the replies
  are out of step (`AnnouncedInStep`, `DataAgreed`): reading 227 puts them in step.
* Transfer. After an upload with an early return of `send` only the length is
  right, because the next call starts from the beginning of the file again, and an
  upload over a longer file leaves its end behind the new bytes, since the file is
  opened without `O_TRUNC` (`factory.c` 562; the comment at 539 says that it is
  overwritten): `StoredAsSent` says both. The last block of a download is padded
  (`DownloadTrue`). When the file on the disk is longer than its row says, and than
  the kernel buffers, client and server wait for each other (`OldTailWaits` here,
  `MutualWait` in `FtpLink`). A row that goes between the two queries of SIZE or RETR
  can make a download anything: a size that was never written, another file, or a
  loop without an end (`torn`, the exception of `DownloadTrue` and `SpinExplained`).
* Conf. A file that ends right behind a name or number ends the server, a comment
  on the last line without a newline never ends, a missing file crashes the
  parser although the message speaks of defaults (`AsWritten` is about files that are there), and a stray character at the
  very start counts as `server_ip` (the exception in `Accountable`).

Bounds, and why they are enough (for safety the theorems of section 5 remove
them):

* Pool: more connections than slots (4 over 3), so the queue overflows and the
  ring wraps; fewer workers than connections and at least two that compete for
  a wakeup; the smallest legal capacity. Connections come back after they are
  closed, so the number of enqueues is not bounded. The liveness run has fewer of everything and as many
  connections as slots, the largest burst that must fit.
* Sessions: two sessions make every conflict over the port and over a reused
  number. Four descriptors are the control connections of both and a listening
  and a data socket, or everything one session can hold (with an open file), and
  the table runs out. (`session` also holds with five, where one session holds
  everything beside the other: 1,190,835 states in four minutes.) Seven in
  `session_port` keep exhaustion out of the counterexample.
* Catalogue: `MaxCode = 3` is the stored file and two rows made by MKD, which is
  enough for a parent and a child, for two directories of one name, and for a
  code that is stale. With `MaxDepth = 2` one session takes paths through an
  intermediate directory; two sessions take paths of one name, and reach depth
  two through CWD and "..". `Garbage` is every code in `catalogue_single` and
  `catalogue_shared`. When the codes are used up MKD can only be refused.
* Dialogue: two blocks are one that fills the connection (`Capacity` is 1) and one that
  waits to be sent.
  Three commands after a login are one that leaves the replies out of step, one
  that meets this, and one that shows whether it was put right (two transfers
  and a QUIT, or PASV after a failed SIZE, where the port is taken). One
  connection: a second one starts from empty streams, but for a port that was
  left taken, which the transfer of the first already meets.
* Transfer: a block of two bytes and files of one, three, four and five bytes are
  below a block, in its middle, at a multiple of it, and above what the kernel
  and the client take together. Two names and two directories give files that
  share the bytes on the disk and files that do not; two transfers are an upload
  and a download of it, an upload over another, or one after a failed one.
  `StaleSize` has a size below every file's, one among them, and one above all; -1 is
  left out, which the code takes for its own sign of failure and answers like one.
* Configuration: four fragments of up to six pieces are two assignments to one
  item with something between them and something behind, for numbers, addresses
  and comments alike; one number is above 2^16 and wraps to the other.

## 4. Fairness

* `ThreadPool`: weak fairness of main and of each worker: the scheduler runs a
  thread that can run, and a glibc mutex promises no more. It includes that a
  session ends, which is the client's doing and stands for a client that does not
  stay for ever. Clients need not connect, sessions need not exit, wakeups need
  not be spurious. The property holds although locks are not handed over fairly,
  since a task has a worker on its way (`NoLostWakeup`) and a thread that takes the
  mutex instead finds the task itself.
* `Session`: weak fairness of what the server does by itself, with the end of a
  transfer (its peer has closed or reads on); strong fairness of finding the end
  of the control stream: a client that has left sent finitely many commands, so a
  session cannot find more of them for ever. Nothing is assumed about clients that
  stay, and nothing about the one that must connect to the data port, so `Accept`
  is an exception in `WorkerFreed`.
* `FtpLink` and `Transfer`: weak fairness of the client's steps and of the
  server's: both programs run on, and TCP delivers what was sent. A user who has
  started `open` types a name and a password. Nobody has to give the next command,
  to kill the client, to delete a row, to start anything again; no send has to
  fail, or to return early.
* `Conf`: weak fairness of the only thread there is.
* `Catalogue` is checked for safety only. That its commands end follows from
  `ParentsFirst`, but for `wild`: every climb goes to smaller codes, and paths are
  finite.

## 5. Proofs

The theorems hold for every value of the constants that the named assumptions
allow. They are safety theorems: of `Session` and `FtpLink` about `SafeSpec`, the
specification without its fairness. Every inductive invariant was given to TLC
on the instances of section 3 before it was proved.

**Queue and pool** (`QueueAssumption`, `PoolAssumption`: any set of connections, any
finite set of workers, any capacity of at least three, since `init_queue` refuses
less; with or without spurious wakeups).

* `TaskQueueProofs`: on well-formed rings `enqueue` appends to the contents and
  `dequeue` takes their head (`EnqueueAppends`, `DequeueRemovesHead`). The argument is
  the index arithmetic of `Slot`: the slot after the newest element is where `rear`
  goes next, and it is no slot in use unless the ring is full.
* `ThreadPoolProofs`: `Control` proves `ControlInv` inductive. Types alone are not:
  that the ring stays a ring needs `WellFormed`; that a dequeue finds the tested
  task needs `LockDiscipline`, since only the owner of the mutex changes the queue;
  that an enqueued element is a connection needs `HoldsWhenDue`. `TypeCorrect` and
  `CheckedTaskStays` follow from it; `OnePlaceAlways` proves `OnePlace` inductive
  relative to it, with the two theorems on the ring for the steps that move a
  connection.
* `ThreadPoolWakeups`: `WakeupsKept` proves `NoLostWakeup` by counting the workers on
  their way to the dequeue against the queued tasks, relative to `ControlInv`;
  `SmallBurstNeverFull` counts the distinct connections in a full queue and the one
  in main's hand, which `OnePlace` keeps apart.
* `PoolImplementsDispatch` maps the initial state and every
  step to `ConnectionDispatch`: enqueue to `Arrive`, dequeue to `Take`, the end of a
  session to `Finish`, each exit to `GoDown`, and all others to a stutter.

**Sessions** (`SessionAssumption`: any set of sessions, any limit on descriptors).
`SessionInv` is `OwnDescriptors` and `NoConnectionLeaks` with what makes them
inductive: the sockets a session must have where it is, that a socket that is
bound and does not listen yet belongs to the session between the two calls, and
that only one socket of the table listens (which the exclusion of the port rests
on). Each step of the table opens or closes one number; the proof shows that the entry is
free or the session's own, so that no other session's sockets are touched.
`SessionsImplementDataPort` maps `Holder` and `PortTaken` to the abstract port:
listen takes it, the close after a transfer gives it back, a session that ends
while it listens loses it, and the exits go down.

**Catalogue** (`CatalogueAssumption`: any sessions, users, names and stored files
with distinct codes at the root).

* `CatalogueInv` says what a session still knows of rows it looked up several
  queries ago. It works because codes are handed out once (`RowsCoded`): a row with
  the same code is the same row or gone, so that its mode cannot have changed,
  whatever other sessions did. For a failing database only what a removal has
  tested itself is kept (`TargetKnown`). `NoFileParent`, `RemovesOwnKind`,
  `DeletedIsGone` and `RemovedIsGone` follow for any number of sessions.
* `ParentsComeFirst` has no hypothesis on `Garbage`: `ParentsFirst` itself names, by the
  history variable `wild`, the one case in which it may fail. `UsedInv` says why
  there is no other: until then every code that a session holds, the stale ones
  included, was handed out before.
* `PathsShownAreTrue` proves `PwdTrue` without a hypothesis. While a session climbs,
  others remove directories it has passed and create new ones; the invariant
  `Climbed` therefore speaks about every part of the table in which the working
  directory still leads to the root: there the names collected so far, turned round,
  are the rest of the path. `Rooted` and `PathOf` are recursive functions. That
  they exist, and that two tables with the same rows below a code have the same
  paths, is shown by the least code for which it would fail (`LeastExists`). Where
  a climb meets a row that is gone, the working directory does not lead to the root
  any more, and nothing is promised.

**Dialogue** (`LinkAssumption`: any number of blocks and any capacity of at least one, any
number of `open`s and of commands).
`LinkInv` bounds what is under way between the two programs instead of counting
replies, which is hopeless once they are out of step: PASV is always the last
command under way, nothing follows a 227, and a client that has read it finds the
session in `accept` with nothing else under way (`InStep`). This is why 227 puts
both sides in step however many stale replies there were (`AnnouncementsAreInStep`,
`DataConnectionsAgree`). `BlocksInv` counts the blocks of a listing or file that are
sent and still to be sent. `Answered` and its exceptions are only model-checked.

**Transfer** (`TransferAssumption`: any bytes, paths, local files that are not empty
and stored files with distinct last names; any block size that is not greater than what the
stream takes; at least one path). `TransferInv` follows each byte: what the server
has received is on the disk and what is under way comes next, before the rest of
the earlier file (`UploadInv`); what the client has received is the start of the
file and what is under way comes next, the padding of the last block apart
(`DownloadInv`), as long as no row went between two queries (`torn`). `SpinsAreExplained`
rests on `DiskHoldsSize`: a file that can be opened has as many bytes as the client
counts on. `DiskHoldsSize` rests on `DiskInv`: the size that an
upload will register is what it has written, and that much is on the disk; no
upload makes a file shorter, also not one to another directory with the same last
name.

**Configuration** (`ConfAssumption`: any files of pieces as the scanner cuts them, of any
length). `Text`, the file without comments and newlines, is a recursive function
(`TextUpTo`); that it exists is shown by the least length for which it would not
(`TextExists`), and that it grows as the scanner reads by one piece or by an
address (`PieceRead`, `SkipRead`, `AddressRead`).

* `ConfInv` relates the parser to the text read so far: each name in it begins a
  whole assignment or is the one the parser is at (`ItemsInv`), the current token
  is that of the last piece (`WaitInv`), and each stored value is that of the last
  whole assignment or the default (`ValuesInv`). A stray character at the very start
  is the one case in which the parser is at no name (`Phantom`).
  `ConfAccountableAlways` follows for any file at all.
* `ConfigurationIsAsWritten` needs that a well-formed file is accepted, so that no
  step may be one of the exits. `Expected` shows that the next piece of such a file
  is what the parser waits for, and `WrittenInv` has what it rests on: the token
  before the "=" is the item, on which the choice between number and address
  depends, and after a value comes no digit or dot. The digits and dots that the
  scanner takes are thereby the run of them that `Address` means.

Only model-checked:

* liveness (`EveryConnectionServed`, `WorkerFreed`, `Answered`, `AcceptEnds`,
  `ServerFreed`, `Terminates`) and `DispatchSpec`'s fairness: fairness and ENABLED are
  out of reach of the proof system.

Every invariant and every other safety property that a passing run checks is a
theorem.

## 6. Not modelled, and the plan

Not modelled:

* Client: commands before the first `open` (they write to descriptor 0), a second
  `open` without a close, `help`, and messages that a receive buffer cuts. From
  line 482 on `client.c` is behind the `return 0` of `main` and never runs.
* Dialogue: replies to TYPE and SYST, unknown commands, the text of replies; the
  parts of a command that arrive separately.
* Parsing: the character loops of `split_cmds`, `split_path`, `ftp_strcmp`,
  `str_replace` and `reverse`: their results are the types `Path` and `Command`.
  Names are shorter than the buffers they are copied to.
* Authentication: the text of passwords, `user_tbl`.
* Catalogue: the query of `db_list_info`; the MySQL connections that early returns
  of `user_info.c` leave open are outside the descriptor table of `Session`.
* Transfer: a connection that is reset during an upload (`Recv` returns -1); the
  server sends nothing on it that could make the client's close a reset.
* Configuration: whether the digits and dots of an address are one
  (`inet_addr` of others is `INADDR_NONE` and is stored), names and numbers longer
  than the token buffer.
* The epoll, socketpair and descriptor-passing functions, left over from a design
  with child processes: nothing in the server calls them.

Next: `DirPath`, with `split_path`, `split_cmds` and the string form of `db_get_pwd` as
functions, checked against reference definitions for all short inputs.

------------------------------- MODULE Catalogue -------------------------------
(***************************************************************************)
(* The server's catalogue: the table file_tbl that src/src/user_info.c     *)
(* keeps in MySQL, and the commands of src/src/factory.c that read and     *)
(* change it (CWD, MKD, RMD, DELE, SIZE), each of which is a sequence of   *)
(* separate queries.  Sessions run at the same time, so the queries of one *)
(* command interleave with those of others; one query is one step.         *)
(*                                                                         *)
(* A row has the code of its directory (precode, 0 for the root), its own  *)
(* code (AUTO_INCREMENT), a name, a mode and an owner.  A path is a start  *)
(* ("/", the working directory or "..") and a sequence of names.           *)
(***************************************************************************)
EXTENDS Integers, Sequences, SequencesExt

CONSTANTS
  Session,      (* the sessions that are logged on                         *)
  User,         (* the user names                                          *)
  Name,         (* the names of files and directories                      *)
  StoredFiles,  (* rows of regular files that are there at the start       *)
  Garbage,      (* what a precode that was never written may hold          *)
  Outages,      (* is the database reliable, or may any query fail?        *)
  MaxCode,      (* bound: the last code the table hands out                *)
  MaxDepth      (* bound: the names in a path                              *)

Code == 1 .. MaxCode

Row == [precode : Code \cup {0}, code : Code, filename : Name,
        st_mode : {"dir", "reg"}, owner : User]

ASSUME CatalogueAssumption ==
  /\ MaxCode \in Nat /\ MaxDepth \in Nat
  /\ Garbage \subseteq Code \cup {0} /\ Garbage # {}
  /\ Outages \subseteq BOOLEAN
  /\ StoredFiles \subseteq Row
  /\ \A r \in StoredFiles : r.st_mode = "reg" /\ r.precode = 0
  /\ \A r, q \in StoredFiles : r.code = q.code => r = q

Path == [from : {"root", "here", "up"},
         dirs : UNION {[1 .. n -> Name] : n \in 0 .. MaxDepth}]

Command == {"CWD", "MKD", "RMD", "DELE", "SIZE"}

VARIABLES
  failing,    (* any query may fail, at any time                           *)
  file_tbl,   (* the rows                                                  *)
  nextCode,   (* the code of the next row                                  *)
  user,       (* user.username of each session                             *)
  pwd_code,   (* the code of each session's working directory              *)
  pwd,        (* its path as the session shows it, a sequence of names     *)
  filePre,    (* file.precode of ftp_server, -1 while it is uninitialised  *)
  wild,       (* history: an uninitialised precode was used that held a    *)
              (* code the table had not handed out                         *)
  cmd,        (* the command each session runs, or "none"                  *)
  at,         (* the query it makes next; "idle" between commands          *)
  code,       (* the code the command has reached                          *)
  dirs,       (* the names it has still to look up, or has collected       *)
  reply       (* the reply of the last command, 0 if it has none (yet)     *)

table == <<failing, file_tbl, nextCode>>
place == <<user, pwd_code, pwd, filePre, wild>>
vars == <<table, place, cmd, at, code, dirs, reply>>

Query == {"parent", "check", "walk", "change", "pwd", "kind", "exists", "insert",
          "emptykind", "emptyrows", "find", "mode", "removekind", "delete"}

TypeOK ==
  /\ failing \in BOOLEAN
  /\ file_tbl \subseteq Row
  /\ nextCode \in 1 .. MaxCode + 1
  /\ wild \in BOOLEAN
  /\ user \in [Session -> User]
  /\ pwd_code \in [Session -> Code \cup {0}]
  /\ pwd \in [Session -> Seq(Name)]
  /\ filePre \in [Session -> Code \cup {0, -1}]
  /\ cmd \in [Session -> Command \cup {"none"}]
  /\ at \in [Session -> Query \cup {"idle"}]
  /\ code \in [Session -> Code \cup {0}]
  /\ dirs \in [Session -> Seq(Name)]
  /\ reply \in [Session -> {0, 213, 250, 257, 550, 551}]

Init ==
  /\ failing \in Outages
  /\ file_tbl = StoredFiles
  /\ nextCode = 1 + Max({r.code : r \in StoredFiles} \cup {0})
  /\ wild = FALSE
  /\ user \in [Session -> User]
  /\ pwd_code = [s \in Session |-> 0]
  /\ pwd = [s \in Session |-> <<>>]
  /\ filePre = [s \in Session |-> -1]
  /\ cmd = [s \in Session |-> "none"]
  /\ at = [s \in Session |-> "idle"]
  /\ code = [s \in Session |-> 0]
  /\ dirs = [s \in Session |-> <<>>]
  /\ reply = [s \in Session |-> 0]

-----------------------------------------------------------------------------
(* The queries, each over the table as it is at that moment.  db_find_dir  *)
(* and db_find_file return the code of one row that matches, whichever the *)
(* database finds first, or -1, also when the query failed.                *)

Codes(rows) == IF rows = {} THEN {-1}
               ELSE {r.code : r \in rows}
                    \cup (IF failing THEN {-1} ELSE {})

db_find_dir(pre, name) ==
  Codes({r \in file_tbl :
           r.precode = pre /\ r.filename = name /\ r.st_mode = "dir"})

db_find_file(username, pre, name) ==
  Codes({r \in file_tbl :
           r.owner = username /\ r.precode = pre /\ r.filename = name})

(* The row db_get_file copies, as the set of at most one row, and the case *)
(* that it copies none.                                                    *)
db_get_file(c) == {r \in file_tbl : r.code = c}

Missing(c) == failing \/ db_get_file(c) = {}

(* What a caller that looks at db_get_file's result may find of the mode.  *)
Is(c, m) == \E r \in db_get_file(c) : r.st_mode = m

IsNot(c, m) == failing \/ ~Is(c, m)

(* Is the row with this code of that mode?  A caller that does not look at *)
(* the result tests a variable that was never written if there is no row.  *)
Mode(c, m) == {answer \in BOOLEAN : Missing(c) \/ answer = Is(c, m)}

-----------------------------------------------------------------------------
(* How a command goes on to its next query, and how it ends.               *)

Go(s, what, query, c, ds) ==
  /\ cmd' = [cmd EXCEPT ![s] = what]
  /\ at' = [at EXCEPT ![s] = query]
  /\ code' = [code EXCEPT ![s] = c]
  /\ dirs' = [dirs EXCEPT ![s] = ds]
  /\ reply' = [reply EXCEPT ![s] = 0]

Finish(s, answer) ==
  /\ cmd' = [cmd EXCEPT ![s] = "none"]
  /\ at' = [at EXCEPT ![s] = "idle"]
  /\ code' = [code EXCEPT ![s] = 0]
  /\ dirs' = [dirs EXCEPT ![s] = <<>>]
  /\ reply' = [reply EXCEPT ![s] = answer]

Then(s, query) == Go(s, cmd[s], query, code[s], dirs[s])

(* All the names of a path are directories to look up, except the last one *)
(* of MKD, DELE and SIZE; then each command has a query of its own.  The   *)
(* root needs no test of its mode.                                         *)
Goal(what, c) ==
  CASE what = "CWD" -> "change"
    [] what = "MKD" -> IF c = 0 THEN "exists" ELSE "kind"
    [] what = "RMD" -> "emptykind"
    [] OTHER        -> "find"

OnPath(what, c, ds) ==
  IF Len(ds) > (IF what \in {"CWD", "RMD"} THEN 0 ELSE 1)
  THEN "walk" ELSE Goal(what, c)

(* The handler is called with the code of the directory where the path     *)
(* starts.  CWD looks at that directory first.  Without a name MKD and RMD *)
(* return -3, to which ftp_server sends no reply; DELE and SIZE fail.      *)
Handle(s, what, c, ds) ==
  CASE what = "CWD" /\ c # 0 -> Go(s, what, "check", c, ds)
    [] what # "CWD" /\ ds = <<>> ->
         Finish(s, IF what \in {"MKD", "RMD"} THEN 0 ELSE 550)
    [] OTHER -> Go(s, what, OnPath(what, c, ds), c, ds)

-----------------------------------------------------------------------------
(* The session takes the name of another user.                             *)
Login(s, u) ==
  /\ at[s] = "idle"
  /\ user' = [user EXCEPT ![s] = u]
  /\ UNCHANGED <<table, pwd_code, pwd, filePre, wild, cmd, at, code, dirs, reply>>

(* The session ends between two commands, and the next one of its worker   *)
(* starts with the variables of ftp_server.                                *)
NewSession(s, u) ==
  /\ at[s] = "idle"
  /\ user' = [user EXCEPT ![s] = u]
  /\ pwd_code' = [pwd_code EXCEPT ![s] = 0]
  /\ pwd' = [pwd EXCEPT ![s] = <<>>]
  /\ filePre' = [filePre EXCEPT ![s] = -1]
  /\ reply' = [reply EXCEPT ![s] = 0]
  /\ UNCHANGED <<table, wild, cmd, at, code, dirs>>

(* ftp_server receives a command.  ".." needs the row of the working       *)
(* directory; CWD clears the variable that receives it.                    *)
Begin(s, what, path) ==
  /\ at[s] = "idle"
  /\ IF path.from = "up" /\ pwd_code[s] # 0
     THEN /\ Go(s, what, "parent", 0, path.dirs)
          /\ filePre' = [filePre EXCEPT ![s] = IF what = "CWD" THEN 0 ELSE @]
     ELSE /\ Handle(s, what, IF path.from = "root" THEN 0 ELSE pwd_code[s],
                    path.dirs)
          /\ UNCHANGED filePre
  /\ UNCHANGED <<table, user, pwd_code, pwd, wild>>

(* The start of a path with "..".  If the working directory is not found,  *)
(* CWD fails and the others go on with what the variable holds.            *)
Parent(s) ==
  /\ at[s] = "parent"
  /\ \/ \E r \in db_get_file(pwd_code[s]) :
          /\ filePre' = [filePre EXCEPT ![s] = r.precode]
          /\ Handle(s, cmd[s], r.precode, dirs[s])
          /\ UNCHANGED wild
     \/ /\ Missing(pwd_code[s])
        /\ cmd[s] = "CWD"
        /\ Finish(s, 550)
        /\ UNCHANGED <<filePre, wild>>
     \/ /\ Missing(pwd_code[s])
        /\ cmd[s] # "CWD"
        /\ \E c \in IF filePre[s] = -1 THEN Garbage ELSE {filePre[s]} :
             /\ Handle(s, cmd[s], c, dirs[s])
             /\ wild' = (wild \/ c >= nextCode)
        /\ UNCHANGED filePre
  /\ UNCHANGED <<table, user, pwd_code, pwd>>

(* A query that only moves its own command on.                             *)
Step(s, query) ==
  /\ at[s] = query
  /\ UNCHANGED <<table, place>>

(* Faulty variant: the result of db_find_dir is not tested.                *)
WalkUnchecked(s) ==
  /\ Step(s, "walk")
  /\ \E c \in db_find_dir(code[s], Head(dirs[s])) :
       Go(s, cmd[s], OnPath(cmd[s], c, Tail(dirs[s])), c, Tail(dirs[s]))

(* One name of the path.                                                   *)
Walk(s) ==
  /\ Step(s, "walk")
  /\ \E c \in db_find_dir(code[s], Head(dirs[s])) :
       IF c = -1 THEN Finish(s, 550)
       ELSE Go(s, cmd[s], OnPath(cmd[s], c, Tail(dirs[s])), c, Tail(dirs[s]))

-----------------------------------------------------------------------------
(* CWD: handle_cwd, then db_get_pwd, which collects the names on the way   *)
(* up to the root and turns the result round.  When a directory on the way *)
(* is missing it leaves what it collected,  and ftp_server does not look.  *)
Check(s) ==
  /\ Step(s, "check")
  /\ \/ Is(code[s], "dir") /\ Then(s, OnPath("CWD", code[s], dirs[s]))
     \/ IsNot(code[s], "dir") /\ Finish(s, 550)

ChangeDir(s) ==
  /\ at[s] = "change"
  /\ pwd_code' = [pwd_code EXCEPT ![s] = code[s]]
  /\ Go(s, "CWD", "pwd", code[s], <<>>)
  /\ UNCHANGED <<table, user, pwd, filePre, wild>>

Climb(s) ==
  /\ Step(s, "pwd")
  /\ code[s] # 0
  /\ \E r \in db_get_file(code[s]) :
       Go(s, "CWD", "pwd", r.precode, Append(dirs[s], r.filename))

(* Faulty variants: the names are not turned round; they are added to the  *)
(* path shown before.                                                      *)
ShowPwdUnreversed(s) ==
  /\ at[s] = "pwd"
  /\ code[s] = 0 \/ Missing(code[s])
  /\ pwd' = [pwd EXCEPT ![s] = dirs[s]]
  /\ Finish(s, 250)
  /\ UNCHANGED <<table, user, pwd_code, filePre, wild>>

ShowPwdAppended(s) ==
  /\ at[s] = "pwd"
  /\ code[s] = 0 \/ Missing(code[s])
  /\ pwd' = [pwd EXCEPT ![s] = @ \o Reverse(dirs[s])]
  /\ Finish(s, 250)
  /\ UNCHANGED <<table, user, pwd_code, filePre, wild>>

ShowPwd(s) ==
  /\ at[s] = "pwd"
  /\ \/ code[s] = 0 /\ pwd' = [pwd EXCEPT ![s] = Reverse(dirs[s])]
     \/ /\ code[s] # 0 /\ Missing(code[s])
        /\ pwd' = [pwd EXCEPT ![s] = dirs[s]]
  /\ Finish(s, 250)
  /\ UNCHANGED <<table, user, pwd_code, filePre, wild>>

-----------------------------------------------------------------------------
(* MKD: db_create_dir.                                                     *)
(* Faulty variants: any row will do as the parent; the row is its own      *)
(* parent.                                                                 *)
MkdKindAny(s) == Step(s, "kind") /\ Then(s, "exists")

MkdInsertSelf(s) ==
  /\ at[s] = "insert"
  /\ nextCode <= MaxCode
  /\ file_tbl' = file_tbl \cup
       {[precode |-> nextCode, code |-> nextCode, filename |-> Head(dirs[s]),
         st_mode |-> "dir", owner |-> user[s]]}
  /\ nextCode' = nextCode + 1
  /\ Finish(s, 257)
  /\ UNCHANGED <<failing, place>>

MkdKind(s) ==
  /\ Step(s, "kind")
  /\ \E isDir \in Mode(code[s], "dir") :
       IF isDir THEN Then(s, "exists") ELSE Finish(s, 551)

MkdExists(s) ==
  /\ Step(s, "exists")
  /\ \E c \in db_find_dir(code[s], Head(dirs[s])) :
       IF c = -1 THEN Then(s, "insert") ELSE Finish(s, 551)

MkdInsert(s) ==
  /\ at[s] = "insert"
  /\ nextCode <= MaxCode
  /\ file_tbl' = file_tbl \cup
       {[precode |-> code[s], code |-> nextCode, filename |-> Head(dirs[s]),
         st_mode |-> "dir", owner |-> user[s]]}
  /\ nextCode' = nextCode + 1
  /\ Finish(s, 257)
  /\ UNCHANGED <<failing, place>>

(* The database refuses the row, or the query fails.                       *)
MkdRefused(s) == Step(s, "insert") /\ Finish(s, 551)

-----------------------------------------------------------------------------
(* RMD: db_dir_empty, which looks for rows of the user's own, then         *)
(* db_remove_dir, whose result handle_rmd does not look at.                *)
RmdKind(s) ==
  /\ Step(s, "emptykind")
  /\ \/ Is(code[s], "dir") /\ Then(s, "emptyrows")
     \/ IsNot(code[s], "dir") /\ Finish(s, 550)

(* A query that fails means "not empty", a result that cannot be fetched   *)
(* "empty".                                                                *)
RmdEmpty(s) ==
  /\ Step(s, "emptyrows")
  /\ LET below == {r \in file_tbl : r.owner = user[s] /\ r.precode = code[s]}
     IN  \/ (below # {} \/ failing) /\ Finish(s, 550)
         \/ (below = {} \/ failing) /\ Then(s, "removekind")

-----------------------------------------------------------------------------
(* DELE and SIZE: db_find_file among the user's rows, then db_get_file.    *)
Find(s) ==
  /\ Step(s, "find")
  /\ \E c \in db_find_file(user[s], code[s], Head(dirs[s])) :
       IF c = -1 THEN Finish(s, 550) ELSE Go(s, cmd[s], "mode", c, dirs[s])

DeleMode(s) ==
  /\ Step(s, "mode")
  /\ cmd[s] = "DELE"
  /\ \E isReg \in Mode(code[s], "reg") :
       IF isReg THEN Then(s, "removekind") ELSE Finish(s, 550)

SizeMode(s) ==
  /\ Step(s, "mode")
  /\ cmd[s] = "SIZE"
  /\ \E isDir \in Mode(code[s], "dir") : Finish(s, IF isDir THEN 550 ELSE 213)

(* The mode of what each of the two commands removes.                      *)
RemovedMode(s) == IF cmd[s] = "RMD" THEN "dir" ELSE "reg"

(* Faulty variants: the modes are swapped; the mode is not looked at; the  *)
(* rows below are deleted.                                                 *)
RemoveKindSwapped(s) ==
  /\ Step(s, "removekind")
  /\ \/ IsNot(code[s], RemovedMode(s)) /\ Then(s, "delete")
     \/ Is(code[s], RemovedMode(s)) /\ Finish(s, 250)

RemoveKindAny(s) == Step(s, "removekind") /\ Then(s, "delete")

DeleteByPrecode(s) ==
  /\ at[s] = "delete"
  /\ file_tbl' = {r \in file_tbl : r.owner # user[s] \/ r.precode # code[s]}
  /\ Finish(s, 250)
  /\ UNCHANGED <<failing, nextCode, place>>

(* db_remove_dir and db_remove_file: nothing is deleted if the row is not  *)
(* there any more, and the reply is 250 all the same.                      *)
RemoveKind(s) ==
  /\ Step(s, "removekind")
  /\ \/ Is(code[s], RemovedMode(s)) /\ Then(s, "delete")
     \/ IsNot(code[s], RemovedMode(s)) /\ Finish(s, 250)

Delete(s) ==
  /\ at[s] = "delete"
  /\ file_tbl' = {r \in file_tbl : r.owner # user[s] \/ r.code # code[s]}
  /\ Finish(s, 250)
  /\ UNCHANGED <<failing, nextCode, place>>

DeleteFails(s) == failing /\ Step(s, "delete") /\ Finish(s, 250)

-----------------------------------------------------------------------------
Next == \E s \in Session :
  \/ \E u \in User : Login(s, u) \/ NewSession(s, u)
  \/ \E what \in Command, path \in Path : Begin(s, what, path)
  \/ Parent(s) \/ Walk(s)
  \/ Check(s) \/ ChangeDir(s) \/ Climb(s) \/ ShowPwd(s)
  \/ MkdKind(s) \/ MkdExists(s) \/ MkdInsert(s) \/ MkdRefused(s)
  \/ RmdKind(s) \/ RmdEmpty(s)
  \/ Find(s) \/ DeleMode(s) \/ SizeMode(s)
  \/ RemoveKind(s) \/ Delete(s) \/ DeleteFails(s)

Spec == Init /\ [][Next]_vars

-----------------------------------------------------------------------------
(* A directory is created after its parent, even by way of a stale working *)
(* directory or a precode left by an earlier command, so the climb of      *)
(* db_get_pwd from any directory comes to the root.  The one way out of it *)
(* is a precode that was never written (factory.c:601) and that happens to *)
(* hold the code of a row that is still to come.                           *)
ParentsFirst == wild \/ \A r \in file_tbl : r.precode < r.code

(* Regular files have no children: a command that arrives at the code of   *)
(* a file by way of ".." creates nothing there.  (Not so when db_get_file  *)
(* fails and MKD tests a mode that was never written.)                     *)
NoFileParent ==
  failing \/ \A r, q \in file_tbl : q.precode = r.code => r.st_mode = "dir"

(* The path a session shows is the path of its working directory, as long  *)
(* as all the directories on it are still there, whatever the others did   *)
(* between the queries that collected it and worked.                       *)
Rooted[c \in Code \cup {0}] ==
  c = 0 \/ \E r \in db_get_file(c) : r.precode < c /\ Rooted[r.precode]

PathOf[c \in Code \cup {0}] ==
  IF c = 0 \/ ~Rooted[c] THEN <<>>
  ELSE LET r == CHOOSE r \in db_get_file(c) : TRUE
       IN  Append(PathOf[r.precode], r.filename)

PwdTrue ==
  failing \/ \A s \in Session :
    at[s] # "pwd" /\ Rooted[pwd_code[s]] => pwd[s] = PathOf[pwd_code[s]]

(* The step in which a removal is confirmed with 250 leaves no row of the  *)
(* user with the code the command had found, when no query fails.  (RMD    *)
(* finds another user's directory, too, and says 250 without removing it.) *)
ConfirmsGone(what) ==
  failing \/ \A s \in Session :
    cmd[s] = what /\ at'[s] = "idle" /\ reply'[s] = 250
    => \A r \in file_tbl' : r.code # code[s] \/ r.owner # user[s]

(* When DELE replies 250 the file it found is not in the catalogue any     *)
(* more, whoever removed it.                                               *)
DeletedIsGone == [][ConfirmsGone("DELE")]_vars

(* When RMD replies 250 the user's directory is gone: handle_rmd's 0 means *)
(* "deleted" (factory.c:280).                                              *)
RemovedIsGone == [][ConfirmsGone("RMD")]_vars

(* MKD and RMD act on what they looked at one query before: a directory    *)
(* that MKD creates does not exist ("-2: the directory exists already",    *)
(* factory.c:246), and one that RMD removes has none of its owner's rows   *)
(* below it ("remove the empty directory", factory.c:278), when no query   *)
(* fails.  So it is for one session; with two, the other one may come in   *)
(* between the look and the change.                                        *)
ActsOnLook ==
  [][failing \/
       /\ \A r \in file_tbl' \ file_tbl, q \in file_tbl :
            q.st_mode = "dir" => q.precode # r.precode \/ q.filename # r.filename
       /\ \A r \in file_tbl \ file_tbl', q \in file_tbl' :
            q.precode # r.code \/ q.owner # r.owner]_vars

(* A session removes only rows of its own user, DELE only regular files    *)
(* and RMD only directories (user_info.c:426, 475), even when the query    *)
(* that looked at the mode before had failed.                              *)
RemovesOwnKind ==
  [][\A r \in file_tbl \ file_tbl' :
       \E s \in Session :
         /\ r.owner = user[s]
         /\ cmd[s] = IF r.st_mode = "dir" THEN "RMD" ELSE "DELE"]_vars
=============================================================================

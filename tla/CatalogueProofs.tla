---------------------------- MODULE CatalogueProofs ----------------------------
(***************************************************************************)
(* Proofs about the catalogue: what a command knows of the rows it looked  *)
(* up several queries ago, whatever other sessions did to them since.      *)
(***************************************************************************)
EXTENDS Catalogue, SequenceTheorems, WellFoundedInduction, TLAPS

(* The table never hands a code out again.                                 *)
RowsCoded ==
  /\ \A r \in file_tbl : r.code < nextCode
  /\ \A r, q \in file_tbl : r.code = q.code => r = q

(* The queries of a command, and the names it has left for them.           *)
Fits(what, query, ds) ==
  /\ query = "idle" <=> what = "none"
  /\ query \in {"check", "change", "pwd"} => what = "CWD"
  /\ query \in {"kind", "exists", "insert"} => what = "MKD"
  /\ query \in {"emptykind", "emptyrows"} => what = "RMD"
  /\ query \in {"find", "mode"} => what \in {"DELE", "SIZE"}
  /\ query \in {"removekind", "delete"} => what \in {"RMD", "DELE"}
  /\ query \in {"kind", "exists", "insert", "find"} => ds # << >>
  /\ query = "walk" => Len(ds) > (IF what \in {"CWD", "RMD"} THEN 0 ELSE 1)

(* MKD has seen that the row of its parent, if there still is one, is that *)
(* of a directory.                                                         *)
ParentKnown(query, c) ==
  ~failing /\ query \in {"exists", "insert"} =>
    \A r \in db_get_file(c) : r.st_mode = "dir"

(* RMD and DELE hold the code of a row that was there, and have seen its   *)
(* mode.                                                                   *)
TargetKnown(what, query, c) ==
  /\ query \in {"mode", "emptyrows", "removekind", "delete"} => c < nextCode
  /\ query \in {"emptyrows", "delete"} \/ (~failing /\ query = "removekind") =>
       \A r \in db_get_file(c) : r.st_mode = IF what = "RMD" THEN "dir" ELSE "reg"

Known(what, query, c, ds) ==
  Fits(what, query, ds) /\ ParentKnown(query, c) /\ TargetKnown(what, query, c)

(* The inductive invariant.                                                *)
CatalogueInv ==
  /\ TypeOK /\ RowsCoded /\ NoFileParent
  /\ \A s \in Session : Known(cmd[s], at[s], code[s], dirs[s])

-----------------------------------------------------------------------------
(* The greatest element of a bounded set of numbers.                       *)
LEMMA MaxExists ==
  ASSUME NEW n \in Nat, NEW S \in SUBSET (0 .. n), S # {}
  PROVE  Max(S) \in S /\ \A y \in S : Max(S) >= y
<1> DEFINE T == {n - x : x \in S}
<1>1. T \in SUBSET Nat /\ T # {}
  <2>1. \A x \in S : n - x \in Nat
    OBVIOUS
  <2> QED
    BY <2>1
<1>2. \E x \in T : \A y \in T : ~(<<y, x>> \in OpToRel(<, Nat))
  BY <1>1, NatLessThanWellFounded, WFMin
<1>3. PICK x \in S : \A y \in S : ~(<<n - y, n - x>> \in OpToRel(<, Nat))
  BY <1>2
<1>4. ASSUME NEW y \in S PROVE x >= y
  <2>1. n - y \in Nat /\ n - x \in Nat /\ x \in 0 .. n /\ y \in 0 .. n
    OBVIOUS
  <2>2. n - y < n - x => <<n - y, n - x>> \in OpToRel(<, Nat)
    BY <2>1 DEF OpToRel
  <2>3. ~(n - y < n - x)
    BY <1>3, <2>2
  <2> QED
    BY <2>1, <2>3
<1> QED
  BY <1>4 DEF Max

-----------------------------------------------------------------------------
(* The parts of the type invariant that are not the table's or the         *)
(* command's.                                                              *)
PlaceOK ==
  /\ user \in [Session -> User]
  /\ pwd_code \in [Session -> Code \cup {0}]
  /\ pwd \in [Session -> Seq(Name)]
  /\ filePre \in [Session -> Code \cup {0, -1}]
  /\ wild \in BOOLEAN

Answer == {0, 213, 250, 257, 550, 551}

LEMMA CatalogueInit == Init => CatalogueInv
<1> SUFFICES ASSUME Init PROVE CatalogueInv
  OBVIOUS
<1> USE DEF Init
<1> DEFINE codes == {r.code : r \in StoredFiles} \cup {0}
<1>1. MaxCode \in Nat /\ codes \in SUBSET (0 .. MaxCode) /\ codes # {}
  BY CatalogueAssumption DEF Row, Code
<1>2. Max(codes) \in codes /\ \A c \in codes : Max(codes) >= c
  BY <1>1, MaxExists
<1>3. nextCode = 1 + Max(codes)
  OBVIOUS
<1> HIDE DEF codes
<1>4. nextCode \in 1 .. MaxCode + 1 /\ \A c \in codes : c < nextCode
  <2>1. PICK m \in codes : m = Max(codes) /\ \A c \in codes : m >= c
    BY <1>2
  <2>2. m \in 0 .. MaxCode /\ nextCode = 1 + m
    BY <1>1, <1>3, <2>1
  <2>3. \A c \in codes : c \in Int /\ c <= m
    BY <1>1, <2>1
  <2>4. \A c \in codes : c < nextCode
    BY <2>2, <2>3
  <2>5. nextCode \in 1 .. MaxCode + 1
    BY <1>1, <2>2
  <2> HIDE DEF Init
  <2> QED
    BY <2>4, <2>5
<1>5. \A r \in file_tbl : r.code < nextCode
  BY <1>4 DEF codes
<1>6. RowsCoded /\ NoFileParent
  <2>1. \A r, q \in file_tbl : q.precode # r.code
    BY CatalogueAssumption DEF Row, Code
  <2> QED
    BY <1>5, <2>1, CatalogueAssumption DEF RowsCoded, NoFileParent
<1>7. TypeOK
  <2>1. failing \in BOOLEAN /\ wild \in BOOLEAN /\ file_tbl \subseteq Row
    BY CatalogueAssumption
  <2> QED
    BY <1>4, <2>1, CatalogueAssumption DEF TypeOK, Row
<1>8. ASSUME NEW s \in Session PROVE Known(cmd[s], at[s], code[s], dirs[s])
  BY DEF Known, Fits, ParentKnown, TargetKnown
<1> QED
  BY <1>6, <1>7, <1>8 DEF CatalogueInv

(* What a session knows stays true when rows are deleted, and when a       *)
(* directory is inserted.                                                  *)
TableStep ==
  /\ failing' = failing
  /\ \/ file_tbl' \subseteq file_tbl /\ nextCode' = nextCode
     \/ \E row \in Row : /\ row.code = nextCode /\ row.st_mode = "dir"
                         /\ file_tbl' = file_tbl \cup {row}
                         /\ nextCode' = nextCode + 1

LEMMA KnowledgeStays ==
  ASSUME CatalogueInv, TableStep, NEW what, NEW query, NEW c \in Code \cup {0}, NEW ds,
         Known(what, query, c, ds), nextCode' \in Nat
  PROVE  Known(what, query, c, ds)'
<1>1. nextCode \in Nat /\ c \in Int
  BY CatalogueAssumption DEF CatalogueInv, TypeOK, Code
<1>2. nextCode' >= nextCode
  BY <1>1 DEF TableStep
<1>3. c < nextCode => db_get_file(c)' \subseteq db_get_file(c)
  BY <1>1 DEF TableStep, db_get_file
<1>4. \A r \in db_get_file(c)' : r \in db_get_file(c) \/ r.st_mode = "dir"
  BY DEF TableStep, db_get_file
<1>5. Fits(what, query, ds)'
  BY DEF Known, Fits
<1>6. ParentKnown(query, c)'
  BY <1>4 DEF Known, ParentKnown, TableStep
<1>7. TargetKnown(what, query, c)'
  BY <1>1, <1>2, <1>3 DEF Known, TargetKnown, TableStep
<1> QED
  BY <1>5, <1>6, <1>7 DEF Known

(* So a step is judged by the session that takes it.                       *)
LEMMA OneCommand ==
  ASSUME CatalogueInv, NEW s \in Session, TableStep,
         TypeOK', RowsCoded', NoFileParent',
         \A t \in Session \ {s} : /\ cmd'[t] = cmd[t] /\ at'[t] = at[t]
                                  /\ code'[t] = code[t] /\ dirs'[t] = dirs[t],
         Known(cmd[s], at[s], code[s], dirs[s])'
  PROVE  CatalogueInv'
<1>1. ASSUME NEW t \in Session \ {s}
      PROVE  Known(cmd[t], at[t], code[t], dirs[t])'
  <2>1. /\ Known(cmd[t], at[t], code[t], dirs[t]) /\ code[t] \in Code \cup {0}
        /\ nextCode' \in Nat
    BY CatalogueAssumption DEF CatalogueInv, TypeOK
  <2>2. PICK what, query, c, ds :
          /\ what = cmd[t] /\ query = at[t] /\ c = code[t] /\ ds = dirs[t]
    OBVIOUS
  <2>3. Known(what, query, c, ds)'
    BY <2>1, <2>2, KnowledgeStays
  <2> QED
    BY <2>2, <2>3 DEF Known, Fits, ParentKnown, TargetKnown, db_get_file
<1> QED
  BY <1>1 DEF CatalogueInv

(* A command goes on to a query for which it knows enough.                 *)
LEMMA GoKeeps ==
  ASSUME CatalogueInv, NEW s \in Session, UNCHANGED table, PlaceOK',
         NEW what \in Command, NEW query \in Query, NEW c \in Code \cup {0},
         NEW ds \in Seq(Name), Go(s, what, query, c, ds), Known(what, query, c, ds)
  PROVE  CatalogueInv'
<1> USE DEF CatalogueInv, TypeOK, table
<1>1. /\ cmd' \in [Session -> Command \cup {"none"}] /\ cmd'[s] = what
      /\ at' \in [Session -> Query \cup {"idle"}] /\ at'[s] = query
      /\ code' \in [Session -> Code \cup {0}] /\ code'[s] = c
      /\ dirs' \in [Session -> Seq(Name)] /\ dirs'[s] = ds
      /\ reply' \in [Session -> Answer]
  BY DEF Go, Answer
<1>2. \A t \in Session \ {s} : /\ cmd'[t] = cmd[t] /\ at'[t] = at[t]
                               /\ code'[t] = code[t] /\ dirs'[t] = dirs[t]
  BY DEF Go
<1>3. TypeOK' /\ RowsCoded' /\ NoFileParent' /\ TableStep
  BY <1>1 DEF PlaceOK, Answer, RowsCoded, NoFileParent, TableStep
<1>4. Known(cmd[s], at[s], code[s], dirs[s])'
  BY <1>1 DEF Known, Fits, ParentKnown, TargetKnown, db_get_file
<1> QED
  BY ZenonT(60), <1>2, <1>3, <1>4, OneCommand

LEMMA FinishKeeps ==
  ASSUME CatalogueInv, NEW s \in Session, TableStep, PlaceOK',
         file_tbl' \subseteq Row, nextCode' \in 1 .. MaxCode + 1,
         RowsCoded', NoFileParent',
         NEW answer \in Answer, Finish(s, answer)
  PROVE  CatalogueInv'
<1> USE DEF CatalogueInv, TypeOK
<1>1. /\ cmd' \in [Session -> Command \cup {"none"}] /\ cmd'[s] = "none"
      /\ at' \in [Session -> Query \cup {"idle"}] /\ at'[s] = "idle"
      /\ code' \in [Session -> Code \cup {0}] /\ code'[s] = 0
      /\ dirs' \in [Session -> Seq(Name)] /\ dirs'[s] = << >>
      /\ reply' \in [Session -> Answer]
  BY EmptySeq DEF Finish, Answer
<1>2. \A t \in Session \ {s} : /\ cmd'[t] = cmd[t] /\ at'[t] = at[t]
                               /\ code'[t] = code[t] /\ dirs'[t] = dirs[t]
  BY DEF Finish
<1>3. TypeOK'
  BY <1>1 DEF PlaceOK, Answer, TableStep
<1>4. Known(cmd[s], at[s], code[s], dirs[s])'
  BY <1>1 DEF Known, Fits, ParentKnown, TargetKnown
<1> QED
  BY ZenonT(60), <1>2, <1>3, <1>4, OneCommand

(* A command ends that has not changed the table.                          *)
LEMMA EndKeeps ==
  ASSUME CatalogueInv, NEW s \in Session, UNCHANGED table, PlaceOK',
         NEW answer \in Answer, Finish(s, answer)
  PROVE  CatalogueInv'
<1>1. TableStep /\ file_tbl' \subseteq Row /\ nextCode' \in 1 .. MaxCode + 1
  BY DEF TableStep, table, CatalogueInv, TypeOK
<1>2. RowsCoded' /\ NoFileParent'
  BY DEF RowsCoded, NoFileParent, table, CatalogueInv
<1> QED
  BY <1>1, <1>2, FinishKeeps

(* The last name of a path is kept for the query that needs it.            *)
LEMMA OnPathKnown ==
  ASSUME CatalogueInv, NEW what \in Command, NEW c \in Code \cup {0}, NEW ds \in Seq(Name),
         what \in {"MKD", "DELE", "SIZE"} => ds # << >>
  PROVE  OnPath(what, c, ds) \in Query /\ Known(what, OnPath(what, c, ds), c, ds)
<1>1. c = 0 => db_get_file(c) = {}
  BY CatalogueAssumption DEF CatalogueInv, TypeOK, Row, Code, db_get_file
<1>2. OnPath(what, c, ds) = IF Len(ds) > (IF what \in {"CWD", "RMD"} THEN 0 ELSE 1)
                            THEN "walk" ELSE Goal(what, c)
  BY DEF OnPath
<1>3. CASE Len(ds) > (IF what \in {"CWD", "RMD"} THEN 0 ELSE 1)
  BY <1>2, <1>3 DEF Known, Fits, ParentKnown, TargetKnown, Query, Command
<1>4. CASE ~(Len(ds) > (IF what \in {"CWD", "RMD"} THEN 0 ELSE 1))
  <2>1. OnPath(what, c, ds) = Goal(what, c)
    BY <1>2, <1>4
  <2>2. CASE what = "CWD"
    BY <2>1, <2>2 DEF Goal, Known, Fits, ParentKnown, TargetKnown, Query
  <2>3. CASE what = "MKD"
    BY <1>1, <2>1, <2>3 DEF Goal, Known, Fits, ParentKnown, TargetKnown, Query
  <2>4. CASE what = "RMD"
    BY <2>1, <2>4 DEF Goal, Known, Fits, ParentKnown, TargetKnown, Query
  <2>5. CASE what \in {"DELE", "SIZE"}
    BY <2>1, <2>5 DEF Goal, Known, Fits, ParentKnown, TargetKnown, Query
  <2> QED
    BY <2>2, <2>3, <2>4, <2>5 DEF Command
<1> QED
  BY <1>3, <1>4

LEMMA HandleKeeps ==
  ASSUME CatalogueInv, NEW s \in Session, UNCHANGED table, PlaceOK',
         NEW what \in Command, NEW c \in Code \cup {0}, NEW ds \in Seq(Name),
         Handle(s, what, c, ds)
  PROVE  CatalogueInv'
<1>1. CASE what = "CWD" /\ c # 0
  <2>1. Go(s, what, "check", c, ds)
    BY <1>1 DEF Handle
  <2>2. "check" \in Query /\ Known(what, "check", c, ds)
    BY <1>1 DEF Query, Known, Fits, ParentKnown, TargetKnown
  <2> QED
    BY <2>1, <2>2, GoKeeps
<1>2. CASE what # "CWD" /\ ds = << >>
  <2>1. Finish(s, IF what \in {"MKD", "RMD"} THEN 0 ELSE 550)
    BY <1>2 DEF Handle
  <2> QED
    BY <2>1, EndKeeps DEF Answer
<1>3. CASE ~(what = "CWD" /\ c # 0) /\ ~(what # "CWD" /\ ds = << >>)
  <2>1. Go(s, what, OnPath(what, c, ds), c, ds)
    BY <1>3 DEF Handle
  <2>2. OnPath(what, c, ds) \in Query /\ Known(what, OnPath(what, c, ds), c, ds)
    BY <1>3, OnPathKnown
  <2> QED
    BY <2>1, <2>2, GoKeeps
<1> QED
  BY <1>1, <1>2, <1>3

-----------------------------------------------------------------------------
(* What the inductive invariant says of a session.                         *)
LEMMA SessionParts ==
  ASSUME CatalogueInv, NEW s \in Session
  PROVE  /\ Known(cmd[s], at[s], code[s], dirs[s])
         /\ cmd[s] \in Command \cup {"none"} /\ at[s] \in Query \cup {"idle"}
         /\ code[s] \in Code \cup {0} /\ dirs[s] \in Seq(Name)
         /\ at[s] # "idle" => cmd[s] \in Command
BY DEF CatalogueInv, TypeOK, Known, Fits

LEMMA PlaceStays == ASSUME CatalogueInv, UNCHANGED place PROVE PlaceOK'
BY DEF CatalogueInv, TypeOK, PlaceOK, place

(* The codes that a query finds are codes of rows.                         *)
LEMMA CodesFacts ==
  ASSUME CatalogueInv, NEW rows \in SUBSET file_tbl, NEW c \in Codes(rows), c # -1
  PROVE  c \in Code /\ c < nextCode
BY DEF Codes, CatalogueInv, TypeOK, RowsCoded, Row

LEMMA BetweenKeeps ==
  ASSUME CatalogueInv, NEW s \in Session, NEW u \in User, Login(s, u) \/ NewSession(s, u)
  PROVE  CatalogueInv'
<1> USE DEF CatalogueInv, TypeOK, table
<1>1. TypeOK'
  <2>1. << >> \in Seq(Name)
    BY EmptySeq
  <2>2. CASE Login(s, u)
    BY <2>2 DEF Login
  <2>3. CASE NewSession(s, u)
    BY <2>1, <2>3 DEF NewSession
  <2> QED
    BY <2>2, <2>3
<1>2. UNCHANGED <<table, cmd, at, code, dirs>>
  BY DEF Login, NewSession
<1> QED
  BY <1>1, <1>2 DEF RowsCoded, NoFileParent, Known, Fits, ParentKnown, TargetKnown, db_get_file

LEMMA BeginKeeps ==
  ASSUME CatalogueInv, NEW s \in Session, NEW what \in Command, NEW path \in Path,
         Begin(s, what, path)
  PROVE  CatalogueInv'
<1>1. UNCHANGED table /\ path.dirs \in Seq(Name) /\ 0 \in Code \cup {0}
  BY DEF Begin, Path
<1>2. CASE path.from = "up" /\ pwd_code[s] # 0
  <2>1. Go(s, what, "parent", 0, path.dirs)
    BY <1>2 DEF Begin
  <2>2. "parent" \in Query /\ Known(what, "parent", 0, path.dirs)
    BY DEF Query, Known, Fits, ParentKnown, TargetKnown, Command
  <2>3. UNCHANGED <<user, pwd_code, pwd, wild>>
    BY DEF Begin
  <2>4. filePre' = [filePre EXCEPT ![s] = IF what = "CWD" THEN 0 ELSE filePre[s]]
    BY <1>2 DEF Begin
  <2>5. PlaceOK'
    BY <2>3, <2>4 DEF CatalogueInv, TypeOK, PlaceOK
  <2> QED
    BY <1>1, <2>1, <2>2, <2>5, GoKeeps
<1>3. CASE ~(path.from = "up" /\ pwd_code[s] # 0)
  <2>1. PICK c \in Code \cup {0} : Handle(s, what, c, path.dirs)
    BY <1>3 DEF Begin, CatalogueInv, TypeOK
  <2>2. PlaceOK'
    BY <1>3 DEF Begin, CatalogueInv, TypeOK, PlaceOK
  <2> QED
    BY <1>1, <2>1, <2>2, HandleKeeps
<1> QED
  BY <1>2, <1>3

LEMMA ParentKeeps ==
  ASSUME CatalogueInv, NEW s \in Session, Parent(s)
  PROVE  CatalogueInv'
<1>1. UNCHANGED table /\ cmd[s] \in Command /\ dirs[s] \in Seq(Name)
  BY SessionParts DEF Parent
<1>2. CASE \E r \in db_get_file(pwd_code[s]) :
              /\ filePre' = [filePre EXCEPT ![s] = r.precode]
              /\ Handle(s, cmd[s], r.precode, dirs[s])
  <2>1. PICK r \in db_get_file(pwd_code[s]) :
              /\ filePre' = [filePre EXCEPT ![s] = r.precode]
              /\ Handle(s, cmd[s], r.precode, dirs[s])
    BY <1>2
  <2>2. r.precode \in Code \cup {0}
    BY DEF db_get_file, CatalogueInv, TypeOK, Row
  <2>3. PlaceOK'
    BY <2>1, <2>2 DEF Parent, CatalogueInv, TypeOK, PlaceOK
  <2> QED
    BY <1>1, <2>1, <2>2, <2>3, HandleKeeps
<1>3. CASE UNCHANGED filePre /\ Finish(s, 550)
  <2>1. PlaceOK'
    BY <1>3 DEF Parent, CatalogueInv, TypeOK, PlaceOK
  <2> QED
    BY <1>1, <1>3, <2>1, EndKeeps DEF Answer
<1>4. CASE /\ UNCHANGED filePre
           /\ \E c \in IF filePre[s] = -1 THEN Garbage ELSE {filePre[s]} :
                Handle(s, cmd[s], c, dirs[s])
  <2>1. PICK c \in Code \cup {0} : Handle(s, cmd[s], c, dirs[s])
    BY <1>4, CatalogueAssumption DEF CatalogueInv, TypeOK
  <2>2. PlaceOK'
    BY <1>4 DEF Parent, CatalogueInv, TypeOK, PlaceOK
  <2> QED
    BY <1>1, <2>1, <2>2, HandleKeeps
<1> QED
  BY <1>2, <1>3, <1>4 DEF Parent

LEMMA WalkKeeps ==
  ASSUME CatalogueInv, NEW s \in Session, Walk(s)
  PROVE  CatalogueInv'
<1>1. /\ at[s] = "walk" /\ UNCHANGED table /\ PlaceOK'
      /\ cmd[s] \in Command /\ dirs[s] \in Seq(Name)
      /\ Len(dirs[s]) > (IF cmd[s] \in {"CWD", "RMD"} THEN 0 ELSE 1)
  BY SessionParts, PlaceStays DEF Walk, Step, Known, Fits
<1>2. PICK c \in db_find_dir(code[s], Head(dirs[s])) :
        IF c = -1 THEN Finish(s, 550)
        ELSE Go(s, cmd[s], OnPath(cmd[s], c, Tail(dirs[s])), c, Tail(dirs[s]))
  BY DEF Walk
<1>3. CASE c = -1
  BY <1>1, <1>2, <1>3, EndKeeps DEF Answer
<1>4. CASE c # -1
  <2>1. c \in Code
    BY <1>4, CodesFacts DEF db_find_dir
  <2>2. PICK rest : rest = Tail(dirs[s])
    OBVIOUS
  <2>3. rest \in Seq(Name) /\ (cmd[s] \in {"MKD", "DELE", "SIZE"} => rest # << >>)
    <3>1. Len(dirs[s]) \in Nat /\ Len(dirs[s]) > 0
      BY <1>1, LenProperties
    <3>2. dirs[s] # << >>
      BY <3>1, EmptySeq
    <3>3. rest \in Seq(Name) /\ Len(rest) = Len(dirs[s]) - 1
      BY <1>1, <2>2, <3>2, HeadTailProperties
    <3> QED
      BY <1>1, <3>1, <3>3, EmptySeq
  <2>4. /\ OnPath(cmd[s], c, rest) \in Query
        /\ Known(cmd[s], OnPath(cmd[s], c, rest), c, rest)
    BY <1>1, <2>1, <2>3, OnPathKnown
  <2>5. Go(s, cmd[s], OnPath(cmd[s], c, rest), c, rest)
    BY <1>2, <1>4, <2>2
  <2> QED
    BY <1>1, <2>1, <2>3, <2>4, <2>5, GoKeeps
<1> QED
  BY <1>3, <1>4

LEMMA ThenKeeps ==
  ASSUME CatalogueInv, NEW s \in Session, at[s] # "idle", UNCHANGED <<table, place>>,
         NEW query \in Query, Then(s, query), Known(cmd[s], query, code[s], dirs[s])
  PROVE  CatalogueInv'
<1>1. /\ cmd[s] \in Command /\ code[s] \in Code \cup {0} /\ dirs[s] \in Seq(Name)
      /\ UNCHANGED table /\ PlaceOK'
  BY SessionParts, PlaceStays
<1>2. Go(s, cmd[s], query, code[s], dirs[s])
  BY DEF Then
<1> QED
  BY <1>1, <1>2, GoKeeps

LEMMA StopKeeps ==
  ASSUME CatalogueInv, NEW s \in Session, UNCHANGED <<table, place>>,
         NEW answer \in Answer, Finish(s, answer)
  PROVE  CatalogueInv'
<1>1. UNCHANGED table /\ PlaceOK'
  BY PlaceStays
<1> QED
  BY <1>1, EndKeeps

LEMMA ChangeDirKeeps ==
  ASSUME CatalogueInv, NEW s \in Session,
         Check(s) \/ ChangeDir(s) \/ Climb(s) \/ ShowPwd(s)
  PROVE  CatalogueInv'
<1>1. /\ at[s] # "idle" => cmd[s] \in Command
      /\ code[s] \in Code \cup {0} /\ dirs[s] \in Seq(Name) /\ << >> \in Seq(Name)
  BY SessionParts, EmptySeq
<1>2. CASE Check(s) /\ Then(s, OnPath("CWD", code[s], dirs[s]))
  <2>1. at[s] = "check" /\ cmd[s] = "CWD" /\ UNCHANGED <<table, place>>
    BY <1>2, SessionParts DEF Check, Step, Known, Fits
  <2>2. /\ OnPath("CWD", code[s], dirs[s]) \in Query
        /\ Known("CWD", OnPath("CWD", code[s], dirs[s]), code[s], dirs[s])
    BY <1>1, OnPathKnown DEF Command
  <2> QED
    BY <1>2, <2>1, <2>2, ThenKeeps
<1>3. CASE Check(s) /\ Finish(s, 550)
  BY <1>3, StopKeeps DEF Check, Step, Answer
<1>4. CASE ChangeDir(s)
  <2>1. PlaceOK' /\ UNCHANGED table
    BY <1>1, <1>4 DEF ChangeDir, CatalogueInv, TypeOK, PlaceOK
  <2>2. Go(s, "CWD", "pwd", code[s], << >>)
    BY <1>4 DEF ChangeDir
  <2>3. /\ "pwd" \in Query /\ "CWD" \in Command
        /\ Known("CWD", "pwd", code[s], << >>)
    BY DEF Query, Command, Known, Fits, ParentKnown, TargetKnown
  <2> QED
    BY <1>1, <2>1, <2>2, <2>3, GoKeeps
<1>5. CASE Climb(s)
  <2>1. PICK r \in db_get_file(code[s]) :
          Go(s, "CWD", "pwd", r.precode, Append(dirs[s], r.filename))
    BY <1>5 DEF Climb
  <2>2. r.precode \in Code \cup {0} /\ r.filename \in Name
    BY DEF db_get_file, CatalogueInv, TypeOK, Row
  <2>3. Append(dirs[s], r.filename) \in Seq(Name)
    BY <1>1, <2>2
  <2>4. /\ "pwd" \in Query /\ "CWD" \in Command
        /\ Known("CWD", "pwd", r.precode, Append(dirs[s], r.filename))
    BY DEF Query, Command, Known, Fits, ParentKnown, TargetKnown
  <2>5. PlaceOK' /\ UNCHANGED table
    BY <1>5, PlaceStays DEF Climb, Step
  <2> QED
    BY <2>1, <2>2, <2>3, <2>4, <2>5, GoKeeps
<1>6. CASE ShowPwd(s)
  <2>1. Reverse(dirs[s]) \in Seq(Name)
    <3>1. Len(dirs[s]) \in Nat /\ \A i \in 1 .. Len(dirs[s]) : dirs[s][i] \in Name
      BY <1>1, ElementOfSeq, LenProperties
    <3>2. \A i \in 1 .. Len(dirs[s]) : Len(dirs[s]) - i + 1 \in 1 .. Len(dirs[s])
      BY <3>1
    <3>3. Reverse(dirs[s]) \in [1 .. Len(dirs[s]) -> Name]
      BY <3>1, <3>2 DEF Reverse
    <3> QED
      BY <3>1, <3>3
  <2>2. PICK p \in Seq(Name) : pwd' = [pwd EXCEPT ![s] = p]
    BY <1>1, <1>6, <2>1 DEF ShowPwd
  <2>3. UNCHANGED <<table, user, pwd_code, filePre, wild>> /\ Finish(s, 250)
    BY <1>6 DEF ShowPwd
  <2>4. PlaceOK'
    BY <2>2, <2>3 DEF CatalogueInv, TypeOK, PlaceOK
  <2> QED
    BY <2>3, <2>4, EndKeeps DEF Answer
<1> QED
  BY <1>2, <1>3, <1>4, <1>5, <1>6 DEF Check

LEMMA MkdLooks ==
  ASSUME CatalogueInv, NEW s \in Session,
         MkdKind(s) \/ MkdExists(s) \/ MkdRefused(s)
  PROVE  CatalogueInv'
<1>1. CASE Finish(s, 551)
  BY <1>1, StopKeeps DEF MkdKind, MkdExists, MkdRefused, Step, Answer
<1>2. CASE MkdKind(s) /\ ~Finish(s, 551)
  <2>1. PICK isDir \in Mode(code[s], "dir") : isDir /\ Then(s, "exists")
    BY <1>2 DEF MkdKind
  <2>2. Missing(code[s]) \/ Is(code[s], "dir")
    BY <2>1 DEF Mode
  <2>3. /\ at[s] = "kind" /\ UNCHANGED <<table, place>>
        /\ Known(cmd[s], at[s], code[s], dirs[s])
    BY <1>2, SessionParts DEF MkdKind, Step
  <2>4. "exists" \in Query /\ Known(cmd[s], "exists", code[s], dirs[s])
    BY <2>2, <2>3 DEF Query, Known, Fits, ParentKnown, TargetKnown, Missing, Is, db_get_file,
       CatalogueInv, RowsCoded
  <2> QED
    BY <2>1, <2>3, <2>4, ThenKeeps
<1>3. CASE MkdExists(s) /\ ~Finish(s, 551)
  <2>1. Then(s, "insert") /\ at[s] = "exists" /\ UNCHANGED <<table, place>>
    BY <1>3 DEF MkdExists, Step
  <2>2. "insert" \in Query /\ Known(cmd[s], "insert", code[s], dirs[s])
    BY <2>1, SessionParts DEF Query, Known, Fits, ParentKnown, TargetKnown
  <2> QED
    BY <2>1, <2>2, ThenKeeps
<1> QED
  BY <1>1, <1>2, <1>3 DEF MkdRefused

LEMMA MkdInsertKeeps ==
  ASSUME CatalogueInv, NEW s \in Session, MkdInsert(s)
  PROVE  CatalogueInv'
<1> DEFINE row == [precode |-> code[s], code |-> nextCode, filename |-> Head(dirs[s]),
                   st_mode |-> "dir", owner |-> user[s]]
<1>1. /\ at[s] = "insert" /\ nextCode <= MaxCode
      /\ file_tbl' = file_tbl \cup {row} /\ nextCode' = nextCode + 1
      /\ Finish(s, 257) /\ UNCHANGED <<failing, place>>
  BY DEF MkdInsert
<1>2. /\ nextCode \in Code /\ nextCode \in Nat /\ nextCode' \in 1 .. MaxCode + 1
      /\ file_tbl \subseteq Row
  BY <1>1, CatalogueAssumption DEF CatalogueInv, TypeOK, Code
<1>3. row \in Row /\ row.code = nextCode /\ row.st_mode = "dir" /\ row.precode = code[s]
  <2>1. dirs[s] \in Seq(Name) /\ dirs[s] # << >> /\ code[s] \in Code \cup {0}
    BY <1>1, SessionParts DEF Known, Fits
  <2>2. Head(dirs[s]) \in Name
    BY <2>1, HeadTailProperties
  <2>3. user[s] \in User
    BY DEF CatalogueInv, TypeOK
  <2> QED
    BY <1>2, <2>1, <2>2, <2>3 DEF Row
<1> HIDE DEF row
<1>4. TableStep /\ file_tbl' \subseteq Row
  BY <1>1, <1>2, <1>3 DEF TableStep
<1>5. RowsCoded'
  <2>1. \A r \in file_tbl : r.code \in Nat /\ r.code < nextCode
    BY <1>2 DEF CatalogueInv, RowsCoded, Row, Code
  <2> QED
    BY <1>1, <1>2, <1>3, <2>1 DEF CatalogueInv, RowsCoded
<1>6. NoFileParent'
  <2>1. failing \/ \A r \in db_get_file(code[s]) : r.st_mode = "dir"
    BY <1>1, SessionParts DEF Known, ParentKnown
  <2> QED
    BY <1>1, <1>3, <2>1 DEF CatalogueInv, NoFileParent, db_get_file
<1>7. PlaceOK'
  BY <1>1, PlaceStays
<1> QED
  BY <1>1, <1>2, <1>4, <1>5, <1>6, <1>7, FinishKeeps DEF Answer

LEMMA RemovalLooks ==
  ASSUME CatalogueInv, NEW s \in Session,
         \/ RmdKind(s) \/ RmdEmpty(s) \/ Find(s) \/ DeleMode(s) \/ SizeMode(s)
         \/ RemoveKind(s) \/ DeleteFails(s)
  PROVE  CatalogueInv'
<1> USE DEF Step
<1>1. CASE \E answer \in {213, 250, 550} : Finish(s, answer)
  <2>1. UNCHANGED <<table, place>>
    BY DEF RmdKind, RmdEmpty, Find, DeleMode, SizeMode, RemoveKind, DeleteFails
  <2> QED
    BY <1>1, <2>1, StopKeeps DEF Answer
<1>2. CASE RmdKind(s) /\ Then(s, "emptyrows") /\ Is(code[s], "dir")
  <2>1. at[s] = "emptykind" /\ cmd[s] = "RMD" /\ UNCHANGED <<table, place>>
    BY <1>2, SessionParts DEF RmdKind, Known, Fits
  <2>2. "emptyrows" \in Query /\ Known(cmd[s], "emptyrows", code[s], dirs[s])
    BY <1>2, <2>1 DEF Query, Known, Fits, ParentKnown, TargetKnown, Is, db_get_file,
       CatalogueInv, RowsCoded
  <2> QED
    BY <1>2, <2>1, <2>2, ThenKeeps
<1>3. CASE RmdEmpty(s) /\ Then(s, "removekind")
  <2>1. at[s] = "emptyrows" /\ cmd[s] = "RMD" /\ UNCHANGED <<table, place>>
    BY <1>3, SessionParts DEF RmdEmpty, Known, Fits
  <2>2. "removekind" \in Query /\ Known(cmd[s], "removekind", code[s], dirs[s])
    BY <2>1, SessionParts DEF Query, Known, Fits, ParentKnown, TargetKnown
  <2> QED
    BY <1>3, <2>1, <2>2, ThenKeeps
<1>4. CASE Find(s)
  <2>1. PICK c \in db_find_file(user[s], code[s], Head(dirs[s])) :
          IF c = -1 THEN Finish(s, 550) ELSE Go(s, cmd[s], "mode", c, dirs[s])
    BY <1>4 DEF Find
  <2>2. CASE c = -1
    BY <1>1, <2>1, <2>2
  <2>3. CASE c # -1
    <3>1. c \in Code /\ c < nextCode
      BY <2>3, CodesFacts DEF db_find_file
    <3>2. /\ at[s] = "find" /\ cmd[s] \in Command /\ dirs[s] \in Seq(Name)
          /\ UNCHANGED table /\ PlaceOK'
      BY <1>4, SessionParts, PlaceStays DEF Find
    <3>3. "mode" \in Query /\ Known(cmd[s], "mode", c, dirs[s])
      BY <3>1, <3>2, SessionParts DEF Query, Known, Fits, ParentKnown, TargetKnown
    <3> QED
      BY <2>1, <2>3, <3>1, <3>2, <3>3, GoKeeps
  <2> QED
    BY <2>2, <2>3
<1>5. CASE DeleMode(s) /\ ~Finish(s, 550)
  <2>1. PICK isReg \in Mode(code[s], "reg") : isReg /\ Then(s, "removekind")
    BY <1>5 DEF DeleMode
  <2>2. Missing(code[s]) \/ Is(code[s], "reg")
    BY <2>1 DEF Mode
  <2>3. /\ at[s] = "mode" /\ cmd[s] = "DELE" /\ UNCHANGED <<table, place>>
        /\ Known(cmd[s], at[s], code[s], dirs[s])
    BY <1>5, SessionParts DEF DeleMode
  <2>4. "removekind" \in Query /\ Known(cmd[s], "removekind", code[s], dirs[s])
    BY <2>2, <2>3 DEF Query, Known, Fits, ParentKnown, TargetKnown, Missing, Is, db_get_file,
       CatalogueInv, RowsCoded
  <2> QED
    BY <2>1, <2>3, <2>4, ThenKeeps
<1>6. CASE RemoveKind(s) /\ Is(code[s], RemovedMode(s)) /\ Then(s, "delete")
  <2>1. /\ at[s] = "removekind" /\ UNCHANGED <<table, place>>
        /\ Known(cmd[s], at[s], code[s], dirs[s])
    BY <1>6, SessionParts DEF RemoveKind
  <2>2. "delete" \in Query /\ Known(cmd[s], "delete", code[s], dirs[s])
    BY <1>6, <2>1 DEF Query, Known, Fits, ParentKnown, TargetKnown, Is, db_get_file, RemovedMode,
       CatalogueInv, RowsCoded
  <2> QED
    BY <1>6, <2>1, <2>2, ThenKeeps
<1> QED
  BY <1>1, <1>2, <1>3, <1>4, <1>5, <1>6 DEF RmdKind, RmdEmpty, DeleMode, SizeMode, RemoveKind, DeleteFails

LEMMA DeleteKeeps ==
  ASSUME CatalogueInv, NEW s \in Session, Delete(s)
  PROVE  CatalogueInv'
<1>1. /\ file_tbl' \subseteq file_tbl /\ UNCHANGED <<failing, nextCode, place>>
      /\ Finish(s, 250)
  BY DEF Delete
<1>2. TableStep /\ file_tbl' \subseteq Row /\ nextCode' \in 1 .. MaxCode + 1 /\ PlaceOK'
  BY <1>1, PlaceStays DEF TableStep, CatalogueInv, TypeOK
<1>3. RowsCoded' /\ NoFileParent'
  BY <1>1 DEF CatalogueInv, RowsCoded, NoFileParent
<1> QED
  BY <1>1, <1>2, <1>3, FinishKeeps DEF Answer

LEMMA CatalogueNext == CatalogueInv /\ [Next]_vars => CatalogueInv'
<1> SUFFICES ASSUME CatalogueInv, [Next]_vars PROVE CatalogueInv'
  OBVIOUS
<1>1. CASE UNCHANGED vars
  BY <1>1 DEF vars, table, place, CatalogueInv, TypeOK, RowsCoded, NoFileParent,
     Known, Fits, ParentKnown, TargetKnown, db_get_file
<1>2. CASE Next
  BY <1>2, BetweenKeeps, BeginKeeps, ParentKeeps, WalkKeeps, ChangeDirKeeps, MkdLooks,
     MkdInsertKeeps, RemovalLooks, DeleteKeeps DEF Next
<1> QED
  BY <1>1, <1>2

(* What a session knows of the rows it has looked up is so in every state. *)
THEOREM CatalogueInvariant == Spec => []CatalogueInv
BY CatalogueInit, CatalogueNext, PTL DEF Spec

(* The types of the rows, codes and paths.                                 *)
THEOREM CatalogueTypeCorrect == Spec => []TypeOK
<1>1. CatalogueInv => TypeOK
  BY DEF CatalogueInv
<1> QED
  BY CatalogueInvariant, <1>1, PTL

(* Nothing is ever created below a regular file, however the sessions'     *)
(* queries interleave, as long as no query fails.                          *)
THEOREM FilesHaveNoChildren == Spec => []NoFileParent
<1>1. CatalogueInv => NoFileParent
  BY DEF CatalogueInv
<1> QED
  BY CatalogueInvariant, <1>1, PTL

-----------------------------------------------------------------------------
(* What is removed.                                                        *)
LEMMA OnlyDeletes ==
  ASSUME CatalogueInv, [Next]_vars, file_tbl' # file_tbl
  PROVE  \E s \in Session : Delete(s) \/ MkdInsert(s)
BY DEF Next, vars, table, Login, NewSession, Begin, Parent, Walk, Check, ChangeDir, Climb,
   ShowPwd, MkdKind, MkdExists, MkdRefused, RmdKind, RmdEmpty, Find, DeleMode, SizeMode,
   RemoveKind, DeleteFails, Step

LEMMA RemovesOwn ==
  ASSUME CatalogueInv, [Next]_vars
  PROVE  \A r \in file_tbl \ file_tbl' :
           \E s \in Session : /\ r.owner = user[s]
                              /\ cmd[s] = IF r.st_mode = "dir" THEN "RMD" ELSE "DELE"
<1> SUFFICES ASSUME NEW r \in file_tbl \ file_tbl'
             PROVE  \E s \in Session :
                      /\ r.owner = user[s]
                      /\ cmd[s] = IF r.st_mode = "dir" THEN "RMD" ELSE "DELE"
  OBVIOUS
<1>1. PICK s \in Session : Delete(s)
  BY OnlyDeletes DEF MkdInsert
<1>2. /\ at[s] = "delete" /\ r.owner = user[s] /\ r.code = code[s]
  BY <1>1 DEF Delete
<1>3. Known(cmd[s], at[s], code[s], dirs[s])
  BY SessionParts
<1>4. cmd[s] \in {"RMD", "DELE"} /\ r.st_mode = IF cmd[s] = "RMD" THEN "dir" ELSE "reg"
  BY <1>2, <1>3 DEF Known, Fits, TargetKnown, db_get_file
<1> QED
  BY <1>2, <1>4

(* A row is only ever removed for its own user, a regular file by DELE and *)
(* a directory by RMD, whatever queries failed before.                     *)
THEOREM RemovalsAreOwn == Spec => RemovesOwnKind
<1>1. CatalogueInv /\ [Next]_vars =>
        [\A r \in file_tbl \ file_tbl' :
           \E s \in Session : /\ r.owner = user[s]
                              /\ cmd[s] = IF r.st_mode = "dir" THEN "RMD" ELSE "DELE"]_vars
  BY RemovesOwn
<1> QED
  BY CatalogueInvariant, <1>1, PTL DEF Spec, RemovesOwnKind

(* The step in which a session goes idle is its own.                       *)
LEMMA HandleMoves ==
  ASSUME CatalogueInv, NEW t \in Session, NEW what, NEW c, NEW ds, Handle(t, what, c, ds)
  PROVE  /\ \A s \in Session \ {t} : at'[s] = at[s]
         /\ reply'[t] # 250
<1> USE DEF CatalogueInv, TypeOK
<1>1. CASE what = "CWD" /\ c # 0
  BY <1>1 DEF Handle, Go
<1>2. CASE what # "CWD" /\ ds = << >>
  BY <1>2 DEF Handle, Finish
<1>3. CASE ~(what = "CWD" /\ c # 0) /\ ~(what # "CWD" /\ ds = << >>)
  <2>1. Go(t, what, OnPath(what, c, ds), c, ds)
    BY <1>3 DEF Handle
  <2> QED
    BY <2>1 DEF Go
<1> QED
  BY <1>1, <1>2, <1>3

LEMMA EndsItself ==
  ASSUME CatalogueInv, [Next]_vars, NEW s \in Session,
         cmd[s] \in {"RMD", "DELE"}, at'[s] = "idle", reply'[s] = 250
  PROVE  RemoveKind(s) \/ Delete(s) \/ DeleteFails(s)
<1>1. Known(cmd[s], at[s], code[s], dirs[s]) /\ at[s] # "idle"
  BY SessionParts DEF Known, Fits
<1>2. ASSUME NEW t \in Session, NEW query, NEW c, NEW ds, Go(t, cmd[t], query, c, ds)
      PROVE  FALSE
  BY <1>1, <1>2 DEF Go, CatalogueInv, TypeOK
<1>3. ASSUME NEW t \in Session, Finish(t, 550)
      PROVE  FALSE
  BY <1>1, <1>3 DEF Finish, CatalogueInv, TypeOK
<1>4. ASSUME NEW t \in Session, Finish(t, 250)
      PROVE  t = s
  BY <1>1, <1>4 DEF Finish, CatalogueInv, TypeOK
<1>5. ASSUME NEW t \in Session, NEW u \in User, Login(t, u) \/ NewSession(t, u)
      PROVE  FALSE
  BY <1>1, <1>5 DEF Login, NewSession
<1>6. ASSUME NEW t \in Session, NEW what \in Command, NEW path \in Path, Begin(t, what, path)
      PROVE  FALSE
  <2>1. t # s
    BY <1>1, <1>6 DEF Begin
  <2>2. CASE Go(t, what, "parent", 0, path.dirs)
    BY <1>1, <2>1, <2>2 DEF Go, CatalogueInv, TypeOK
  <2>3. CASE Handle(t, what, IF path.from = "root" THEN 0 ELSE pwd_code[t], path.dirs)
    BY <1>1, <2>1, <2>3, HandleMoves
  <2> QED
    BY <1>6, <2>2, <2>3 DEF Begin
<1>7. ASSUME NEW t \in Session, Parent(t)
      PROVE  FALSE
  <2>1. CASE \E c : Handle(t, cmd[t], c, dirs[t])
    BY <1>1, <2>1, HandleMoves
  <2>2. CASE Finish(t, 550)
    BY <1>3, <2>2
  <2> QED
    BY <1>7, <2>1, <2>2 DEF Parent
<1>8. ASSUME NEW t \in Session, Walk(t)
      PROVE  FALSE
  <2>1. PICK c : \/ Finish(t, 550)
                 \/ Go(t, cmd[t], OnPath(cmd[t], c, Tail(dirs[t])), c, Tail(dirs[t]))
    BY <1>8 DEF Walk
  <2> QED
    BY <1>2, <1>3, <2>1
<1>9. ASSUME NEW t \in Session, Check(t) \/ ChangeDir(t) \/ Climb(t) \/ ShowPwd(t)
      PROVE  FALSE
  <2>1. t # s
    BY <1>1, <1>9 DEF Check, ChangeDir, Climb, ShowPwd, Step, Known, Fits
  <2>2. at'[s] = at[s]
    BY <1>9, <2>1 DEF Check, ChangeDir, Climb, ShowPwd, Then, Go, Finish, CatalogueInv, TypeOK
  <2> QED
    BY <1>1, <2>2
<1>10. ASSUME NEW t \in Session,
              MkdKind(t) \/ MkdExists(t) \/ MkdInsert(t) \/ MkdRefused(t) \/ SizeMode(t)
       PROVE  FALSE
  <2>1. t # s
    BY <1>1, <1>10 DEF MkdKind, MkdExists, MkdInsert, MkdRefused, SizeMode, Step, Known, Fits
  <2>2. at'[s] = at[s]
    BY <1>10, <2>1 DEF MkdKind, MkdExists, MkdInsert, MkdRefused, SizeMode, Then, Go, Finish,
       CatalogueInv, TypeOK
  <2> QED
    BY <1>1, <2>2
<1>11. ASSUME NEW t \in Session, RmdKind(t) \/ RmdEmpty(t) \/ Find(t) \/ DeleMode(t)
       PROVE  FALSE
  BY <1>2, <1>3, <1>11 DEF RmdKind, RmdEmpty, Find, DeleMode, Then
<1>12. ASSUME NEW t \in Session, RemoveKind(t) \/ Delete(t) \/ DeleteFails(t)
       PROVE  t = s
  BY <1>2, <1>4, <1>12 DEF RemoveKind, Delete, DeleteFails, Then
<1>13. ~UNCHANGED vars
  BY <1>1 DEF vars
<1> QED
  BY <1>5, <1>6, <1>7, <1>8, <1>9, <1>10, <1>11, <1>12, <1>13 DEF Next

LEMMA ConfirmedIsGone ==
  ASSUME CatalogueInv, [Next]_vars, NEW what \in {"RMD", "DELE"}
  PROVE  ConfirmsGone(what)
<1> SUFFICES ASSUME ~failing, NEW s \in Session,
                    cmd[s] = what, at'[s] = "idle", reply'[s] = 250,
                    NEW r \in file_tbl', r.code = code[s], r.owner = user[s]
             PROVE  FALSE
  BY DEF ConfirmsGone
<1>1. Known(cmd[s], at[s], code[s], dirs[s]) /\ reply'[s] = 250
  BY SessionParts
<1>2. CASE RemoveKind(s)
  <2>1. IsNot(code[s], RemovedMode(s))
    BY <1>1, <1>2 DEF RemoveKind, Then, Go, CatalogueInv, TypeOK
  <2>2. at[s] = "removekind" /\ r \in db_get_file(code[s])
    BY <1>2 DEF RemoveKind, Step, table, db_get_file
  <2> QED
    BY <1>1, <2>1, <2>2 DEF IsNot, Is, RemovedMode, Known, TargetKnown
<1>3. CASE Delete(s)
  BY <1>3 DEF Delete
<1>4. CASE DeleteFails(s)
  BY <1>4 DEF DeleteFails
<1> QED
  BY <1>2, <1>3, <1>4, EndsItself

(* When DELE replies 250 the file it found is gone, whoever deleted it.    *)
THEOREM DeletionsAreTrue == Spec => DeletedIsGone
<1>1. CatalogueInv /\ [Next]_vars => [ConfirmsGone("DELE")]_vars
  BY ConfirmedIsGone
<1> QED
  BY CatalogueInvariant, <1>1, PTL DEF Spec, DeletedIsGone

(* When RMD replies 250 the directory of the user's own is gone.           *)
THEOREM RemovalsAreTrue == Spec => RemovedIsGone
<1>1. CatalogueInv /\ [Next]_vars => [ConfirmsGone("RMD")]_vars
  BY ConfirmedIsGone
<1> QED
  BY CatalogueInvariant, <1>1, PTL DEF Spec, RemovedIsGone

-----------------------------------------------------------------------------
(* Unless a precode that was never written held one that is still to come, *)
(* the codes that the sessions hold have all been handed out, so a new     *)
(* directory comes after its parent.                                       *)
UsedInv ==
  wild \/ /\ \A r \in file_tbl : r.precode < r.code
          /\ \A s \in Session : /\ code[s] < nextCode
                                /\ pwd_code[s] < nextCode
                                /\ filePre[s] < nextCode

LEMMA UsedStep ==
  ASSUME UsedInv, ~wild, NEW t \in Session, nextCode' = nextCode, file_tbl' \subseteq file_tbl,
         \A s \in Session \ {t} : /\ code'[s] = code[s] /\ pwd_code'[s] = pwd_code[s]
                                  /\ filePre'[s] = filePre[s],
         code'[t] < nextCode, pwd_code'[t] < nextCode, filePre'[t] < nextCode
  PROVE  UsedInv'
BY DEF UsedInv

LEMMA HandleUses ==
  ASSUME CatalogueInv, NEW t \in Session, NEW what, NEW c, NEW ds, Handle(t, what, c, ds)
  PROVE  /\ \A s \in Session \ {t} : code'[s] = code[s]
         /\ code'[t] \in {c, 0}
<1> USE DEF CatalogueInv, TypeOK
<1>1. CASE what = "CWD" /\ c # 0
  BY <1>1 DEF Handle, Go
<1>2. CASE what # "CWD" /\ ds = << >>
  BY <1>2 DEF Handle, Finish
<1>3. CASE ~(what = "CWD" /\ c # 0) /\ ~(what # "CWD" /\ ds = << >>)
  <2>1. Go(t, what, OnPath(what, c, ds), c, ds)
    BY <1>3 DEF Handle
  <2> QED
    BY <2>1 DEF Go
<1> QED
  BY <1>1, <1>2, <1>3

LEMMA WildStays ==
  ASSUME [Next]_vars, wild
  PROVE  wild'
<1>1. ASSUME NEW t \in Session, Parent(t)
      PROVE  wild'
  BY <1>1 DEF Parent
<1>2. ASSUME NEW t \in Session,
             \/ \E u \in User : Login(t, u) \/ NewSession(t, u)
             \/ \E what \in Command, path \in Path : Begin(t, what, path)
             \/ ChangeDir(t) \/ ShowPwd(t)
      PROVE  wild'
  BY <1>2 DEF Login, NewSession, Begin, ChangeDir, ShowPwd
<1>3. ASSUME NEW t \in Session,
             \/ Walk(t) \/ Check(t) \/ Climb(t) \/ MkdKind(t) \/ MkdExists(t) \/ MkdInsert(t)
             \/ MkdRefused(t) \/ RmdKind(t) \/ RmdEmpty(t) \/ Find(t) \/ DeleMode(t)
             \/ SizeMode(t) \/ RemoveKind(t) \/ Delete(t) \/ DeleteFails(t)
      PROVE  wild'
  <2>1. UNCHANGED place
    BY <1>3 DEF Walk, Check, Climb, MkdKind, MkdExists, MkdInsert, MkdRefused, RmdKind, RmdEmpty,
       Find, DeleMode, SizeMode, RemoveKind, Delete, DeleteFails, Step
  <2> QED
    BY <2>1 DEF place
<1>4. CASE UNCHANGED vars
  BY <1>4 DEF vars, place
<1> QED
  BY <1>1, <1>2, <1>3, <1>4 DEF Next

LEMMA UsedNext ==
  ASSUME CatalogueInv, UsedInv, [Next]_vars
  PROVE  UsedInv'
<1>a. CASE wild
  BY <1>a, WildStays DEF UsedInv
<1> SUFFICES ASSUME ~wild PROVE UsedInv'
  BY <1>a
<1>1. /\ nextCode \in Nat /\ 0 < nextCode /\ -1 < nextCode
      /\ \A r \in file_tbl : /\ r.code \in Int /\ r.precode \in Int /\ r.precode < r.code
                             /\ r.code < nextCode /\ r.precode < nextCode
  BY CatalogueAssumption DEF CatalogueInv, TypeOK, RowsCoded, UsedInv, Row, Code
<1>2. \A s \in Session : code[s] < nextCode /\ pwd_code[s] < nextCode /\ filePre[s] < nextCode
  BY DEF UsedInv
<1>3. ASSUME NEW t \in Session, NEW what, NEW query, NEW c, NEW ds,
             Go(t, what, query, c, ds), c < nextCode,
             UNCHANGED <<pwd_code, filePre, file_tbl, nextCode>>
      PROVE  UsedInv'
  <2>1. code'[t] = c /\ \A s \in Session \ {t} : code'[s] = code[s]
    BY <1>3 DEF Go, CatalogueInv, TypeOK
  <2> QED
    BY <1>2, <1>3, <2>1, UsedStep
<1>4. ASSUME NEW t \in Session, NEW answer, Finish(t, answer),
             UNCHANGED <<pwd_code, filePre, nextCode>>, file_tbl' \subseteq file_tbl
      PROVE  UsedInv'
  <2>1. code'[t] = 0 /\ \A s \in Session \ {t} : code'[s] = code[s]
    BY <1>4 DEF Finish, CatalogueInv, TypeOK
  <2> QED
    BY <1>1, <1>2, <1>4, <2>1, UsedStep
<1>5. ASSUME NEW t \in Session, NEW u \in User, Login(t, u) \/ NewSession(t, u)
      PROVE  UsedInv'
  <2>1. UNCHANGED <<file_tbl, nextCode, code>>
    BY <1>5 DEF Login, NewSession, table
  <2>2. /\ pwd_code'[t] < nextCode /\ filePre'[t] < nextCode
        /\ \A s \in Session \ {t} : pwd_code'[s] = pwd_code[s] /\ filePre'[s] = filePre[s]
    BY <1>1, <1>2, <1>5 DEF Login, NewSession, CatalogueInv, TypeOK
  <2> QED
    BY <1>2, <2>1, <2>2, UsedStep
<1>6. ASSUME NEW t \in Session, NEW what \in Command, NEW path \in Path, Begin(t, what, path)
      PROVE  UsedInv'
  <2>1. UNCHANGED <<file_tbl, nextCode, pwd_code>>
    BY <1>6 DEF Begin, table
  <2>2. /\ \A s \in Session \ {t} : code'[s] = code[s] /\ filePre'[s] = filePre[s]
        /\ code'[t] \in {0, pwd_code[t]} /\ filePre'[t] \in {0, filePre[t]}
    <3>1. CASE path.from = "up" /\ pwd_code[t] # 0
      BY <1>6, <3>1 DEF Begin, Go, CatalogueInv, TypeOK
    <3>2. CASE ~(path.from = "up" /\ pwd_code[t] # 0)
      BY <1>6, <3>2, HandleUses DEF Begin
    <3> QED
      BY <3>1, <3>2
  <2> QED
    BY <1>1, <1>2, <2>1, <2>2, UsedStep
<1>7. ASSUME NEW t \in Session, Parent(t)
      PROVE  UsedInv'
  <2>1. UNCHANGED <<file_tbl, nextCode, pwd_code>>
    BY <1>7 DEF Parent, table
  <2>2. CASE \E r \in db_get_file(pwd_code[t]) :
                /\ filePre' = [filePre EXCEPT ![t] = r.precode]
                /\ Handle(t, cmd[t], r.precode, dirs[t])
    <3>1. PICK r \in db_get_file(pwd_code[t]) :
                /\ filePre' = [filePre EXCEPT ![t] = r.precode]
                /\ Handle(t, cmd[t], r.precode, dirs[t])
      BY <2>2
    <3>2. r.precode < nextCode
      BY <1>1 DEF db_get_file
    <3>3. /\ filePre'[t] = r.precode
          /\ \A s \in Session \ {t} : filePre'[s] = filePre[s]
      BY <3>1 DEF CatalogueInv, TypeOK
    <3>4. code'[t] \in {r.precode, 0} /\ \A s \in Session \ {t} : code'[s] = code[s]
      BY <3>1, HandleUses
    <3> QED
      BY <1>1, <1>2, <2>1, <3>2, <3>3, <3>4, UsedStep
  <2>3. CASE UNCHANGED filePre /\ Finish(t, 550)
    BY <1>4, <2>1, <2>3
  <2>4. CASE /\ UNCHANGED filePre
             /\ \E c \in IF filePre[t] = -1 THEN Garbage ELSE {filePre[t]} :
                  /\ Handle(t, cmd[t], c, dirs[t])
                  /\ wild' = (wild \/ c >= nextCode)
    <3>1. PICK c \in IF filePre[t] = -1 THEN Garbage ELSE {filePre[t]} :
                  /\ Handle(t, cmd[t], c, dirs[t])
                  /\ wild' = (wild \/ c >= nextCode)
      BY <2>4
    <3>2. code'[t] \in {c, 0} /\ \A s \in Session \ {t} : code'[s] = code[s]
      BY <3>1, HandleUses
    <3>3. CASE c >= nextCode
      BY <3>1, <3>3 DEF UsedInv
    <3>4. CASE ~(c >= nextCode)
      <4>1. c \in Int
        BY <3>1, CatalogueAssumption DEF CatalogueInv, TypeOK, Code
      <4>2. c < nextCode
        BY <1>1, <3>4, <4>1
      <4> QED
        BY <1>1, <1>2, <2>1, <2>4, <3>2, <4>2, UsedStep
    <3> QED
      BY <3>3, <3>4
  <2> QED
    BY <1>7, <2>2, <2>3, <2>4 DEF Parent
<1>8. ASSUME NEW t \in Session, Walk(t)
      PROVE  UsedInv'
  <2>1. UNCHANGED <<file_tbl, nextCode, pwd_code, filePre>>
    BY <1>8 DEF Walk, Step, table, place
  <2>2. PICK c \in db_find_dir(code[t], Head(dirs[t])) :
          IF c = -1 THEN Finish(t, 550)
          ELSE Go(t, cmd[t], OnPath(cmd[t], c, Tail(dirs[t])), c, Tail(dirs[t]))
    BY <1>8 DEF Walk
  <2>3. CASE c = -1
    BY <1>4, <2>1, <2>2, <2>3
  <2>4. CASE c # -1
    <3>1. c < nextCode
      BY <2>4, CodesFacts DEF db_find_dir
    <3> QED
      BY <1>3, <2>1, <2>2, <2>4, <3>1
  <2> QED
    BY <2>3, <2>4
<1>9. ASSUME NEW t \in Session, ChangeDir(t)
      PROVE  UsedInv'
  <2>1. UNCHANGED <<file_tbl, nextCode, filePre>>
    BY <1>9 DEF ChangeDir, table
  <2>2. /\ code'[t] = code[t] /\ pwd_code'[t] = code[t]
        /\ \A s \in Session \ {t} : code'[s] = code[s] /\ pwd_code'[s] = pwd_code[s]
    BY <1>9 DEF ChangeDir, Go, CatalogueInv, TypeOK
  <2> QED
    BY <1>2, <2>1, <2>2, UsedStep
<1>10. ASSUME NEW t \in Session, Climb(t)
       PROVE  UsedInv'
  <2>1. UNCHANGED <<file_tbl, nextCode, pwd_code, filePre>>
    BY <1>10 DEF Climb, Step, table, place
  <2>2. PICK r \in db_get_file(code[t]) :
          Go(t, "CWD", "pwd", r.precode, Append(dirs[t], r.filename))
    BY <1>10 DEF Climb
  <2>3. r.precode < nextCode
    BY <1>1 DEF db_get_file
  <2> QED
    BY <1>3, <2>1, <2>2, <2>3
<1>11. ASSUME NEW t \in Session,
              \/ Check(t) \/ ShowPwd(t) \/ MkdKind(t) \/ MkdExists(t) \/ MkdRefused(t)
              \/ RmdKind(t) \/ RmdEmpty(t) \/ DeleMode(t) \/ SizeMode(t)
              \/ RemoveKind(t) \/ Delete(t) \/ DeleteFails(t)
       PROVE  UsedInv'
  <2>1. UNCHANGED <<pwd_code, filePre, nextCode>> /\ file_tbl' \subseteq file_tbl
    BY <1>11 DEF Check, ShowPwd, MkdKind, MkdExists, MkdRefused, RmdKind, RmdEmpty, DeleMode,
       SizeMode, RemoveKind, Delete, DeleteFails, Step, table, place
  <2>2. CASE \E answer : Finish(t, answer)
    BY <1>4, <2>1, <2>2
  <2>3. CASE \E what, query, ds : Go(t, what, query, code[t], ds) /\ UNCHANGED file_tbl
    BY <1>2, <1>3, <2>1, <2>3
  <2> QED
    BY <1>11, <2>2, <2>3 DEF Check, ShowPwd, MkdKind, MkdExists, MkdRefused, RmdKind, RmdEmpty,
       DeleMode, SizeMode, RemoveKind, Delete, DeleteFails, Step, Then, table
<1>12. ASSUME NEW t \in Session, Find(t)
       PROVE  UsedInv'
  <2>1. UNCHANGED <<file_tbl, nextCode, pwd_code, filePre>>
    BY <1>12 DEF Find, Step, table, place
  <2>2. PICK c \in db_find_file(user[t], code[t], Head(dirs[t])) :
          IF c = -1 THEN Finish(t, 550) ELSE Go(t, cmd[t], "mode", c, dirs[t])
    BY <1>12 DEF Find
  <2>3. CASE c = -1
    BY <1>4, <2>1, <2>2, <2>3
  <2>4. CASE c # -1
    <3>1. c < nextCode
      BY <2>4, CodesFacts DEF db_find_file
    <3> QED
      BY <1>3, <2>1, <2>2, <2>4, <3>1
  <2> QED
    BY <2>3, <2>4
<1>13. ASSUME NEW t \in Session, MkdInsert(t)
       PROVE  UsedInv'
  <2> DEFINE row == [precode |-> code[t], code |-> nextCode, filename |-> Head(dirs[t]),
                     st_mode |-> "dir", owner |-> user[t]]
  <2>1. /\ file_tbl' = file_tbl \cup {row} /\ nextCode' = nextCode + 1 /\ Finish(t, 257)
        /\ UNCHANGED <<pwd_code, filePre>>
    BY <1>13 DEF MkdInsert, place
  <2>2. row.precode = code[t] /\ row.code = nextCode
    OBVIOUS
  <2> HIDE DEF row
  <2>3. \A r \in file_tbl' : r.precode < r.code
    BY <1>1, <1>2, <2>1, <2>2
  <2>4. \A s \in Session : /\ code[s] \in Int /\ pwd_code[s] \in Int /\ filePre[s] \in Int
                           /\ code'[s] \in {code[s], 0}
    BY <2>1 DEF Finish, CatalogueInv, TypeOK, Code
  <2>5. \A s \in Session : code'[s] < nextCode' /\ pwd_code'[s] < nextCode' /\ filePre'[s] < nextCode'
    BY <1>1, <1>2, <2>1, <2>4
  <2> QED
    BY <2>3, <2>5 DEF UsedInv
<1>14. CASE UNCHANGED vars
  BY <1>14 DEF vars, table, place, UsedInv
<1> QED
  BY <1>5, <1>6, <1>7, <1>8, <1>9, <1>10, <1>11, <1>12, <1>13, <1>14 DEF Next

(* A directory's code is greater than its parent's, even by way of a       *)
(* working directory that is gone or a precode left by an earlier command, *)
(* unless a precode that was never written held a code still to come.      *)
THEOREM ParentsComeFirst == Spec => []ParentsFirst
<1>1. Init => UsedInv
  <2> SUFFICES ASSUME Init PROVE UsedInv
    OBVIOUS
  <2>1. nextCode \in 1 .. MaxCode + 1 /\ file_tbl = StoredFiles
    BY CatalogueInit DEF CatalogueInv, TypeOK, Init
  <2>2. nextCode \in Nat /\ nextCode >= 1
    BY <2>1, CatalogueAssumption
  <2>3. \A r \in file_tbl : r.precode < r.code
    <3>1. \A r \in file_tbl : r.precode = 0 /\ r.code > 0
      BY <2>1, CatalogueAssumption DEF Row, Code
    <3> QED
      BY <3>1
  <2>4. \A s \in Session : code[s] = 0 /\ pwd_code[s] = 0 /\ filePre[s] = -1
    BY DEF Init
  <2>5. \A s \in Session : code[s] < nextCode /\ pwd_code[s] < nextCode /\ filePre[s] < nextCode
    BY <2>2, <2>4
  <2> QED
    BY <2>3, <2>5 DEF UsedInv
<1>2. CatalogueInv /\ UsedInv /\ [Next]_vars => UsedInv'
  BY UsedNext
<1>3. UsedInv => ParentsFirst
  BY DEF UsedInv, ParentsFirst
<1> QED
  BY <1>1, <1>2, <1>3, CatalogueInvariant, PTL DEF Spec


-----------------------------------------------------------------------------
(* The recursive functions of PwdTrue.  That a function with the recursion *)
(* exists is shown by the least code up to which there is none.            *)
LEMMA LeastExists ==
  ASSUME NEW S \in SUBSET Nat, S # {}
  PROVE  \E m \in S : \A k \in S : m <= k
<1>1. PICK m \in S : \A k \in S : ~(<<k, m>> \in OpToRel(<, Nat))
  BY NatLessThanWellFounded, WFMin
<1>2. \A k \in S : k < m => <<k, m>> \in OpToRel(<, Nat)
  BY DEF OpToRel
<1>3. \A k \in S : ~(k < m)
  BY <1>1, <1>2
<1>4. m \in Nat /\ \A k \in S : k \in Nat
  OBVIOUS
<1>5. \A k \in S : m <= k
  BY <1>3, <1>4
<1> QED
  BY <1>5

(* A code up to n leads to the root by rows of T.                          *)
RootedUpTo(T, n, R) ==
  /\ R \in [0 .. n -> BOOLEAN]
  /\ \A c \in 0 .. n :
       R[c] <=> c = 0 \/ \E r \in T : r.code = c /\ r.precode < c /\ R[r.precode]

LEMMA RootedExists ==
  ASSUME NEW T \in SUBSET Row
  PROVE  \E R : RootedUpTo(T, MaxCode, R)
<1> DEFINE S == {n \in 0 .. MaxCode : ~\E R : RootedUpTo(T, n, R)}
<1>1. MaxCode \in Nat
  BY CatalogueAssumption
<1>2. SUFFICES ASSUME S # {} PROVE FALSE
  BY <1>1
<1>3. PICK m \in S : \A k \in S : m <= k
  <2>1. S \in SUBSET Nat
    BY <1>1
  <2> HIDE DEF S
  <2> QED
    BY <1>2, <2>1, LeastExists
<1>4. m \in 0 .. MaxCode /\ ~\E R : RootedUpTo(T, m, R)
  OBVIOUS
<1>5. CASE m = 0
  <2> DEFINE R == [c \in 0 .. 0 |-> TRUE]
  <2>1. RootedUpTo(T, 0, R)
    BY DEF RootedUpTo
  <2> QED
    BY <1>4, <1>5, <2>1
<1>6. CASE m # 0
  <2>1. m - 1 \in 0 .. MaxCode /\ m - 1 \notin S /\ m \in Nat
    BY <1>1, <1>3, <1>4, <1>6
  <2>2. PICK R : RootedUpTo(T, m - 1, R)
    BY <2>1
  <2> DEFINE top == \E r \in T : r.code = m /\ r.precode < m /\ R[r.precode]
             Q == [c \in 0 .. m |-> IF c = m THEN top ELSE R[c]]
  <2>3. \A c \in 0 .. m : (IF c = m THEN top ELSE R[c]) \in BOOLEAN
    <3>1. top \in BOOLEAN
      OBVIOUS
    <3>2. \A c \in 0 .. m : c # m => R[c] \in BOOLEAN
      BY <2>1, <2>2 DEF RootedUpTo
    <3> HIDE DEF top
    <3> QED
      BY <3>1, <3>2
  <2>4. Q \in [0 .. m -> BOOLEAN]
    BY <2>3
  <2>5. \A c \in 0 .. m : c # m => c \in 0 .. m - 1 /\ (Q[c] <=> R[c])
    BY <2>1
  <2>6. Q[m] <=> top
    BY <2>1
  <2>7. \A r \in T : r.precode \in Nat
    BY <1>1 DEF Row, Code
  <2> HIDE DEF Q
  <2>8. \A r \in T, c \in 0 .. m : r.precode < c => (Q[r.precode] <=> R[r.precode])
    BY <2>1, <2>5, <2>7
  <2>9. ASSUME NEW c \in 0 .. m
        PROVE  Q[c] <=> c = 0 \/ \E r \in T : r.code = c /\ r.precode < c /\ Q[r.precode]
    <3>1. CASE c = m
      BY <1>6, <2>6, <2>8, <3>1
    <3>2. CASE c # m
      BY <2>2, <2>5, <2>8, <3>2 DEF RootedUpTo
    <3> QED
      BY <3>1, <3>2
  <2>10. RootedUpTo(T, m, Q)
    BY <2>4, <2>9 DEF RootedUpTo
  <2> QED
    BY <1>4, <2>10
<1> QED
  BY <1>5, <1>6

RootedIn(T) ==
  CHOOSE R : R = [c \in Code \cup {0} |->
                    c = 0 \/ \E r \in {q \in T : q.code = c} : r.precode < c /\ R[r.precode]]

LEMMA RootedInFacts ==
  ASSUME NEW T \in SUBSET Row
  PROVE  RootedUpTo(T, MaxCode, RootedIn(T))
<1>1. PICK R : RootedUpTo(T, MaxCode, R)
  BY RootedExists
<1>2. Code \cup {0} = 0 .. MaxCode
  BY CatalogueAssumption DEF Code
<1>3. R = [c \in Code \cup {0} |->
             c = 0 \/ \E r \in {q \in T : q.code = c} : r.precode < c /\ R[r.precode]]
  BY <1>1, <1>2 DEF RootedUpTo
<1>4. RootedIn(T) = [c \in Code \cup {0} |->
        c = 0 \/ \E r \in {q \in T : q.code = c} : r.precode < c /\ RootedIn(T)[r.precode]]
  BY <1>3 DEF RootedIn
<1> QED
  BY <1>2, <1>4 DEF RootedUpTo

LEMMA RootedNow == Rooted = RootedIn(file_tbl) /\ Rooted' = RootedIn(file_tbl')
BY DEF Rooted, RootedIn, db_get_file

(* The path of a code up to n, where it leads to the root.                 *)
Coded(T) == \A r, q \in T : r.code = q.code => r = q

RowIn(T, c) == CHOOSE r \in {q \in T : q.code = c} : TRUE

PathUpTo(T, n, R, P) ==
  /\ P \in [0 .. n -> Seq(Name)]
  /\ \A c \in 0 .. n :
       P[c] = IF c = 0 \/ ~R[c] THEN << >>
              ELSE Append(P[RowIn(T, c).precode], RowIn(T, c).filename)

LEMMA RowInFacts ==
  ASSUME NEW T \in SUBSET Row, Coded(T), NEW n \in 0 .. MaxCode, NEW R,
         RootedUpTo(T, n, R), NEW c \in 0 .. n, c # 0, R[c]
  PROVE  /\ RowIn(T, c) \in T /\ RowIn(T, c).code = c /\ RowIn(T, c).filename \in Name
         /\ RowIn(T, c).precode \in 0 .. c - 1 /\ R[RowIn(T, c).precode]
<1>1. PICK r \in T : r.code = c /\ r.precode < c /\ R[r.precode]
  BY DEF RootedUpTo
<1>2. RowIn(T, c) = r
  <2>1. r \in {q \in T : q.code = c}
    BY <1>1
  <2>2. RowIn(T, c) \in {q \in T : q.code = c}
    BY <2>1 DEF RowIn
  <2> QED
    BY <1>1, <2>2 DEF Coded
<1>3. r.precode \in Nat /\ r.filename \in Name
  BY CatalogueAssumption DEF Row, Code
<1> QED
  BY <1>1, <1>2, <1>3

LEMMA PathExists ==
  ASSUME NEW T \in SUBSET Row, Coded(T), NEW R, RootedUpTo(T, MaxCode, R)
  PROVE  \E P : PathUpTo(T, MaxCode, R, P)
<1> DEFINE S == {n \in 0 .. MaxCode : ~\E P : PathUpTo(T, n, R, P)}
<1>1. MaxCode \in Nat
  BY CatalogueAssumption
<1>2. SUFFICES ASSUME S # {} PROVE FALSE
  BY <1>1
<1>3. PICK m \in S : \A k \in S : m <= k
  <2>1. S \in SUBSET Nat
    BY <1>1
  <2> HIDE DEF S
  <2> QED
    BY <1>2, <2>1, LeastExists
<1>4. m \in 0 .. MaxCode /\ ~\E P : PathUpTo(T, m, R, P)
  OBVIOUS
<1>5. CASE m = 0
  <2> DEFINE P == [c \in 0 .. 0 |-> << >>]
  <2>1. << >> \in Seq(Name)
    BY EmptySeq
  <2>2. PathUpTo(T, 0, R, P)
    BY <2>1 DEF PathUpTo
  <2> QED
    BY <1>4, <1>5, <2>2
<1>6. CASE m # 0
  <2>1. m - 1 \in 0 .. MaxCode /\ m - 1 \notin S /\ m \in Nat
    BY <1>1, <1>3, <1>4, <1>6
  <2>2. PICK P : PathUpTo(T, m - 1, R, P)
    BY <2>1
  <2> DEFINE top == IF ~R[m] THEN << >>
                    ELSE Append(P[RowIn(T, m).precode], RowIn(T, m).filename)
             Q == [c \in 0 .. m |-> IF c = m THEN top ELSE P[c]]
  <2>3. top \in Seq(Name)
    <3>1. << >> \in Seq(Name)
      BY EmptySeq
    <3>2. CASE R[m]
      <4>1. RowIn(T, m).precode \in 0 .. m - 1 /\ RowIn(T, m).filename \in Name
        BY <1>1, <1>4, <1>6, <3>2, RowInFacts
      <4>2. P[RowIn(T, m).precode] \in Seq(Name)
        BY <2>2, <4>1 DEF PathUpTo
      <4> QED
        BY <3>2, <4>1, <4>2
    <3> QED
      BY <3>1, <3>2
  <2>4. \A c \in 0 .. m : c # m => c \in 0 .. m - 1 /\ P[c] \in Seq(Name)
    BY <2>1, <2>2 DEF PathUpTo
  <2> HIDE DEF top
  <2>5. Q \in [0 .. m -> Seq(Name)]
    BY <2>3, <2>4
  <2>6. Q[m] = top /\ \A c \in 0 .. m - 1 : Q[c] = P[c]
    BY <2>1
  <2> HIDE DEF Q
  <2>7. ASSUME NEW c \in 0 .. m, c # 0, R[c]
        PROVE  Q[RowIn(T, c).precode] = P[RowIn(T, c).precode]
    <3>1. RowIn(T, c).precode \in 0 .. c - 1 /\ c \in 0 .. MaxCode
      BY <1>1, <1>4, <2>7, RowInFacts
    <3>2. RowIn(T, c).precode \in 0 .. m - 1
      BY <2>1, <3>1
    <3> QED
      BY <2>6, <3>2
  <2>8. ASSUME NEW c \in 0 .. m
        PROVE  Q[c] = IF c = 0 \/ ~R[c] THEN << >>
                      ELSE Append(Q[RowIn(T, c).precode], RowIn(T, c).filename)
    <3>1. CASE c = m
      BY <1>6, <2>6, <2>7, <3>1 DEF top
    <3>2. CASE c # m
      <4>1. c \in 0 .. m - 1 /\ Q[c] = P[c]
        BY <2>4, <2>6, <3>2
      <4>2. P[c] = IF c = 0 \/ ~R[c] THEN << >>
                   ELSE Append(P[RowIn(T, c).precode], RowIn(T, c).filename)
        BY <2>2, <4>1 DEF PathUpTo
      <4> QED
        BY <2>7, <4>1, <4>2
    <3> QED
      BY <3>1, <3>2
  <2>9. PathUpTo(T, m, R, Q)
    BY <2>5, <2>8 DEF PathUpTo
  <2> QED
    BY <1>4, <2>9
<1> QED
  BY <1>5, <1>6

PathIn(T, R) ==
  CHOOSE P : P = [c \in Code \cup {0} |->
    IF c = 0 \/ ~R[c] THEN << >>
    ELSE LET r == CHOOSE r \in {q \in T : q.code = c} : TRUE
         IN  Append(P[r.precode], r.filename)]

LEMMA PathInFacts ==
  ASSUME NEW T \in SUBSET Row, Coded(T), NEW R, RootedUpTo(T, MaxCode, R)
  PROVE  PathUpTo(T, MaxCode, R, PathIn(T, R))
<1>1. PICK P : PathUpTo(T, MaxCode, R, P)
  BY PathExists
<1>2. Code \cup {0} = 0 .. MaxCode
  BY CatalogueAssumption DEF Code
<1>3. P = [c \in Code \cup {0} |->
             IF c = 0 \/ ~R[c] THEN << >>
             ELSE LET r == CHOOSE r \in {q \in T : q.code = c} : TRUE
                  IN  Append(P[r.precode], r.filename)]
  BY <1>1, <1>2 DEF PathUpTo, RowIn
<1>4. PathIn(T, R) = [c \in Code \cup {0} |->
             IF c = 0 \/ ~R[c] THEN << >>
             ELSE LET r == CHOOSE r \in {q \in T : q.code = c} : TRUE
                  IN  Append(PathIn(T, R)[r.precode], r.filename)]
  BY <1>3 DEF PathIn
<1>5. PICK Q : Q = PathIn(T, R)
  OBVIOUS
<1>6. \A c \in 0 .. MaxCode :
        Q[c] = IF c = 0 \/ ~R[c] THEN << >>
               ELSE Append(Q[RowIn(T, c).precode], RowIn(T, c).filename)
  BY <1>2, <1>4, <1>5 DEF RowIn
<1>7. Q = [c \in 0 .. MaxCode |-> Q[c]]
  BY <1>2, <1>4, <1>5
<1>8. ASSUME NEW c \in 0 .. MaxCode PROVE Q[c] \in Seq(Name)
  <2> DEFINE Bad == {k \in 0 .. MaxCode : Q[k] \notin Seq(Name)}
  <2>1. SUFFICES ASSUME Bad # {} PROVE FALSE
    BY <1>8
  <2>2. PICK m \in Bad : \A k \in Bad : m <= k
    <3>1. Bad \in SUBSET Nat
      BY CatalogueAssumption
    <3> HIDE DEF Bad
    <3> QED
      BY <2>1, <3>1, LeastExists
  <2>3. m \in 0 .. MaxCode /\ Q[m] \notin Seq(Name)
    OBVIOUS
  <2>4. m # 0 /\ R[m]
    BY <1>6, <2>3, EmptySeq
  <2>5. /\ RowIn(T, m).precode \in 0 .. m - 1 /\ RowIn(T, m).filename \in Name
        /\ MaxCode \in Nat
    <3>1. MaxCode \in 0 .. MaxCode
      BY CatalogueAssumption
    <3> QED
      BY <2>3, <2>4, <3>1, RowInFacts, CatalogueAssumption
  <2>6. RowIn(T, m).precode \in 0 .. MaxCode /\ RowIn(T, m).precode \notin Bad
    BY <2>2, <2>3, <2>5
  <2>7. Q[RowIn(T, m).precode] \in Seq(Name)
    BY <2>6
  <2>8. Q[m] = Append(Q[RowIn(T, m).precode], RowIn(T, m).filename)
    BY <1>6, <2>3, <2>4
  <2>9. Append(Q[RowIn(T, m).precode], RowIn(T, m).filename) \in Seq(Name)
    BY <2>5, <2>7
  <2> QED
    BY <2>3, <2>8, <2>9
<1> QED
  BY <1>5, <1>6, <1>7, <1>8 DEF PathUpTo

(* Two tables that agree on the codes below n agree on their paths.        *)
LEMMA SamePaths ==
  ASSUME NEW T \in SUBSET Row, NEW U \in SUBSET Row, Coded(T), Coded(U),
         NEW n, \A r \in T : r.code < n => r \in U,
         NEW R, RootedUpTo(T, MaxCode, R), NEW P, PathUpTo(T, MaxCode, R, P),
         NEW S, RootedUpTo(U, MaxCode, S), NEW Q, PathUpTo(U, MaxCode, S, Q),
         NEW c \in 0 .. MaxCode, c < n, R[c], n \in Nat
  PROVE  S[c] /\ P[c] = Q[c]
<1> DEFINE Bad == {k \in 0 .. MaxCode : k < n /\ R[k] /\ ~(S[k] /\ P[k] = Q[k])}
<1>1. SUFFICES ASSUME Bad # {} PROVE FALSE
  OBVIOUS
<1>2. PICK m \in Bad : \A k \in Bad : m <= k
  <2>1. Bad \in SUBSET Nat
    BY CatalogueAssumption
  <2> HIDE DEF Bad
  <2> QED
    BY <1>1, <2>1, LeastExists
<1>3. m \in 0 .. MaxCode /\ m < n /\ R[m] /\ ~(S[m] /\ P[m] = Q[m])
  OBVIOUS
<1>4. MaxCode \in Nat /\ MaxCode \in 0 .. MaxCode /\ 0 \in 0 .. MaxCode
  BY CatalogueAssumption
<1>5. m # 0
  BY <1>3, <1>4 DEF RootedUpTo, PathUpTo
<1>6. PICK r : r = RowIn(T, m)
  OBVIOUS
<1>7. r \in T /\ r.code = m /\ r.precode \in 0 .. m - 1 /\ R[r.precode]
  BY <1>3, <1>4, <1>5, <1>6, RowInFacts
<1>8. r \in U /\ r.precode \in 0 .. MaxCode /\ r.precode < m /\ r.precode < n
  BY <1>3, <1>4, <1>7
<1>9. S[r.precode] /\ P[r.precode] = Q[r.precode]
  <2>1. r.precode \notin Bad
    BY <1>2, <1>3, <1>4, <1>8
  <2> QED
    BY <1>7, <1>8, <2>1
<1>10. S[m]
  BY <1>3, <1>7, <1>8, <1>9 DEF RootedUpTo
<1>11. RowIn(U, m) = r
  <2>1. RowIn(U, m) \in U /\ RowIn(U, m).code = m
    BY <1>3, <1>4, <1>5, <1>10, RowInFacts
  <2> QED
    BY <1>7, <1>8, <2>1 DEF Coded
<1>12. P[m] = Append(P[r.precode], r.filename) /\ Q[m] = Append(Q[r.precode], r.filename)
  BY <1>3, <1>5, <1>6, <1>10, <1>11 DEF PathUpTo
<1> QED
  BY <1>3, <1>9, <1>10, <1>12

LEMMA PathNow ==
  PathOf = PathIn(file_tbl, Rooted) /\ PathOf' = PathIn(file_tbl', Rooted')
BY DEF PathOf, PathIn, db_get_file

-----------------------------------------------------------------------------
(* What a session shows.  While db_get_pwd collects names, other sessions  *)
(* may remove the directories it has passed; so what it has collected is   *)
(* said of every part of the table, the part that will be left included.   *)
PathOn(T) == PathIn(T, RootedIn(T))

Climbed(s) ==
  \A T \in SUBSET file_tbl : RootedIn(T)[pwd_code[s]] =>
    /\ RootedIn(T)[code[s]]
    /\ PathOn(T)[pwd_code[s]] = PathOn(T)[code[s]] \o Reverse(dirs[s])

Shown(s) ==
  /\ pwd_code[s] < nextCode
  /\ cmd[s] = "CWD" /\ at[s] \in {"walk", "change"} => code[s] < nextCode
  /\ failing \/ IF at[s] = "pwd" THEN Climbed(s)
                ELSE Rooted[pwd_code[s]] => pwd[s] = PathOf[pwd_code[s]]

LEMMA TableParts ==
  ASSUME CatalogueInv, NEW T \in SUBSET file_tbl
  PROVE  /\ T \in SUBSET Row /\ Coded(T)
         /\ RootedUpTo(T, MaxCode, RootedIn(T))
         /\ PathUpTo(T, MaxCode, RootedIn(T), PathOn(T))
<1>1. T \in SUBSET Row /\ Coded(T)
  BY DEF CatalogueInv, TypeOK, RowsCoded, Coded
<1> QED
  BY <1>1, RootedInFacts, PathInFacts DEF PathOn

LEMMA PathNowOn ==
  /\ Rooted = RootedIn(file_tbl) /\ PathOf = PathOn(file_tbl)
  /\ Rooted' = RootedIn(file_tbl') /\ PathOf' = PathOn(file_tbl')
BY RootedNow, PathNow DEF PathOn

(* Two parts of the table that agree on the codes below n.                 *)
LEMMA SameOn ==
  ASSUME NEW T \in SUBSET Row, Coded(T), NEW U \in SUBSET Row, Coded(U),
         NEW n \in Nat, \A r \in T : r.code < n => r \in U,
         NEW c \in Code \cup {0}, c < n, RootedIn(T)[c]
  PROVE  RootedIn(U)[c] /\ PathOn(T)[c] = PathOn(U)[c]
<1>1. /\ RootedUpTo(T, MaxCode, RootedIn(T)) /\ PathUpTo(T, MaxCode, RootedIn(T), PathOn(T))
      /\ RootedUpTo(U, MaxCode, RootedIn(U)) /\ PathUpTo(U, MaxCode, RootedIn(U), PathOn(U))
  BY RootedInFacts, PathInFacts DEF PathOn
<1>2. c \in 0 .. MaxCode
  BY CatalogueAssumption DEF Code
<1>3. PICK R, S, P, Q : R = RootedIn(T) /\ S = RootedIn(U) /\ P = PathOn(T) /\ Q = PathOn(U)
  OBVIOUS
<1> QED
  BY <1>1, <1>2, <1>3, SamePaths

LEMMA ReverseTyped ==
  ASSUME NEW d \in Seq(Name)
  PROVE  Reverse(d) \in Seq(Name) /\ Len(Reverse(d)) = Len(d)
<1>1. Len(d) \in Nat /\ \A i \in 1 .. Len(d) : d[i] \in Name
  BY LenProperties, ElementOfSeq
<1>2. \A i \in 1 .. Len(d) : d[Len(d) - i + 1] \in Name
  BY <1>1
<1>3. Reverse(d) \in [1 .. Len(d) -> Name]
  BY <1>2 DEF Reverse
<1> QED
  BY <1>1, <1>3

(* A name moves from the end of the path to the end of what is collected.  *)
LEMMA ReverseFacts ==
  ASSUME NEW d \in Seq(Name), NEW x \in Name, NEW q \in Seq(Name)
  PROVE  Append(q, x) \o Reverse(d) = q \o Reverse(Append(d, x))
<1>1. Len(d) \in Nat /\ \A i \in 1 .. Len(d) : d[i] \in Name
  BY LenProperties, ElementOfSeq
<1>2. Reverse(d) \in Seq(Name) /\ Len(Reverse(d)) = Len(d)
  BY ReverseTyped
<1>3. /\ Append(d, x) \in Seq(Name) /\ Len(Append(d, x)) = Len(d) + 1
      /\ \A i \in 1 .. Len(d) + 1 : Append(d, x)[i] = IF i = Len(d) + 1 THEN x ELSE d[i]
  OBVIOUS
<1>4. /\ Reverse(Append(d, x)) \in Seq(Name) /\ Len(Reverse(Append(d, x))) = Len(d) + 1
      /\ \A i \in 1 .. Len(d) + 1 :
           Reverse(Append(d, x))[i] = Append(d, x)[Len(d) + 1 - i + 1]
  <2>1. \A i \in 1 .. Len(d) + 1 : Append(d, x)[Len(d) + 1 - i + 1] \in Name
    BY <1>1, <1>3
  <2>2. Reverse(Append(d, x)) = [i \in 1 .. Len(d) + 1 |-> Append(d, x)[Len(d) + 1 - i + 1]]
    BY <1>3 DEF Reverse
  <2>3. Reverse(Append(d, x)) \in [1 .. Len(d) + 1 -> Name]
    BY <2>1, <2>2
  <2> QED
    BY <1>1, <2>2, <2>3
<1>5. PICK rd, ra, a : rd = Reverse(d) /\ ra = Reverse(Append(d, x)) /\ a = Append(q, x)
  OBVIOUS
<1>6. a \in Seq(Name) /\ Len(a) = Len(q) + 1 /\ Len(q) \in Nat
      /\ \A i \in 1 .. Len(q) + 1 : a[i] = IF i = Len(q) + 1 THEN x ELSE q[i]
  BY <1>5, LenProperties
<1>7. /\ ra[1] = x
      /\ \A i \in 2 .. Len(d) + 1 : ra[i] = rd[i - 1]
  <2>1. ra[1] = x
    BY <1>1, <1>3, <1>4, <1>5
  <2>2. ASSUME NEW i \in 2 .. Len(d) + 1 PROVE ra[i] = rd[i - 1]
    <3>1. i - 1 \in 1 .. Len(d) /\ Len(d) + 1 - i + 1 \in 1 .. Len(d)
          /\ Len(d) - (i - 1) + 1 = Len(d) + 1 - i + 1
      BY <1>1
    <3>2. ra[i] = d[Len(d) + 1 - i + 1]
      BY <1>1, <1>3, <1>4, <1>5, <3>1
    <3>3. rd[i - 1] = d[Len(d) - (i - 1) + 1]
      BY <1>5, <3>1 DEF Reverse
    <3> QED
      BY <3>1, <3>2, <3>3
  <2> QED
    BY <2>1, <2>2
<1>8. a \o rd = q \o ra
  <2>1. /\ a \in Seq(Name) /\ rd \in Seq(Name) /\ q \in Seq(Name) /\ ra \in Seq(Name)
        /\ Len(a) = Len(q) + 1 /\ Len(rd) = Len(d) /\ Len(ra) = Len(d) + 1
        /\ Len(q) \in Nat /\ Len(d) \in Nat
    BY <1>1, <1>2, <1>4, <1>5, <1>6
  <2>2. /\ a \o rd \in Seq(Name) /\ Len(a \o rd) = Len(a) + Len(rd)
        /\ \A i \in 1 .. Len(a) + Len(rd) :
             (a \o rd)[i] = IF i <= Len(a) THEN a[i] ELSE rd[i - Len(a)]
    <3>1. a \in Seq(Name) /\ rd \in Seq(Name)
      BY <2>1
    <3> QED
      BY ONLY <3>1, ConcatProperties, Zenon
  <2>3. /\ q \o ra \in Seq(Name) /\ Len(q \o ra) = Len(q) + Len(ra)
        /\ \A i \in 1 .. Len(q) + Len(ra) :
             (q \o ra)[i] = IF i <= Len(q) THEN q[i] ELSE ra[i - Len(q)]
    <3>1. q \in Seq(Name) /\ ra \in Seq(Name)
      BY <2>1
    <3> QED
      BY ONLY <3>1, ConcatProperties, Zenon
  <2>4. PICK l, r : l = a \o rd /\ r = q \o ra
    OBVIOUS
  <2>5. ASSUME NEW i \in 1 .. Len(q) + 1 + Len(d) PROVE l[i] = r[i]
    <3>1. /\ l[i] = IF i <= Len(q) + 1 THEN a[i] ELSE rd[i - (Len(q) + 1)]
          /\ r[i] = IF i <= Len(q) THEN q[i] ELSE ra[i - Len(q)]
      <4>1. i \in 1 .. Len(a) + Len(rd) /\ i \in 1 .. Len(q) + Len(ra)
        BY <2>1
      <4> QED
        BY <2>1, <2>2, <2>3, <2>4, <4>1
    <3>2. CASE i <= Len(q)
      BY <1>6, <2>1, <3>1, <3>2
    <3>3. CASE i = Len(q) + 1
      BY <1>6, <1>7, <2>1, <3>1, <3>3
    <3>4. CASE i > Len(q) + 1
      <4>1. i - Len(q) \in 2 .. Len(d) + 1 /\ i - Len(q) - 1 = i - (Len(q) + 1)
        BY <2>1, <3>4
      <4> QED
        BY <1>7, <2>1, <3>1, <3>4, <4>1
    <3>5. i \in Int /\ Len(q) \in Int
      BY <2>1
    <3>6. i <= Len(q) \/ i = Len(q) + 1 \/ i > Len(q) + 1
      BY <3>5
    <3> QED
      BY <3>2, <3>3, <3>4, <3>6
  <2>6. l \in Seq(Name) /\ r \in Seq(Name) /\ Len(l) = Len(r) /\ Len(l) = Len(q) + 1 + Len(d)
    BY <2>1, <2>2, <2>3, <2>4
  <2>7. l = r
    BY <2>5, <2>6, SeqEqual
  <2> QED
    BY <2>4, <2>7
<1> QED
  BY <1>5, <1>8

LEMMA TableMoves ==
  ASSUME CatalogueInv, CatalogueInv', [Next]_vars
  PROVE  TableStep
<1>1. CASE \E t \in Session : MkdInsert(t)
  <2>1. PICK t \in Session : MkdInsert(t)
    BY <1>1
  <2> DEFINE new == [precode |-> code[t], code |-> nextCode, filename |-> Head(dirs[t]),
                     st_mode |-> "dir", owner |-> user[t]]
  <2>2. PICK row : row = new
    OBVIOUS
  <2>3. /\ row.code = nextCode /\ row.st_mode = "dir" /\ failing' = failing
        /\ file_tbl' = file_tbl \cup {row} /\ nextCode' = nextCode + 1
    BY <2>1, <2>2 DEF MkdInsert
  <2> HIDE DEF new
  <2>4. row \in Row
    BY <2>3 DEF CatalogueInv, TypeOK
  <2> QED
    BY <2>3, <2>4 DEF TableStep
<1>2. CASE \E t \in Session : Delete(t)
  BY <1>2 DEF Delete, TableStep
<1>3. CASE ~\E t \in Session : Delete(t) \/ MkdInsert(t)
  <2>1. UNCHANGED table
    BY <1>3 DEF Next, vars, table, Login, NewSession, Begin, Parent, Walk, Check, ChangeDir, Climb,
       ShowPwd, MkdKind, MkdExists, MkdRefused, RmdKind, RmdEmpty, Find, DeleMode, SizeMode,
       RemoveKind, DeleteFails, Step
  <2> QED
    BY <2>1 DEF table, TableStep
<1> QED
  BY <1>1, <1>2, <1>3

(* What is left of the table after a step, without the row it inserts.     *)
LEMMA OldPart ==
  ASSUME CatalogueInv, CatalogueInv', TableStep, NEW T \in SUBSET file_tbl'
  PROVE  \E U \in SUBSET file_tbl :
           /\ T \in SUBSET Row /\ Coded(T) /\ U \in SUBSET Row /\ Coded(U) /\ U \subseteq T
           /\ \A r \in T : r.code < nextCode => r \in U
           /\ nextCode \in Nat /\ nextCode' \in Nat /\ nextCode <= nextCode'
<1> DEFINE U == {r \in T : r.code < nextCode}
<1>1. nextCode \in Nat /\ nextCode' \in Nat /\ nextCode <= nextCode'
  BY CatalogueAssumption DEF CatalogueInv, TypeOK, TableStep
<1>2. T \in SUBSET Row /\ Coded(T)
  BY DEF CatalogueInv, TypeOK, RowsCoded, Coded
<1>3. U \subseteq T /\ U \in SUBSET Row /\ Coded(U)
  BY <1>2 DEF Coded
<1>4. U \in SUBSET file_tbl
  BY <1>1 DEF TableStep
<1> QED
  BY <1>1, <1>2, <1>3, <1>4

(* A table step leaves a path that is shown as it is, where it still is.   *)
LEMMA PathStays ==
  ASSUME CatalogueInv, CatalogueInv', TableStep, NEW c \in Code \cup {0}, c < nextCode,
         RootedIn(file_tbl')[c]
  PROVE  RootedIn(file_tbl)[c] /\ PathOn(file_tbl')[c] = PathOn(file_tbl)[c]
<1>1. PICK T, U : T = file_tbl' /\ U = file_tbl
  OBVIOUS
<1>2. /\ T \in SUBSET Row /\ Coded(T) /\ U \in SUBSET Row /\ Coded(U) /\ nextCode \in Nat
      /\ \A r \in T : r.code < nextCode => r \in U
  <2>1. file_tbl' \in SUBSET file_tbl'
    OBVIOUS
  <2>2. file_tbl \in SUBSET Row /\ Coded(file_tbl)
    BY DEF CatalogueInv, TypeOK, RowsCoded, Coded
  <2> QED
    BY <1>1, <2>1, <2>2, OldPart
<1>3. RootedIn(T)[c]
  BY <1>1
<1>4. PICK n \in Nat : n = nextCode
  BY <1>2
<1>5. RootedIn(U)[c] /\ PathOn(T)[c] = PathOn(U)[c]
  BY <1>2, <1>3, <1>4, SameOn
<1> QED
  BY <1>1, <1>5

(* And what has been collected on the way up.                              *)
LEMMA ClimbStays ==
  ASSUME CatalogueInv, CatalogueInv', TableStep, NEW s \in Session, Climbed(s),
         pwd_code[s] < nextCode, pwd_code'[s] = pwd_code[s], code'[s] = code[s],
         dirs'[s] = dirs[s]
  PROVE  Climbed(s)'
<1> SUFFICES ASSUME NEW T \in SUBSET file_tbl', RootedIn(T)[pwd_code[s]]
             PROVE  /\ RootedIn(T)[code[s]]
                    /\ PathOn(T)[pwd_code[s]] = PathOn(T)[code[s]] \o Reverse(dirs[s])
  BY DEF Climbed
<1>1. PICK U \in SUBSET file_tbl :
           /\ T \in SUBSET Row /\ Coded(T) /\ U \in SUBSET Row /\ Coded(U) /\ U \subseteq T
           /\ \A r \in T : r.code < nextCode => r \in U
           /\ nextCode \in Nat /\ nextCode' \in Nat /\ nextCode <= nextCode'
  BY OldPart
<1>2. /\ pwd_code[s] \in Code \cup {0} /\ code[s] \in Code \cup {0}
      /\ MaxCode + 1 \in Nat /\ code[s] < MaxCode + 1
  BY CatalogueAssumption DEF CatalogueInv, TypeOK, Code
<1>3. RootedIn(U)[pwd_code[s]] /\ PathOn(T)[pwd_code[s]] = PathOn(U)[pwd_code[s]]
  BY <1>1, <1>2, SameOn
<1>4. /\ RootedIn(U)[code[s]]
      /\ PathOn(U)[pwd_code[s]] = PathOn(U)[code[s]] \o Reverse(dirs[s])
  BY <1>3 DEF Climbed
<1>5. RootedIn(T)[code[s]] /\ PathOn(U)[code[s]] = PathOn(T)[code[s]]
  BY <1>1, <1>2, <1>4, SameOn
<1> QED
  BY <1>3, <1>4, <1>5

(* The inductive invariant of PwdTrue.                                     *)
ShownInv == \A s \in Session : Shown(s)

(* So a step is judged by the session that takes it, and if that session   *)
(* neither climbs nor shows a path, only by the code it goes to.           *)
LEMMA OthersShow ==
  ASSUME CatalogueInv, CatalogueInv', TableStep, NEW s \in Session, Shown(s),
         cmd'[s] = "CWD" /\ at'[s] \in {"walk", "change"} => code'[s] < nextCode,
         pwd_code'[s] = pwd_code[s], pwd'[s] = pwd[s],
         \/ at[s] # "pwd" /\ at'[s] # "pwd"
         \/ at[s] = "pwd" /\ at'[s] = "pwd" /\ code'[s] = code[s] /\ dirs'[s] = dirs[s]
  PROVE  Shown(s)'
<1>1. /\ pwd_code[s] \in Code \cup {0} /\ code'[s] \in Int /\ pwd_code[s] \in Int
      /\ nextCode \in Nat /\ nextCode' \in Nat /\ nextCode <= nextCode'
  BY CatalogueAssumption DEF CatalogueInv, TypeOK, TableStep, Code
<1>2. pwd_code[s] < nextCode /\ pwd_code'[s] < nextCode'
  BY <1>1 DEF Shown
<1>3. cmd'[s] = "CWD" /\ at'[s] \in {"walk", "change"} => code'[s] < nextCode'
  BY <1>1
<1>4. ASSUME ~failing, at[s] = "pwd" PROVE Climbed(s)'
  <2>1. Climbed(s) /\ code'[s] = code[s] /\ dirs'[s] = dirs[s]
    BY <1>4 DEF Shown
  <2> QED
    BY <1>2, <2>1, ClimbStays
<1>5. ASSUME ~failing, at[s] # "pwd", Rooted'[pwd_code'[s]]
      PROVE  pwd'[s] = PathOf'[pwd_code'[s]]
  <2>1. RootedIn(file_tbl')[pwd_code[s]]
    BY <1>5, PathNowOn
  <2>2. /\ RootedIn(file_tbl)[pwd_code[s]]
        /\ PathOn(file_tbl')[pwd_code[s]] = PathOn(file_tbl)[pwd_code[s]]
    BY <1>1, <1>2, <2>1, PathStays
  <2>3. pwd[s] = PathOf[pwd_code[s]]
    BY <1>5, <2>2, PathNowOn DEF Shown
  <2> QED
    BY <2>2, <2>3, PathNowOn
<1>6. failing' = failing /\ (at'[s] = "pwd" <=> at[s] = "pwd")
  BY DEF TableStep
<1> QED
  BY <1>2, <1>3, <1>4, <1>5, <1>6 DEF Shown

LEMMA OneShows ==
  ASSUME CatalogueInv, CatalogueInv', TableStep, ShownInv, NEW t \in Session, Shown(t)',
         \A s \in Session \ {t} :
           /\ cmd'[s] = cmd[s] /\ at'[s] = at[s] /\ code'[s] = code[s] /\ dirs'[s] = dirs[s]
           /\ pwd_code'[s] = pwd_code[s] /\ pwd'[s] = pwd[s]
  PROVE  ShownInv'
<1>1. ASSUME NEW s \in Session \ {t} PROVE Shown(s)'
  <2>1. Shown(s)
    BY DEF ShownInv
  <2>2. cmd'[s] = "CWD" /\ at'[s] \in {"walk", "change"} => code'[s] < nextCode
    BY <2>1 DEF Shown
  <2> QED
    BY <2>1, <2>2, OthersShow
<1> QED
  BY <1>1 DEF ShownInv

LEMMA GoShows ==
  ASSUME CatalogueInv, CatalogueInv', TableStep, ShownInv, NEW t \in Session,
         NEW what, NEW query, NEW c, NEW ds, Go(t, what, query, c, ds),
         UNCHANGED <<pwd_code, pwd>>, at[t] # "pwd", query # "pwd",
         what = "CWD" /\ query \in {"walk", "change"} => c < nextCode
  PROVE  ShownInv'
<1>1. /\ cmd'[t] = what /\ at'[t] = query /\ code'[t] = c
      /\ \A s \in Session \ {t} : /\ cmd'[s] = cmd[s] /\ at'[s] = at[s]
                                  /\ code'[s] = code[s] /\ dirs'[s] = dirs[s]
  BY DEF Go, CatalogueInv, TypeOK
<1>2. Shown(t)
  BY DEF ShownInv
<1>3. Shown(t)'
  BY <1>1, <1>2, OthersShow
<1> QED
  BY <1>1, <1>3, OneShows

LEMMA FinishShows ==
  ASSUME CatalogueInv, CatalogueInv', TableStep, ShownInv, NEW t \in Session,
         NEW answer, Finish(t, answer), UNCHANGED <<pwd_code, pwd>>, at[t] # "pwd"
  PROVE  ShownInv'
<1>1. /\ at'[t] = "idle"
      /\ \A s \in Session \ {t} : /\ cmd'[s] = cmd[s] /\ at'[s] = at[s]
                                  /\ code'[s] = code[s] /\ dirs'[s] = dirs[s]
  BY DEF Finish, CatalogueInv, TypeOK
<1>2. Shown(t)
  BY DEF ShownInv
<1>3. Shown(t)'
  BY <1>1, <1>2, OthersShow
<1> QED
  BY <1>1, <1>3, OneShows

LEMMA HandleShows ==
  ASSUME CatalogueInv, CatalogueInv', TableStep, ShownInv, NEW t \in Session,
         NEW what, NEW c, NEW ds, Handle(t, what, c, ds),
         UNCHANGED <<pwd_code, pwd>>, at[t] # "pwd"
  PROVE  ShownInv'
<1>1. CASE Go(t, what, "check", c, ds)
  BY <1>1, GoShows
<1>2. CASE \E answer : Finish(t, answer)
  BY <1>2, FinishShows
<1>3. CASE Go(t, what, OnPath(what, c, ds), c, ds) /\ (what = "CWD" => c = 0)
  <2>1. OnPath(what, c, ds) # "pwd" /\ 0 < nextCode
    BY CatalogueAssumption DEF OnPath, Goal, CatalogueInv, TypeOK
  <2> QED
    BY <1>3, <2>1, GoShows
<1> QED
  BY <1>1, <1>2, <1>3 DEF Handle

(* The climb starts at the new working directory with no names,            *)
LEMMA ChangeDirShows ==
  ASSUME CatalogueInv, CatalogueInv', TableStep, ShownInv, NEW t \in Session, ChangeDir(t)
  PROVE  ShownInv'
<1>1. /\ pwd_code'[t] = code[t] /\ code'[t] = code[t] /\ dirs'[t] = << >> /\ at'[t] = "pwd"
      /\ \A s \in Session \ {t} :
           /\ cmd'[s] = cmd[s] /\ at'[s] = at[s] /\ code'[s] = code[s] /\ dirs'[s] = dirs[s]
           /\ pwd_code'[s] = pwd_code[s] /\ pwd'[s] = pwd[s]
  BY DEF ChangeDir, Go, CatalogueInv, TypeOK
<1>2. file_tbl' = file_tbl /\ nextCode' = nextCode
  BY DEF ChangeDir, table
<1>3. code[t] < nextCode /\ code[t] \in 0 .. MaxCode
  <2>1. at[t] = "change" /\ cmd[t] = "CWD" /\ code[t] \in Code \cup {0}
    BY SessionParts DEF ChangeDir, Known, Fits
  <2> QED
    BY <2>1, CatalogueAssumption DEF ShownInv, Shown, Code
<1>4. Climbed(t)'
  <2> SUFFICES ASSUME NEW T \in SUBSET file_tbl', RootedIn(T)[code[t]]
               PROVE  PathOn(T)[code[t]] = PathOn(T)[code[t]] \o Reverse(<< >>)
    BY <1>1 DEF Climbed
  <2>1. PathUpTo(T, MaxCode, RootedIn(T), PathOn(T))
    BY <1>2, TableParts
  <2>2. PathOn(T)[code[t]] \in Seq(Name)
    BY <1>3, <2>1 DEF PathUpTo
  <2>3. Reverse(<< >>) = << >>
    BY DEF Reverse
  <2> QED
    BY <2>2, <2>3, ConcatEmptySeq
<1>5. Shown(t)'
  BY <1>1, <1>2, <1>3, <1>4 DEF Shown
<1> QED
  BY <1>1, <1>5, OneShows

(* a name is added for each row on the way,                                *)
LEMMA ClimbShows ==
  ASSUME CatalogueInv, CatalogueInv', TableStep, ShownInv, NEW t \in Session, Climb(t)
  PROVE  ShownInv'
<1>1. PICK r \in db_get_file(code[t]) :
        Go(t, "CWD", "pwd", r.precode, Append(dirs[t], r.filename))
  BY DEF Climb
<1>2. /\ code'[t] = r.precode /\ dirs'[t] = Append(dirs[t], r.filename) /\ at'[t] = "pwd"
      /\ \A s \in Session \ {t} :
           /\ cmd'[s] = cmd[s] /\ at'[s] = at[s] /\ code'[s] = code[s] /\ dirs'[s] = dirs[s]
  BY <1>1 DEF Go, CatalogueInv, TypeOK
<1>3. /\ UNCHANGED <<table, pwd_code, pwd>> /\ code[t] # 0 /\ at[t] = "pwd"
      /\ file_tbl' = file_tbl /\ nextCode' = nextCode /\ failing' = failing
  BY DEF Climb, Step, place, table
<1>4. /\ code[t] \in 0 .. MaxCode /\ dirs[t] \in Seq(Name) /\ MaxCode \in 0 .. MaxCode
      /\ r \in file_tbl /\ r.code = code[t] /\ r.precode \in 0 .. MaxCode /\ r.filename \in Name
  BY <1>1, SessionParts, CatalogueAssumption DEF db_get_file, CatalogueInv, TypeOK, Row, Code
<1>5. Shown(t)
  BY DEF ShownInv
<1>6. ASSUME Climbed(t) PROVE Climbed(t)'
  <2> SUFFICES ASSUME NEW T \in SUBSET file_tbl, RootedIn(T)[pwd_code[t]]
               PROVE  /\ RootedIn(T)[r.precode]
                      /\ PathOn(T)[pwd_code[t]]
                           = PathOn(T)[r.precode] \o Reverse(Append(dirs[t], r.filename))
    BY <1>2, <1>3 DEF Climbed
  <2>1. /\ RootedIn(T)[code[t]]
        /\ PathOn(T)[pwd_code[t]] = PathOn(T)[code[t]] \o Reverse(dirs[t])
    BY <1>6 DEF Climbed
  <2>2. /\ T \in SUBSET Row /\ Coded(T)
        /\ RootedUpTo(T, MaxCode, RootedIn(T))
        /\ PathUpTo(T, MaxCode, RootedIn(T), PathOn(T))
    BY TableParts
  <2>3. PICK R, P : R = RootedIn(T) /\ P = PathOn(T)
    OBVIOUS
  <2>4. PICK q : q = RowIn(T, code[t])
    OBVIOUS
  <2>5. q \in T /\ q.code = code[t] /\ R[q.precode]
    BY <1>3, <1>4, <2>1, <2>2, <2>3, <2>4, RowInFacts
  <2>6. q = r
    BY <1>4, <2>5 DEF CatalogueInv, RowsCoded
  <2>7. P[code[t]] = Append(P[r.precode], r.filename) /\ P[r.precode] \in Seq(Name)
    BY <1>3, <1>4, <2>1, <2>2, <2>3, <2>4, <2>6 DEF PathUpTo
  <2>8. Append(P[r.precode], r.filename) \o Reverse(dirs[t])
          = P[r.precode] \o Reverse(Append(dirs[t], r.filename))
    BY <1>4, <2>7, ReverseFacts
  <2> QED
    BY <2>1, <2>3, <2>5, <2>6, <2>7, <2>8
<1>7. Shown(t)'
  BY <1>2, <1>3, <1>5, <1>6 DEF Shown
<1> QED
  BY <1>2, <1>3, <1>7, OneShows

(* and at the root the path is shown.  If the climb ended early, the       *)
(* directory it ended at is gone.                                          *)
LEMMA ShowPwdShows ==
  ASSUME CatalogueInv, CatalogueInv', TableStep, ShownInv, NEW t \in Session, ShowPwd(t)
  PROVE  ShownInv'
<1>1. /\ at'[t] = "idle" /\ pwd_code' = pwd_code /\ at[t] = "pwd"
      /\ failing' = failing /\ file_tbl' = file_tbl /\ nextCode' = nextCode
      /\ \A s \in Session \ {t} :
           /\ cmd'[s] = cmd[s] /\ at'[s] = at[s] /\ code'[s] = code[s] /\ dirs'[s] = dirs[s]
           /\ pwd'[s] = pwd[s]
  BY DEF ShowPwd, Finish, CatalogueInv, TypeOK, table
<1>2. Shown(t)
  BY DEF ShownInv
<1>3. /\ code[t] \in 0 .. MaxCode /\ dirs[t] \in Seq(Name) /\ 0 \in 0 .. MaxCode
      /\ pwd_code[t] \in 0 .. MaxCode
  BY SessionParts, CatalogueAssumption DEF CatalogueInv, TypeOK, Code
<1>4. PICK T : T = file_tbl
  OBVIOUS
<1>5. PICK R, P : R = RootedIn(T) /\ P = PathOn(T)
  OBVIOUS
<1>6. RootedUpTo(T, MaxCode, R) /\ PathUpTo(T, MaxCode, R, P)
  BY <1>4, <1>5, TableParts
<1>7. ASSUME ~failing, R[pwd_code[t]] PROVE pwd'[t] = P[pwd_code[t]]
  <2>1. R[code[t]] /\ P[pwd_code[t]] = P[code[t]] \o Reverse(dirs[t])
    BY <1>1, <1>2, <1>4, <1>5, <1>7 DEF Shown, Climbed
  <2>2. CASE code[t] = 0
    <3>1. pwd'[t] = Reverse(dirs[t])
      BY <2>2 DEF ShowPwd, CatalogueInv, TypeOK
    <3>2. P[0] = << >>
      BY <1>3, <1>6 DEF PathUpTo
    <3>3. Reverse(dirs[t]) \in Seq(Name)
      BY <1>3, ReverseTyped
    <3>4. << >> \o Reverse(dirs[t]) = Reverse(dirs[t])
      BY <3>3, ConcatEmptySeq
    <3> QED
      BY <2>1, <2>2, <3>1, <3>2, <3>4
  <2>3. CASE code[t] # 0
    <3>1. Missing(code[t])
      BY <2>3 DEF ShowPwd
    <3>2. \E r \in T : r.code = code[t]
      BY <1>3, <1>6, <2>1, <2>3 DEF RootedUpTo
    <3> QED
      BY <1>4, <1>7, <3>1, <3>2 DEF Missing, db_get_file
  <2> QED
    BY <2>2, <2>3
<1>8. Shown(t)'
  <2>1. ASSUME ~failing, Rooted'[pwd_code[t]] PROVE pwd'[t] = PathOf'[pwd_code[t]]
    BY <1>1, <1>4, <1>5, <1>7, <2>1, PathNowOn
  <2> QED
    BY <1>1, <1>2, <2>1 DEF Shown
<1> QED
  BY <1>1, <1>8, OneShows

LEMMA NewSessionShows ==
  ASSUME CatalogueInv, CatalogueInv', TableStep, ShownInv, NEW t \in Session,
         NEW u \in User, NewSession(t, u)
  PROVE  ShownInv'
<1>1. /\ at[t] = "idle" /\ pwd_code'[t] = 0 /\ pwd'[t] = << >> /\ nextCode' = nextCode
      /\ UNCHANGED <<failing, file_tbl, cmd, at, code, dirs>>
      /\ \A s \in Session \ {t} : pwd_code'[s] = pwd_code[s] /\ pwd'[s] = pwd[s]
  BY DEF NewSession, CatalogueInv, TypeOK, table
<1>2. 0 < nextCode /\ 0 \in 0 .. MaxCode
  BY CatalogueAssumption DEF CatalogueInv, TypeOK
<1>3. PathOf'[0] = << >>
  <2>1. PICK T : T = file_tbl
    OBVIOUS
  <2>2. PathUpTo(T, MaxCode, RootedIn(T), PathOn(T))
    BY <2>1, TableParts
  <2>3. PathOn(T)[0] = << >>
    BY <1>2, <2>2 DEF PathUpTo
  <2> QED
    BY <1>1, <2>1, <2>3, PathNowOn
<1>4. Shown(t)'
  BY <1>1, <1>2, <1>3 DEF Shown
<1> QED
  BY <1>1, <1>4, OneShows

LEMMA ShownNext == CatalogueInv /\ CatalogueInv' /\ ShownInv /\ [Next]_vars => ShownInv'
<1> SUFFICES ASSUME CatalogueInv, CatalogueInv', ShownInv, [Next]_vars
             PROVE  ShownInv'
  OBVIOUS
<1>1. TableStep
  BY TableMoves
<1>2. /\ nextCode \in Nat /\ 0 < nextCode
      /\ \A s \in Session : Shown(s) /\ pwd_code[s] < nextCode
  BY CatalogueAssumption DEF CatalogueInv, TypeOK, ShownInv, Shown
<1>3. ASSUME NEW t \in Session, NEW u \in User, Login(t, u)
      PROVE  ShownInv'
  <2>1. UNCHANGED <<table, pwd_code, pwd, cmd, at, code, dirs>>
    BY <1>3 DEF Login
  <2>2. Rooted' = Rooted /\ PathOf' = PathOf
    BY <2>1, PathNowOn DEF table
  <2> QED
    BY <2>1, <2>2 DEF table, ShownInv, Shown, Climbed
<1>4. ASSUME NEW t \in Session, NEW what \in Command, NEW path \in Path, Begin(t, what, path)
      PROVE  ShownInv'
  <2>1. UNCHANGED <<pwd_code, pwd>> /\ at[t] # "pwd"
    BY <1>4 DEF Begin
  <2>2. CASE Go(t, what, "parent", 0, path.dirs)
    BY <1>1, <2>1, <2>2, GoShows
  <2>3. CASE Handle(t, what, IF path.from = "root" THEN 0 ELSE pwd_code[t], path.dirs)
    BY <1>1, <2>1, <2>3, HandleShows
  <2> QED
    BY <1>4, <2>2, <2>3 DEF Begin
<1>5. ASSUME NEW t \in Session, Parent(t)
      PROVE  ShownInv'
  <2>1. UNCHANGED <<pwd_code, pwd>> /\ at[t] # "pwd"
    BY <1>5 DEF Parent
  <2>2. (\E c : Handle(t, cmd[t], c, dirs[t])) \/ Finish(t, 550)
    BY <1>5 DEF Parent
  <2> QED
    BY <1>1, <2>1, <2>2, HandleShows, FinishShows
<1>6. ASSUME NEW t \in Session, Walk(t)
      PROVE  ShownInv'
  <2>1. UNCHANGED <<pwd_code, pwd>> /\ at[t] # "pwd"
    BY <1>6 DEF Walk, Step, place
  <2>2. PICK c \in db_find_dir(code[t], Head(dirs[t])) :
          IF c = -1 THEN Finish(t, 550)
          ELSE Go(t, cmd[t], OnPath(cmd[t], c, Tail(dirs[t])), c, Tail(dirs[t]))
    BY <1>6 DEF Walk
  <2>3. CASE c = -1
    BY <1>1, <2>1, <2>2, <2>3, FinishShows
  <2>4. CASE c # -1
    <3>1. c < nextCode
      BY <2>4, CodesFacts DEF db_find_dir
    <3>2. OnPath(cmd[t], c, Tail(dirs[t])) # "pwd"
      BY DEF OnPath, Goal
    <3> QED
      BY <1>1, <2>1, <2>2, <2>4, <3>1, <3>2, GoShows
  <2> QED
    BY <2>3, <2>4
<1>7. ASSUME NEW t \in Session, Check(t)
      PROVE  ShownInv'
  <2>1. UNCHANGED <<pwd_code, pwd>> /\ at[t] # "pwd"
    BY <1>7 DEF Check, Step, place
  <2>2. CASE Finish(t, 550)
    BY <1>1, <2>1, <2>2, FinishShows
  <2>3. CASE Is(code[t], "dir") /\ Then(t, OnPath("CWD", code[t], dirs[t]))
    <3>1. code[t] < nextCode
      BY <2>3 DEF Is, db_get_file, CatalogueInv, RowsCoded
    <3>2. OnPath("CWD", code[t], dirs[t]) # "pwd"
      BY DEF OnPath, Goal
    <3> QED
      BY <1>1, <2>1, <2>3, <3>1, <3>2, GoShows DEF Then
  <2> QED
    BY <1>7, <2>2, <2>3 DEF Check
<1>8. ASSUME NEW t \in Session,
             \/ MkdKind(t) \/ MkdExists(t) \/ MkdInsert(t) \/ MkdRefused(t)
             \/ RmdKind(t) \/ RmdEmpty(t) \/ Find(t) \/ DeleMode(t) \/ SizeMode(t)
             \/ RemoveKind(t) \/ Delete(t) \/ DeleteFails(t)
      PROVE  ShownInv'
  <2>1. UNCHANGED <<pwd_code, pwd>> /\ at[t] # "pwd"
    BY <1>8 DEF MkdKind, MkdExists, MkdInsert, MkdRefused, RmdKind, RmdEmpty, Find, DeleMode,
       SizeMode, RemoveKind, Delete, DeleteFails, Step, place
  <2>2. CASE \E answer : Finish(t, answer)
    BY <1>1, <2>1, <2>2, FinishShows
  <2>3. CASE \E c, query : /\ query \notin {"walk", "change", "pwd"}
                           /\ Go(t, cmd[t], query, c, dirs[t])
    BY <1>1, <2>1, <2>3, GoShows
  <2>4. CASE MkdKind(t) \/ MkdExists(t) \/ RmdKind(t) \/ RmdEmpty(t)
    BY <2>2, <2>3, <2>4 DEF MkdKind, MkdExists, RmdKind, RmdEmpty, Then
  <2>5. CASE Find(t)
    BY <2>2, <2>3, <2>5 DEF Find
  <2>6. CASE DeleMode(t) \/ SizeMode(t) \/ RemoveKind(t)
    BY <2>2, <2>3, <2>6 DEF DeleMode, SizeMode, RemoveKind, Then
  <2>7. CASE MkdInsert(t) \/ MkdRefused(t) \/ Delete(t) \/ DeleteFails(t)
    BY <2>2, <2>7 DEF MkdInsert, MkdRefused, Delete, DeleteFails
  <2> QED
    BY <1>8, <2>4, <2>5, <2>6, <2>7
<1>9. CASE UNCHANGED vars
  <2>1. UNCHANGED <<table, pwd_code, pwd, cmd, at, code, dirs>>
    BY <1>9 DEF vars, place
  <2>2. Rooted' = Rooted /\ PathOf' = PathOf
    BY <2>1, PathNowOn DEF table
  <2> QED
    BY <2>1, <2>2 DEF table, ShownInv, Shown, Climbed
<1> QED
  BY <1>1, <1>3, <1>4, <1>5, <1>6, <1>7, <1>8, <1>9, ChangeDirShows, ClimbShows, ShowPwdShows,
     NewSessionShows DEF Next

(* The path a session shows is that of its working directory as long as    *)
(* the directories on it are there, whatever other sessions created and    *)
(* removed between the queries that collected it, when no query fails.     *)
THEOREM PathsShownAreTrue == Spec => []PwdTrue
<1>1. Init => ShownInv
  <2> SUFFICES ASSUME Init, NEW s \in Session PROVE Shown(s)
    BY DEF ShownInv
  <2>1. CatalogueInv
    BY CatalogueInit
  <2>2. 0 < nextCode /\ 0 \in 0 .. MaxCode
    BY <2>1, CatalogueAssumption DEF CatalogueInv, TypeOK
  <2>3. PathOf[0] = << >>
    <3>1. PICK T : T = file_tbl
      OBVIOUS
    <3>2. PathUpTo(T, MaxCode, RootedIn(T), PathOn(T))
      BY <2>1, <3>1, TableParts
    <3>3. PathOn(T)[0] = << >>
      BY <2>2, <3>2 DEF PathUpTo
    <3> QED
      BY <3>1, <3>3, PathNowOn
  <2> QED
    BY <2>2, <2>3 DEF Init, Shown
<1>2. CatalogueInv /\ CatalogueInv' /\ ShownInv /\ [Next]_vars => ShownInv'
  BY ShownNext
<1>3. ShownInv => PwdTrue
  BY DEF ShownInv, Shown, PwdTrue
<1> QED
  BY <1>1, <1>2, <1>3, CatalogueInvariant, PTL DEF Spec

=============================================================================

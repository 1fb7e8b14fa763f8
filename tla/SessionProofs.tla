----------------------------- MODULE SessionProofs -----------------------------
(***************************************************************************)
(* Proofs about the sessions and the descriptor table they share: sessions *)
(* use only descriptors of their own, no connection is left open behind    *)
(* one, and their use of the data port is that of DataPort.                *)
(***************************************************************************)
EXTENDS Session, TLAPS

(* An idle worker has no sockets, a transfer has its data connection, and  *)
(* a session that is in the middle of PASV has no data connection yet.     *)
SocketsWhenDue ==
  \A s \in Session :
    /\ pc[s] = "idle" => control_fd[s] = -1 /\ listen_sockfd[s] = -1 /\ data_sockfd[s] = -1
    /\ pc[s] \in {"list", "retr", "stor", "file"} => data_sockfd[s] # -1
    /\ pc[s] \in {"listen", "accept"} => data_sockfd[s] = -1

(* A bound socket is the one its session is about to listen on.            *)
BoundIsMine ==
  \A fd \in Fd : fds[fd].kind = "bound" => listen_sockfd[fds[fd].of] = fd

(* No two sockets listen on the data port.                                 *)
OneListener ==
  \A fd, g \in Fd : fds[fd].kind = "listening" /\ fds[g].kind = "listening" => fd = g

(* The inductive invariant.                                                *)
SessionInv ==
  /\ TypeOK
  /\ OwnDescriptors
  /\ NoConnectionLeaks
  /\ SocketsWhenDue
  /\ BoundIsMine
  /\ OneListener

-----------------------------------------------------------------------------
(* Facts about the descriptor table.                                       *)

(* An entry is free or has an owner.                                       *)
LEMMA EntryFacts ==
  ASSUME NEW e \in Entry
  PROVE  /\ e.kind = "free" <=> e = Free
         /\ e.kind # "free" => e.kind \in Kind /\ e.of \in Session
         /\ e = [kind |-> e.kind, of |-> e.of]
BY DEF Entry, Kind, Free

(* Opening a socket or file changes its own entry only.                    *)
LEMMA OpenedFacts ==
  ASSUME fds \in [Fd -> Entry], NEW fd \in Fd, NEW kind \in Kind, NEW s \in Session
  PROVE  /\ Opened(fd, kind, s) \in [Fd -> Entry]
         /\ Opened(fd, kind, s)[fd] = [kind |-> kind, of |-> s]
         /\ Opened(fd, kind, s)[fd].kind = kind /\ Opened(fd, kind, s)[fd].of = s
         /\ \A g \in Fd : g # fd => Opened(fd, kind, s)[g] = fds[g]
BY DEF Opened, Entry

(* Closing frees the entries that are closed, and no other.                *)
LEMMA ClosedFacts ==
  ASSUME fds \in [Fd -> Entry], NEW F
  PROVE  /\ Closed(F) \in [Fd -> Entry]
         /\ \A g \in Fd : IF g \in F THEN Closed(F)[g] = Free /\ Closed(F)[g].kind = "free"
                          ELSE Closed(F)[g] = fds[g]
BY DEF Closed, Entry, Free

(* Ownership in terms of the fields of the entry.                          *)
LEMMA OwnsFacts ==
  ASSUME TypeOK, NEW s \in Session, NEW fd, NEW kind \in Kind
  PROVE  Owns(s, fd, kind) <=> fd \in Fd /\ fds[fd].kind = kind /\ fds[fd].of = s
<1>1. fd \in Fd => fds[fd] = [kind |-> fds[fd].kind, of |-> fds[fd].of]
  BY EntryFacts DEF TypeOK
<1> QED
  BY <1>1 DEF Owns

(* -1 is no descriptor.                                                    *)
LEMMA FdFacts == \A fd \in Fd : fd \in Int /\ fd # -1
BY SessionAssumption DEF Fd

(* Nothing is open at the start.                                           *)
LEMMA SessionInit == Init => SessionInv
BY SessionAssumption
   DEF Init, SessionInv, TypeOK, OwnDescriptors, NoConnectionLeaks, SocketsWhenDue,
       BoundIsMine, OneListener, Label, Entry, Free

-----------------------------------------------------------------------------
(* The invariant session by session and entry by entry.                    *)
SessionGood(s) ==
  /\ pc[s] # "idle" => Owns(s, control_fd[s], "control")
  /\ data_sockfd[s] # -1 => /\ Owns(s, data_sockfd[s], "data")
                            /\ Owns(s, listen_sockfd[s], "listening")
  /\ pc[s] = "listen" => Owns(s, listen_sockfd[s], "bound")
  /\ pc[s] = "accept" => Owns(s, listen_sockfd[s], "listening")
  /\ pc[s] = "idle" => control_fd[s] = -1 /\ listen_sockfd[s] = -1 /\ data_sockfd[s] = -1
  /\ pc[s] \in {"list", "retr", "stor", "file"} => data_sockfd[s] # -1
  /\ pc[s] \in {"listen", "accept"} => data_sockfd[s] = -1

EntryGood(fd) ==
  /\ fds[fd].kind = "control" => control_fd[fds[fd].of] = fd
  /\ fds[fd].kind = "data" => data_sockfd[fds[fd].of] = fd
  /\ fds[fd].kind = "bound" => pc[fds[fd].of] = "listen" /\ listen_sockfd[fds[fd].of] = fd

LEMMA SessionInvParts ==
  /\ SessionInv <=> /\ TypeOK /\ OneListener
                    /\ \A s \in Session : SessionGood(s)
                    /\ \A fd \in Fd : EntryGood(fd)
BY DEF SessionInv, OwnDescriptors, NoConnectionLeaks, SocketsWhenDue, BoundIsMine,
       SessionGood, EntryGood

(* A step that leaves the variables of a session and its sockets alone     *)
(* keeps what the invariant says of it ...                                 *)
LEMMA SessionFrame ==
  ASSUME SessionInv, NEW s \in Session,
         UNCHANGED <<pc[s], control_fd[s], listen_sockfd[s], data_sockfd[s]>>,
         \A fd \in Fd : fds[fd].of = s => fds'[fd] = fds[fd]
  PROVE  SessionGood(s)'
<1>1. SessionGood(s) /\ TypeOK
  BY SessionInvParts
<1>2. \A fd, kind : Owns(s, fd, kind) => Owns(s, fd, kind)'
  BY DEF Owns
<1> QED
  BY <1>1, <1>2 DEF SessionGood

(* ... and so does one that leaves an entry and its owner alone.           *)
LEMMA EntryFrame ==
  ASSUME SessionInv, NEW fd \in Fd, fds'[fd] = fds[fd],
         LET s == fds[fd].of
         IN  UNCHANGED <<pc[s], control_fd[s], listen_sockfd[s], data_sockfd[s]>>
  PROVE  EntryGood(fd)'
<1>1. EntryGood(fd)
  BY SessionInvParts
<1> QED
  BY <1>1 DEF EntryGood

(* So a step of one session is judged by its own variables and entries.    *)
LEMMA OneSession ==
  ASSUME SessionInv, NEW s \in Session,
         TypeOK', OneListener', SessionGood(s)',
         \A t \in Session \ {s} :
           UNCHANGED <<pc[t], control_fd[t], listen_sockfd[t], data_sockfd[t]>>,
         \A fd \in Fd :
           /\ fds'[fd] = fds[fd] \/ fds[fd] = Free \/ fds[fd].of = s
           /\ fds'[fd] # fds[fd] \/ fds[fd].of = s => EntryGood(fd)'
  PROVE  SessionInv'
<1>1. ASSUME NEW t \in Session PROVE SessionGood(t)'
  <2>1. \A fd \in Fd : t # s /\ fds[fd].of = t => fds'[fd] = fds[fd]
    BY SessionAssumption DEF Free
  <2> QED
    BY <2>1, SessionFrame
<1>2. ASSUME NEW fd \in Fd PROVE EntryGood(fd)'
  <2>1. CASE fds[fd] = Free /\ fds'[fd] = Free
    BY <2>1 DEF EntryGood, Free
  <2>2. CASE fds[fd] # Free /\ fds[fd].of # s
    <3>1. fds[fd].of \in Session \ {s}
      BY <2>2, SessionInvParts, EntryFacts DEF TypeOK
    <3> QED
      BY <2>2, <3>1, EntryFrame
  <2> QED
    BY <2>1, <2>2
<1> QED
  BY <1>1, <1>2, SessionInvParts DEF SessionInv, OwnDescriptors, NoConnectionLeaks,
     SocketsWhenDue, BoundIsMine, SessionGood, EntryGood

-----------------------------------------------------------------------------
(* The steps one by one.                                                   *)
LEMMA ArriveKeeps ==
  ASSUME SessionInv, NEW s \in Session, Arrive(s)
  PROVE  SessionInv'
<1> USE DEF SessionInv, TypeOK
<1>1. PICK fd \in Fd : /\ fds[fd] = Free
                       /\ control_fd' = [control_fd EXCEPT ![s] = fd]
                       /\ fds' = Opened(fd, "control", s)
  BY DEF Arrive, IsNext
<1>2. /\ pc[s] = "idle" /\ pc' = [pc EXCEPT ![s] = "command"]
      /\ UNCHANGED <<logged, gone, listen_sockfd, data_sockfd, halted>>
  BY DEF Arrive, Goto
<1>3. /\ fds' \in [Fd -> Entry]
      /\ fds'[fd] = [kind |-> "control", of |-> s]
      /\ fds'[fd].kind = "control" /\ fds'[fd].of = s
      /\ \A g \in Fd : g # fd => fds'[g] = fds[g]
  BY <1>1, OpenedFacts DEF Kind
<1>4. TypeOK'
  BY <1>1, <1>2, <1>3 DEF Label
<1>5. SessionGood(s)'
  BY <1>1, <1>2, <1>3 DEF SessionGood, Owns, SocketsWhenDue
<1>6. OneListener'
  BY <1>1, <1>2, <1>3 DEF OneListener, Free
<1>7. ASSUME NEW g \in Fd, g = fd \/ fds[g].of = s
      PROVE  EntryGood(g)'
  BY <1>1, <1>2, <1>3, <1>7, SessionInvParts, FdFacts DEF EntryGood, SocketsWhenDue
<1> QED
  BY <1>1, <1>2, <1>3, <1>4, <1>5, <1>6, <1>7, OneSession

(* The ways out of ftp_server close both connections of the session.       *)
LEMMA EndSessionKeeps ==
  ASSUME SessionInv, NEW s \in Session,
         EndSession(s, "command") \/ EndSession(s, "password")
  PROVE  SessionInv'
<1> USE DEF SessionInv, TypeOK
<1>1. /\ pc[s] \in {"command", "password"} /\ pc' = [pc EXCEPT ![s] = "idle"]
      /\ fds' = Closed({control_fd[s], data_sockfd[s]})
      /\ control_fd' = [control_fd EXCEPT ![s] = -1]
      /\ listen_sockfd' = [listen_sockfd EXCEPT ![s] = -1]
      /\ data_sockfd' = [data_sockfd EXCEPT ![s] = -1]
      /\ logged' = [logged EXCEPT ![s] = LOGGED_OUT]
      /\ gone' = [gone EXCEPT ![s] = FALSE]
      /\ UNCHANGED halted
  BY DEF EndSession, Goto
<1>2. /\ fds' \in [Fd -> Entry]
      /\ \A g \in Fd : IF g \in {control_fd[s], data_sockfd[s]}
                       THEN fds'[g] = Free /\ fds'[g].kind = "free"
                       ELSE fds'[g] = fds[g]
  BY <1>1, ClosedFacts
<1>3. TypeOK'
  BY <1>1, <1>2 DEF Label
<1>4. SessionGood(s)'
  BY <1>1 DEF SessionGood, Owns
<1>5. OneListener'
  BY <1>2, Zenon DEF OneListener
<1>6. ASSUME NEW g \in Fd, g \in {control_fd[s], data_sockfd[s]}
      PROVE  fds[g].of = s /\ EntryGood(g)'
  <2>1. SessionGood(s)
    BY SessionInvParts
  <2>2. fds[g].of = s
    BY <1>1, <1>6, <2>1, FdFacts DEF SessionGood, Owns
  <2>3. fds'[g].kind = "free"
    BY <1>2, <1>6
  <2> QED
    BY <2>2, <2>3 DEF EntryGood
<1>7. ASSUME NEW g \in Fd, g \notin {control_fd[s], data_sockfd[s]}, fds[g].of = s
      PROVE  EntryGood(g)'
  <2>1. EntryGood(g)
    BY SessionInvParts
  <2>2. fds'[g] = fds[g]
    BY <1>2, <1>7
  <2> QED
    BY <1>1, <1>7, <2>1, <2>2 DEF EntryGood
<1> QED
  BY <1>1, <1>2, <1>3, <1>4, <1>5, <1>6, <1>7, OneSession

(* PASV opens its listening socket only where none listens, so it has no   *)
(* data connection either.                                                 *)
LEMMA PasvBindKeeps ==
  ASSUME SessionInv, NEW s \in Session, PasvBind(s)
  PROVE  SessionInv'
<1> USE DEF SessionInv, TypeOK
<1>1. PICK fd \in Fd : /\ fds[fd] = Free
                       /\ listen_sockfd' = [listen_sockfd EXCEPT ![s] = fd]
                       /\ fds' = Opened(fd, "bound", s)
  BY DEF PasvBind, IsNext
<1>2. /\ pc[s] = "bind" /\ pc' = [pc EXCEPT ![s] = "listen"] /\ ~PortTaken
      /\ UNCHANGED <<logged, gone, control_fd, data_sockfd, halted>>
  BY DEF PasvBind, Goto
<1>3. /\ fds' \in [Fd -> Entry]
      /\ fds'[fd] = [kind |-> "bound", of |-> s]
      /\ fds'[fd].kind = "bound" /\ fds'[fd].of = s
      /\ \A g \in Fd : g # fd => fds'[g] = fds[g]
  BY <1>1, OpenedFacts DEF Kind
<1>4. data_sockfd[s] = -1
  <2>1. SessionGood(s)
    BY SessionInvParts
  <2> QED
    BY <1>2, <2>1, OwnsFacts DEF SessionGood, PortTaken, Kind
<1>5. TypeOK'
  BY <1>1, <1>2, <1>3 DEF Label
<1>6. SessionGood(s)'
  <2>1. SessionGood(s)
    BY SessionInvParts
  <2> QED
    BY <1>1, <1>2, <1>3, <1>4, <2>1 DEF SessionGood, Owns, Free
<1>7. OneListener'
  BY <1>1, <1>2, <1>3 DEF OneListener, Free
<1>8. ASSUME NEW g \in Fd, g = fd \/ fds[g].of = s
      PROVE  EntryGood(g)'
  <2>1. EntryGood(g)
    BY SessionInvParts
  <2> QED
    BY <1>1, <1>2, <1>3, <1>8, <2>1 DEF EntryGood
<1> QED
  BY <1>1, <1>2, <1>3, <1>5, <1>6, <1>7, <1>8, OneSession

LEMMA PasvListenKeeps ==
  ASSUME SessionInv, NEW s \in Session, PasvListen(s)
  PROVE  SessionInv'
<1> USE DEF SessionInv, TypeOK
<1> DEFINE fd == listen_sockfd[s]
<1>1. /\ pc[s] = "listen" /\ pc' = [pc EXCEPT ![s] = "accept"] /\ ~PortTaken
      /\ fds' = Opened(fd, "listening", s)
      /\ UNCHANGED <<logged, gone, control_fd, listen_sockfd, data_sockfd, halted>>
  BY DEF PasvListen, Goto
<1>2. SessionGood(s)
  BY SessionInvParts
<1>3. fd \in Fd /\ fds[fd].kind = "bound" /\ fds[fd].of = s
  BY <1>1, <1>2 DEF SessionGood, Owns
<1> HIDE DEF fd
<1>4. /\ fds' \in [Fd -> Entry]
      /\ fds'[fd] = [kind |-> "listening", of |-> s]
      /\ fds'[fd].kind = "listening" /\ fds'[fd].of = s
      /\ \A g \in Fd : g # fd => fds'[g] = fds[g]
  BY <1>1, <1>3, OpenedFacts DEF Kind
<1>5. TypeOK'
  BY <1>1, <1>4 DEF Label
<1>6. SessionGood(s)'
  BY <1>1, <1>2, <1>3, <1>4 DEF SessionGood, Owns, fd
<1>7. OneListener'
  BY <1>1, <1>4 DEF OneListener, PortTaken
<1>8. ASSUME NEW g \in Fd, g = fd \/ fds[g].of = s
      PROVE  EntryGood(g)'
  <2>1. EntryGood(g)
    BY SessionInvParts
  <2> QED
    BY <1>1, <1>3, <1>4, <1>8, <2>1 DEF EntryGood, fd
<1> QED
  BY <1>1, <1>3, <1>4, <1>5, <1>6, <1>7, <1>8, OneSession

LEMMA PasvAcceptKeeps ==
  ASSUME SessionInv, NEW s \in Session, PasvAccept(s)
  PROVE  SessionInv'
<1> USE DEF SessionInv, TypeOK
<1>1. PICK fd \in Fd : /\ fds[fd] = Free
                       /\ data_sockfd' = [data_sockfd EXCEPT ![s] = fd]
                       /\ fds' = Opened(fd, "data", s)
  BY DEF PasvAccept, IsNext
<1>2. /\ pc[s] = "accept" /\ pc' = [pc EXCEPT ![s] = "command"]
      /\ UNCHANGED <<logged, gone, control_fd, listen_sockfd, halted>>
  BY DEF PasvAccept, Goto
<1>3. /\ fds' \in [Fd -> Entry]
      /\ fds'[fd] = [kind |-> "data", of |-> s]
      /\ fds'[fd].kind = "data" /\ fds'[fd].of = s
      /\ \A g \in Fd : g # fd => fds'[g] = fds[g]
  BY <1>1, OpenedFacts DEF Kind
<1>4. SessionGood(s)
  BY SessionInvParts
<1>5. TypeOK'
  BY <1>1, <1>2, <1>3 DEF Label
<1>6. SessionGood(s)'
  BY <1>1, <1>2, <1>3, <1>4 DEF SessionGood, Owns, Free
<1>7. OneListener'
  BY <1>1, <1>2, <1>3 DEF OneListener, Free
<1>8. ASSUME NEW g \in Fd, g = fd \/ fds[g].of = s
      PROVE  EntryGood(g)'
  <2>1. EntryGood(g) /\ data_sockfd[s] = -1
    BY <1>2, <1>4, SessionInvParts DEF SessionGood
  <2> QED
    BY <1>1, <1>2, <1>3, <1>8, <2>1, FdFacts DEF EntryGood
<1> QED
  BY <1>1, <1>2, <1>3, <1>5, <1>6, <1>7, <1>8, OneSession

LEMMA OpenFileKeeps ==
  ASSUME SessionInv, NEW s \in Session, OpenFile(s)
  PROVE  SessionInv'
<1> USE DEF SessionInv, TypeOK
<1>1. PICK fd \in Fd : fds[fd] = Free /\ fds' = Opened(fd, "file", s)
  BY DEF OpenFile, IsNext
<1>2. /\ pc[s] \in {"retr", "stor"} /\ pc' = [pc EXCEPT ![s] = "file"]
      /\ UNCHANGED <<logged, gone, control_fd, listen_sockfd, data_sockfd, halted>>
  BY DEF OpenFile, Goto
<1>3. /\ fds' \in [Fd -> Entry]
      /\ fds'[fd] = [kind |-> "file", of |-> s]
      /\ fds'[fd].kind = "file" /\ fds'[fd].of = s
      /\ \A g \in Fd : g # fd => fds'[g] = fds[g]
  BY <1>1, OpenedFacts DEF Kind
<1>4. TypeOK'
  BY <1>2, <1>3 DEF Label
<1>5. SessionGood(s)'
  <2>1. SessionGood(s)
    BY SessionInvParts
  <2> QED
    BY <1>1, <1>2, <1>3, <2>1 DEF SessionGood, Owns, Free
<1>6. OneListener'
  BY <1>1, <1>3 DEF OneListener, Free
<1>7. ASSUME NEW g \in Fd, g = fd \/ fds[g].of = s
      PROVE  EntryGood(g)'
  <2>1. EntryGood(g)
    BY SessionInvParts
  <2> QED
    BY <1>2, <1>3, <1>7, <2>1 DEF EntryGood
<1> QED
  BY <1>1, <1>2, <1>3, <1>4, <1>5, <1>6, <1>7, OneSession

(* The end of a transfer closes both sockets of PASV, which are there      *)
(* because a transfer has its data connection.                             *)
LEMMA EndTransferKeeps ==
  ASSUME SessionInv, NEW s \in Session, EndTransfer(s)
  PROVE  SessionInv'
<1> USE DEF SessionInv, TypeOK
<1>1. /\ pc[s] \in {"list", "retr", "stor", "file"}
      /\ pc' = [pc EXCEPT ![s] = "command"]
      /\ fds' = Closed({data_sockfd[s], listen_sockfd[s]})
      /\ data_sockfd' = [data_sockfd EXCEPT ![s] = -1]
      /\ UNCHANGED <<logged, gone, control_fd, listen_sockfd, halted>>
  BY DEF EndTransfer, Goto
<1>2. /\ fds' \in [Fd -> Entry]
      /\ \A g \in Fd : IF g \in {data_sockfd[s], listen_sockfd[s]}
                       THEN fds'[g] = Free /\ fds'[g].kind = "free"
                       ELSE fds'[g] = fds[g]
  BY <1>1, ClosedFacts
<1>3. SessionGood(s)
  BY SessionInvParts
<1>4. /\ data_sockfd[s] \in Fd /\ fds[data_sockfd[s]].kind = "data" /\ fds[data_sockfd[s]].of = s
      /\ listen_sockfd[s] \in Fd /\ fds[listen_sockfd[s]].kind = "listening"
      /\ fds[listen_sockfd[s]].of = s
  BY <1>1, <1>3, OwnsFacts DEF SessionGood, Kind
<1>5. TypeOK'
  BY <1>1, <1>2 DEF Label
<1>6. SessionGood(s)'
  <2>1. Owns(s, control_fd[s], "control")
    BY <1>1, <1>3 DEF SessionGood
  <2>2. control_fd[s] \in Fd /\ fds[control_fd[s]].kind = "control"
    BY <2>1 DEF Owns
  <2>3. fds'[control_fd[s]] = fds[control_fd[s]]
    BY <1>2, <1>4, <2>2
  <2> QED
    BY <1>1, <2>1, <2>3 DEF SessionGood, Owns
<1>7. OneListener'
  BY <1>2, Zenon DEF OneListener
<1>8. ASSUME NEW g \in Fd, g \in {data_sockfd[s], listen_sockfd[s]}
      PROVE  fds[g].of = s /\ EntryGood(g)'
  <2>1. fds[g].of = s
    BY <1>4, <1>8
  <2>2. fds'[g].kind = "free"
    BY <1>2, <1>8
  <2> QED
    BY <2>1, <2>2 DEF EntryGood
<1>9. ASSUME NEW g \in Fd, g \notin {data_sockfd[s], listen_sockfd[s]}, fds[g].of = s
      PROVE  EntryGood(g)'
  <2>1. EntryGood(g)
    BY SessionInvParts
  <2>2. fds'[g] = fds[g]
    BY <1>2, <1>9
  <2> QED
    BY <1>1, <1>9, <2>1, <2>2 DEF EntryGood
<1> QED
  BY <1>1, <1>2, <1>5, <1>7, <1>6, <1>8, <1>9, OneSession

(* The steps between "command", "password", "bind" and the start of a      *)
(* transfer open and close nothing.                                        *)
LEMMA MoveKeeps ==
  ASSUME SessionInv, NEW s \in Session,
         \/ User(s) \/ Pass(s) \/ NotPass(s) \/ Pasv(s) \/ StartTransfer(s)
  PROVE  SessionInv'
<1> USE DEF SessionInv, TypeOK
<1>1. PICK to \in {"command", "password", "bind", "list", "retr", "stor"} :
        /\ pc[s] \in {"command", "password"} /\ pc' = [pc EXCEPT ![s] = to]
        /\ to \in {"list", "retr", "stor"} => data_sockfd[s] # -1
  BY DEF User, Pass, NotPass, Pasv, StartTransfer, Goto
<1>2. UNCHANGED <<gone, control_fd, listen_sockfd, data_sockfd, fds, halted>>
  BY DEF User, Pass, NotPass, Pasv, StartTransfer, Sockets
<1>3. logged' \in [Session -> {LOGGED_OUT, LOGGED_ON}]
  BY DEF User, Pass, NotPass, Pasv, StartTransfer
<1>4. TypeOK'
  BY <1>1, <1>2, <1>3 DEF Label
<1>5. SessionGood(s)'
  <2>1. SessionGood(s)
    BY SessionInvParts
  <2> QED
    BY <1>1, <1>2, <2>1 DEF SessionGood, Owns
<1>6. OneListener'
  BY <1>2 DEF OneListener
<1>7. ASSUME NEW g \in Fd, fds[g].of = s
      PROVE  EntryGood(g)'
  <2>1. EntryGood(g)
    BY SessionInvParts
  <2> QED
    BY <1>1, <1>2, <1>7, <2>1 DEF EntryGood
<1> QED
  BY <1>1, <1>2, <1>4, <1>5, <1>6, <1>7, OneSession

(* The client's leaving, and the end of the process, change nothing of it. *)
LEMMA StandstillKeeps ==
  ASSUME SessionInv, TypeOK',
         UNCHANGED <<pc, control_fd, listen_sockfd, data_sockfd, fds>>
  PROVE  SessionInv'
BY DEF SessionInv, OwnDescriptors, NoConnectionLeaks, SocketsWhenDue, BoundIsMine,
       OneListener, Owns

(* The steps that end the process.                                         *)
Exits(s) == \/ ArriveExhausted(s) \/ PeerReset(s) \/ PassGone(s) \/ PasvClash(s)
            \/ PasvExhausted(s) \/ StorUnopened(s) \/ UserNull(s) \/ PassBlank(s)

LEMMA ExitFacts ==
  ASSUME NEW s \in Session, Exits(s)
  PROVE  /\ halted = "no" /\ halted' \in {"port", "descriptors", "file", "peer", "undefined", "null"}
         /\ UNCHANGED <<pc, logged, gone, control_fd, listen_sockfd, data_sockfd, fds>>
BY DEF Exits, ArriveExhausted, PeerReset, PassGone, PasvClash, PasvExhausted,
       StorUnopened, UserNull, PassBlank, Exit

LEMMA SessionNext == SessionInv /\ [Next]_vars => SessionInv'
<1> SUFFICES ASSUME SessionInv, [Next]_vars
             PROVE  SessionInv'
  OBVIOUS
<1>1. ASSUME NEW s \in Session, Exits(s)
      PROVE  SessionInv'
  <2>1. TypeOK'
    BY <1>1, ExitFacts DEF SessionInv, TypeOK
  <2> QED
    BY <1>1, <2>1, ExitFacts, StandstillKeeps
<1>2. ASSUME NEW s \in Session, ClientLeaves(s)
      PROVE  SessionInv'
  <2>1. TypeOK'
    BY <1>2 DEF ClientLeaves, Sockets, SessionInv, TypeOK
  <2> QED
    BY <1>2, <2>1, StandstillKeeps DEF ClientLeaves, Sockets
<1>3. CASE UNCHANGED vars
  <2>1. TypeOK'
    BY <1>3 DEF vars, SessionInv, TypeOK
  <2> QED
    BY <1>3, <2>1, StandstillKeeps DEF vars
<1>4. ASSUME NEW s \in Session, Disconnected(s) \/ Quit(s) \/ PassNull(s)
      PROVE  SessionInv'
  BY <1>4, EndSessionKeeps DEF Disconnected, Quit, PassNull
<1>5. ASSUME NEW s \in Session, ServerStep(s) \/ ClientStep(s)
      PROVE  SessionInv'
  BY <1>1, <1>2, <1>4, <1>5, ArriveKeeps, PasvBindKeeps, PasvListenKeeps,
     PasvAcceptKeeps, OpenFileKeeps, EndTransferKeeps, MoveKeeps
     DEF ServerStep, ClientStep, Exits
<1> QED
  BY <1>3, <1>5 DEF Next, Ended

-----------------------------------------------------------------------------
(* The invariant holds for any number of sessions and any limit on         *)
(* descriptors, with every interleaving of sessions, disconnections and    *)
(* exits (ftp_server, factory.c:611-1121).                                 *)
THEOREM SessionInvariant == SafeSpec => []SessionInv
BY SessionInit, SessionNext, PTL DEF SafeSpec

(* Every variable keeps its type.                                          *)
THEOREM SessionTypeCorrect == SafeSpec => []TypeOK
<1>1. SessionInv => TypeOK
  BY DEF SessionInv
<1> QED
  BY <1>1, SessionInvariant, PTL

(* Although descriptors are reused by whoever opens next, a session's      *)
(* control, listening and data sockets are its own whenever it may use     *)
(* them (factory.c:754: the numbers of closed sockets are forgotten).      *)
THEOREM DescriptorsAreOwn == SafeSpec => []OwnDescriptors
<1>1. SessionInv => OwnDescriptors
  BY DEF SessionInv
<1> QED
  BY <1>1, SessionInvariant, PTL

(* On no way out of ftp_server (factory.c:1117-1120) is a control or data  *)
(* connection left open that its session does not know any more.           *)
THEOREM ConnectionsDoNotLeak == SafeSpec => []NoConnectionLeaks
<1>1. SessionInv => NoConnectionLeaks
  BY DEF SessionInv
<1> QED
  BY <1>1, SessionInvariant, PTL

-----------------------------------------------------------------------------
(* The sessions implement DataPort.                                        *)

(* The holder of the port is the owner of the one listening socket, unless *)
(* that socket was left behind.                                            *)
LEMMA HolderFacts ==
  ASSUME OneListener
  PROVE  /\ ~PortTaken => Holder = Nobody
         /\ \A fd \in Fd :
              fds[fd].kind = "listening" =>
                Holder = IF listen_sockfd[fds[fd].of] = fd THEN fds[fd].of ELSE Lost
<1>1. ASSUME NEW fd \in Fd, fds[fd].kind = "listening"
      PROVE  fd = CHOOSE g \in Fd : fds[g].kind = "listening"
  BY <1>1 DEF OneListener
<1> QED
  BY <1>1 DEF Holder, PortTaken

LEMMA HolderFactsNext ==
  ASSUME OneListener'
  PROVE  /\ ~PortTaken' => Holder' = Nobody
         /\ \A fd \in Fd :
              fds'[fd].kind = "listening" =>
                Holder' = IF listen_sockfd'[fds'[fd].of] = fd THEN fds'[fd].of ELSE Lost
<1>1. ASSUME NEW fd \in Fd, fds'[fd].kind = "listening"
      PROVE  fd = CHOOSE g \in Fd : fds'[g].kind = "listening"
  BY <1>1 DEF OneListener
<1> QED
  BY <1>1 DEF Holder, PortTaken

(* The holder stays the same when no socket starts or stops to listen and  *)
(* its owner keeps, or had already forgotten, its number.                  *)
LEMMA HolderStays ==
  ASSUME SessionInv, SessionInv',
         \A fd \in Fd :
           /\ fds'[fd].kind = "listening" <=> fds[fd].kind = "listening"
           /\ fds[fd].kind = "listening" =>
                /\ fds'[fd].of = fds[fd].of
                /\ listen_sockfd'[fds[fd].of] = fd <=> listen_sockfd[fds[fd].of] = fd
  PROVE  Holder' = Holder
<1>1. OneListener /\ OneListener'
  BY DEF SessionInv
<1>2. CASE ~PortTaken
  BY <1>1, <1>2, HolderFacts, HolderFactsNext DEF PortTaken
<1>3. CASE PortTaken
  <2>1. PICK fd \in Fd : fds[fd].kind = "listening"
    BY <1>3 DEF PortTaken
  <2> QED
    BY <1>1, <2>1, HolderFacts, HolderFactsNext
<1> QED
  BY <1>2, <1>3

(* PasvListen gets the port.                                               *)
LEMMA PortAcquired ==
  ASSUME SessionInv, SessionInv', NEW s \in Session, PasvListen(s)
  PROVE  Port!Acquire(s)
<1> DEFINE fd == listen_sockfd[s]
<1>1. /\ ~PortTaken /\ halted = "no" /\ pc[s] = "listen"
      /\ fds' = Opened(fd, "listening", s)
      /\ UNCHANGED <<listen_sockfd, halted>>
  BY DEF PasvListen, Goto
<1>2. fd \in Fd /\ fds \in [Fd -> Entry]
  BY <1>1, SessionInvParts DEF SessionGood, Owns, TypeOK
<1> HIDE DEF fd
<1>3. /\ fds'[fd] = [kind |-> "listening", of |-> s]
      /\ fds'[fd].kind = "listening" /\ fds'[fd].of = s
  BY <1>1, <1>2, OpenedFacts DEF Kind
<1>4. Holder = Nobody
  BY <1>1, HolderFacts DEF SessionInv
<1>5. Holder' = s
  BY <1>1, <1>2, <1>3, HolderFactsNext DEF SessionInv, fd
<1> QED
  BY <1>1, <1>4, <1>5 DEF Port!Acquire, Port!Move

(* The end of a transfer gives it back.                                    *)
LEMMA PortReleased ==
  ASSUME SessionInv, SessionInv', NEW s \in Session, EndTransfer(s)
  PROVE  Port!Release(s)
<1> DEFINE fd == listen_sockfd[s]
<1>1. /\ pc[s] \in {"list", "retr", "stor", "file"} /\ halted = "no"
      /\ fds' = Closed({data_sockfd[s], fd})
      /\ UNCHANGED <<listen_sockfd, halted>>
  BY DEF EndTransfer, Goto
<1>2. fds \in [Fd -> Entry] /\ OneListener /\ OneListener'
  BY DEF SessionInv, TypeOK
<1>3. fd \in Fd /\ fds[fd].kind = "listening" /\ fds[fd].of = s
  BY <1>1, SessionInvParts, OwnsFacts DEF SessionGood, Kind
<1>4. Holder = s
  BY <1>2, <1>3, HolderFacts
<1>5. ASSUME NEW g \in Fd PROVE fds'[g].kind # "listening"
  BY <1>1, <1>2, <1>3, ClosedFacts DEF OneListener
<1>6. Holder' = Nobody
  BY <1>2, <1>5, HolderFactsNext DEF PortTaken
<1> QED
  BY <1>1, <1>4, <1>6 DEF Port!Release, Port!Move

(* The end of a session that holds the port takes it out of use, and any   *)
(* other end of a session does not touch it.                               *)
LEMMA PortAbandoned ==
  ASSUME SessionInv, SessionInv', NEW s \in Session,
         EndSession(s, "command") \/ EndSession(s, "password")
  PROVE  Port!Abandon(s) \/ UNCHANGED Port!vars
<1>1. /\ halted = "no" /\ pc[s] # "idle"
      /\ fds' = Closed({control_fd[s], data_sockfd[s]})
      /\ listen_sockfd' = [listen_sockfd EXCEPT ![s] = -1]
      /\ UNCHANGED halted
  BY DEF EndSession, Goto
<1>2. TypeOK /\ OneListener /\ OneListener' /\ SessionGood(s)
  BY SessionInvParts DEF SessionInv
<1>3. /\ control_fd[s] \in Fd => fds[control_fd[s]].kind = "control"
      /\ data_sockfd[s] \in Fd => fds[data_sockfd[s]].kind = "data"
  BY <1>1, <1>2, OwnsFacts, FdFacts DEF SessionGood, Kind
<1>4. ASSUME NEW g \in Fd
      PROVE  /\ fds'[g].kind = "listening" <=> fds[g].kind = "listening"
             /\ fds[g].kind = "listening" => fds'[g] = fds[g] /\ fds[g].of \in Session
  <2>1. CASE g \in {control_fd[s], data_sockfd[s]}
    BY <1>1, <1>2, <1>3, <2>1, ClosedFacts DEF TypeOK
  <2>2. CASE g \notin {control_fd[s], data_sockfd[s]}
    BY <1>1, <1>2, <2>2, ClosedFacts, EntryFacts DEF TypeOK
  <2> QED
    BY <2>1, <2>2
<1>5. CASE \E g \in Fd : fds[g].kind = "listening" /\ fds[g].of = s /\ listen_sockfd[s] = g
  <2>1. PICK g \in Fd : fds[g].kind = "listening" /\ fds[g].of = s /\ listen_sockfd[s] = g
    BY <1>5
  <2>2. Holder = s
    BY <1>2, <2>1, HolderFacts
  <2>3. listen_sockfd'[s] # g
    BY <1>1, <1>2, FdFacts DEF TypeOK
  <2>4. Holder' = Lost
    BY <1>2, <1>4, <2>1, <2>3, HolderFactsNext
  <2> QED
    BY <1>1, <2>2, <2>4 DEF Port!Abandon, Port!Move
<1>6. CASE ~ \E g \in Fd : fds[g].kind = "listening" /\ fds[g].of = s /\ listen_sockfd[s] = g
  <2>1. ASSUME NEW g \in Fd, fds[g].kind = "listening"
        PROVE  listen_sockfd'[fds[g].of] = g <=> listen_sockfd[fds[g].of] = g
    BY <1>1, <1>2, <1>4, <1>6, <2>1, FdFacts DEF TypeOK
  <2>2. Holder' = Holder
    BY <1>4, <2>1, HolderStays
  <2> QED
    BY <1>1, <2>2 DEF Port!vars
<1> QED
  BY <1>5, <1>6

(* A socket or a file that is opened does not listen yet.                  *)
LEMMA PortUntouched ==
  ASSUME SessionInv, SessionInv', NEW s \in Session,
         Arrive(s) \/ PasvBind(s) \/ PasvAccept(s) \/ OpenFile(s)
  PROVE  UNCHANGED Port!vars
<1>1. PICK fd \in Fd, kind \in {"control", "bound", "data", "file"} :
        fds[fd] = Free /\ fds' = Opened(fd, kind, s)
  BY DEF Arrive, PasvBind, PasvAccept, OpenFile, IsNext
<1>2. TypeOK /\ UNCHANGED halted
  BY DEF SessionInv, Arrive, PasvBind, PasvAccept, OpenFile
<1>3. /\ fds'[fd] = [kind |-> kind, of |-> s]
      /\ fds'[fd].kind = kind
      /\ \A g \in Fd : g # fd => fds'[g] = fds[g]
  <2>1. kind \in Kind /\ fds \in [Fd -> Entry]
    BY <1>2 DEF TypeOK, Kind
  <2> QED
    BY <1>1, <2>1, OpenedFacts
<1>4. UNCHANGED listen_sockfd \/ ~PortTaken
  BY DEF Arrive, PasvBind, PasvAccept, OpenFile
<1>5. Holder' = Holder
  BY <1>1, <1>3, <1>4, HolderStays DEF PortTaken, Free
<1> QED
  BY <1>2, <1>5 DEF Port!vars

(* Steps that change neither descriptors nor the state of the process.     *)
LEMMA PortStutter ==
  ASSUME UNCHANGED <<fds, listen_sockfd, halted>>
  PROVE  UNCHANGED Port!vars
BY DEF Port!vars, Holder, PortTaken

LEMMA PortGoesDown ==
  ASSUME NEW s \in Session, Exits(s)
  PROVE  Port!GoDown
<1>1. Holder' = Holder
  BY ExitFacts DEF Holder, PortTaken
<1> QED
  BY <1>1, ExitFacts DEF Port!GoDown

(* The sessions implement DataPort: one session at a time listens on the   *)
(* one port of get_data_port (factory.c:128), gives it back when its       *)
(* transfer ends, and takes it with it for good when it ends without one.  *)
THEOREM SessionsImplementDataPort == SafeSpec => PortSpec
<1>1. Init => Port!Init
  BY DEF Init, Port!Init, Holder, PortTaken, Free
<1>2. SessionInv /\ SessionInv' /\ [Next]_vars => [Port!Next]_(Port!vars)
  <2> SUFFICES ASSUME SessionInv, SessionInv', [Next]_vars
               PROVE  Port!Next \/ UNCHANGED Port!vars
    OBVIOUS
  <2>1. CASE UNCHANGED vars
    BY <2>1, PortStutter DEF vars
  <2>2. ASSUME NEW s \in Session, Exits(s)
        PROVE  Port!Next
    BY <2>2, PortGoesDown DEF Port!Next
  <2>3. ASSUME NEW s \in Session, PasvListen(s)
        PROVE  Port!Next
    BY <2>3, PortAcquired DEF Port!Next
  <2>4. ASSUME NEW s \in Session, EndTransfer(s)
        PROVE  Port!Next
    BY <2>4, PortReleased DEF Port!Next
  <2>5. ASSUME NEW s \in Session, Disconnected(s) \/ Quit(s) \/ PassNull(s)
        PROVE  Port!Next \/ UNCHANGED Port!vars
    BY <2>5, PortAbandoned DEF Disconnected, Quit, PassNull, Port!Next
  <2>6. ASSUME NEW s \in Session,
               \/ User(s) \/ Pass(s) \/ NotPass(s) \/ Pasv(s) \/ StartTransfer(s)
               \/ ClientLeaves(s)
        PROVE  UNCHANGED Port!vars
    BY <2>6, PortStutter
       DEF User, Pass, NotPass, Pasv, StartTransfer, ClientLeaves, Sockets
  <2>7. ASSUME NEW s \in Session, ServerStep(s) \/ ClientStep(s)
        PROVE  Port!Next \/ UNCHANGED Port!vars
    BY <2>2, <2>3, <2>4, <2>5, <2>6, <2>7, PortUntouched
       DEF ServerStep, ClientStep, Exits
  <2> QED
    BY <2>1, <2>7 DEF Next, Ended
<1> QED
  BY <1>1, <1>2, SessionInvariant, PTL DEF SafeSpec, PortSpec, Port!SafeSpec
=============================================================================

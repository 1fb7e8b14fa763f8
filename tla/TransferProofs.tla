---------------------------- MODULE TransferProofs ----------------------------
(***************************************************************************)
(* Proofs about the bytes of uploads and downloads: no row promises bytes  *)
(* that are not on the disk, a confirmed upload is stored as it was sent,  *)
(* and a download that counted up to its size has what is stored.          *)
(***************************************************************************)
EXTENDS Transfer, SequenceTheorems, TLAPS

Uploading == cpc \in {"put", "stored"}

Downloading == cpc \in {"get", "got"}

(* Where the client and the server may be at the same time, and which ends *)
(* of the data connection are open then.                                   *)
Phases ==
  /\ cpc = "prompt" => /\ spc = "command" /\ local = << >>
                       /\ curr_size = 0 /\ copied = 0 /\ ~short
  /\ cpc = "size" => /\ spc \in {"size", "stat", "command"} /\ s_open
                     /\ local = << >> /\ data = << >>
  /\ spc \in {"size", "stat"} => cpc \in {"size", "dead"}
  /\ spc \in {"stor", "recv", "reply"} => cpc \in {"put", "stored", "dead"}
  /\ spc = "reply" => cpc # "put" /\ data = << >>
  /\ spc \in {"retr", "open", "send"} => cpc \in {"get", "got", "dead"}
  /\ spc # "command" => s_open /\ reply = 0
  /\ cpc \in {"put", "size", "get", "got"} => c_open
  /\ cpc \in {"stored", "dead"} => ~c_open
  /\ Uploading /\ spc = "command" => ~s_open /\ reply # 0
  /\ cpc = "put" => reply # 226

(* A file that does not exist has no bytes, and the server's place in an   *)
(* open file is not behind its end.                                        *)
DiskInv ==
  /\ \A n \in Name : ~disk[n].exists => disk[n].bytes = << >>
  /\ spc \notin {"recv", "reply", "send"} => size = 0
  /\ spc \in {"recv", "reply"} => size <= Len(OnDisk)
  /\ spc = "send" => size <= Len(Content)
  /\ spc \in {"recv", "reply"} => disk[path.name].exists

(* What the two handlers of a download know of the row they found: that it *)
(* has the path, and unless it was gone when they asked for it, the size   *)
(* that is answered and the name that is opened are right.                 *)
LookupInv ==
  /\ spc \in {"stat", "open"} => found.path = path
  /\ cpc = "size" /\ reply = 213 /\ ~torn => /\ filesize \in Nat
                                             /\ filesize <= Len(OnDisk)
  /\ spc = "send" /\ ~torn => md5sum = path.name

(* While a file is sent to the server only its bytes are under way.        *)
BytesUnderWay ==
  /\ Uploading => local \in Seq(Byte)
  /\ spc \in {"stor", "recv"} => data \in Seq(Byte)

(* cmd_put counts what it has sent, and but for a short send() it has sent *)
(* the start of the local file.                                            *)
SentInv ==
  Uploading =>
    /\ curr_size + copied <= Len(local)
    /\ ~short /\ curr_size # 0 => curr_size = Len(local)
    /\ cpc = "stored" => curr_size = Len(local) /\ copied = 0

(* What the server has received is on the disk, what is under way follows, *)
(* and behind it the file is still the earlier one.                        *)
UploadInv ==
  Uploading /\ spc # "command" =>
    /\ size + Len(data) = curr_size + copied
    /\ Len(OnDisk) = IF size > Len(before) THEN size ELSE Len(before)
    /\ \A i \in size + 1 .. Len(OnDisk) : OnDisk[i] = before[i]
    /\ ~short => /\ \A i \in 1 .. size : OnDisk[i] = local[i]
                 /\ \A i \in 1 .. Len(data) : data[i] = local[size + i]

(* Behind a confirmed upload the bytes are there.                          *)
StoredInv ==
  cpc = "stored" /\ reply = 226 =>
    /\ Len(OnDisk) = IF Len(local) > Len(before) THEN Len(local) ELSE Len(before)
    /\ \A i \in Len(local) + 1 .. Len(OnDisk) : OnDisk[i] = before[i]
    /\ ~short => \A i \in 1 .. Len(local) : OnDisk[i] = local[i]

(* What the client has received is the start of the file on the disk, what *)
(* is under way follows, and it is as much as the server has read; when    *)
(* the server is done it is the whole file or there is a reason.  Nothing  *)
(* is known of a download whose row went between the queries for it.       *)
DownloadInv ==
  Downloading /\ ~torn =>
    /\ filesize \in Nat /\ filesize <= Len(OnDisk)
    /\ Len(local) < filesize + BufSize
    /\ cpc = "got" => Len(local) >= filesize
    /\ \A i \in 1 .. Len(local) : i <= Len(OnDisk) => local[i] = OnDisk[i]
    /\ \A i \in 1 .. Len(data) :
         Len(local) + i <= Len(OnDisk) => data[i] = OnDisk[Len(local) + i]
    /\ spc \in {"retr", "open"} => local = << >> /\ data = << >>
    /\ spc = "send" => IF size < Len(OnDisk)
                       THEN Len(local) + Len(data) = size
                       ELSE Len(local) + Len(data) >= Len(OnDisk)
    /\ spc = "command" => /\ ~s_open
                          /\ \/ reply = 550 /\ Rows = {}
                             \/ ~disk[path.name].usable
                             \/ Len(local) + Len(data) >= Len(OnDisk)

(* The inductive invariant.                                                *)
TransferInv ==
  /\ TypeOK /\ Phases /\ DiskInv /\ LookupInv /\ DiskHoldsSize /\ BytesUnderWay
  /\ SentInv /\ UploadInv /\ StoredInv /\ DownloadInv

-----------------------------------------------------------------------------
(* Facts about sequences of bytes.                                         *)

LEMMA DropFacts ==
  ASSUME NEW S, NEW s \in Seq(S), NEW k \in Nat
  PROVE  /\ Drop(s, k) \in Seq(S)
         /\ Len(Drop(s, k)) = IF k <= Len(s) THEN Len(s) - k ELSE 0
         /\ \A i \in 1 .. Len(s) - k : Drop(s, k)[i] = s[k + i]
<1>1. \A i \in k + 1 .. Len(s) : s[i] \in S
  BY ElementOfSeq
<1> QED
  BY <1>1, SubSeqProperties DEF Drop

LEMMA PrefixFacts ==
  ASSUME NEW S, NEW s \in Seq(S), NEW k \in 0 .. Len(s)
  PROVE  /\ SubSeq(s, 1, k) \in Seq(S)
         /\ Len(SubSeq(s, 1, k)) = k
         /\ \A i \in 1 .. k : SubSeq(s, 1, k)[i] = s[i]
<1>1. \A i \in 1 .. k : s[i] \in S
  BY ElementOfSeq
<1> QED
  BY <1>1, SubSeqProperties

(* A part of a file.                                                       *)
LEMMA PartFacts ==
  ASSUME NEW S, NEW s \in Seq(S), NEW j \in Nat, NEW k \in Nat, j + k <= Len(s)
  PROVE  /\ SubSeq(s, j + 1, j + k) \in Seq(S)
         /\ Len(SubSeq(s, j + 1, j + k)) = k
         /\ \A i \in 1 .. k : SubSeq(s, j + 1, j + k)[i] = s[j + i]
<1>1. \A i \in j + 1 .. j + k : s[i] \in S
  BY ElementOfSeq
<1> QED
  BY <1>1, SubSeqProperties

(* A write() of new at the place n of a file.                              *)
LEMMA OverwriteFacts ==
  ASSUME NEW S, NEW old \in Seq(S), NEW new \in Seq(S), NEW n \in 0 .. Len(old),
         NEW m \in Nat, m = n + Len(new)
  PROVE  LET file == SubSeq(old, 1, n) \o new \o Drop(old, m)
         IN  /\ file \in Seq(S)
             /\ Len(file) = IF m > Len(old) THEN m ELSE Len(old)
             /\ \A i \in 1 .. Len(file) :
                  file[i] = IF i <= n THEN old[i]
                            ELSE IF i <= m THEN new[i - n] ELSE old[i]
<1>1. Len(old) \in Nat /\ Len(new) \in Nat
  BY LenProperties
<1>2. PICK start \in Seq(S) : /\ start = SubSeq(old, 1, n)
                              /\ Len(start) = n
                              /\ \A i \in 1 .. n : start[i] = old[i]
  BY ZenonT(60), PrefixFacts
<1>3. PICK rest : rest = Drop(old, m)
  OBVIOUS
<1>4. /\ rest \in Seq(S)
      /\ Len(rest) = IF m <= Len(old) THEN Len(old) - m ELSE 0
      /\ \A i \in 1 .. Len(old) - m : rest[i] = old[m + i]
  BY <1>3, DropFacts, Zenon
<1>5. PICK both : both = start \o new
  OBVIOUS
<1>6. /\ both \in Seq(S)
      /\ Len(both) = m
      /\ \A i \in 1 .. m : both[i] = IF i <= n THEN start[i] ELSE new[i - n]
  <2>1. /\ both \in Seq(S)
        /\ Len(both) = Len(start) + Len(new)
        /\ \A i \in 1 .. Len(start) + Len(new) :
             both[i] = IF i <= Len(start) THEN start[i] ELSE new[i - Len(start)]
    BY <1>5, ConcatProperties
  <2>2. Len(start) + Len(new) = m /\ Len(start) = n
    BY <1>1, <1>2
  <2> QED
    BY <2>1, <2>2
<1>7. PICK all : all = both \o rest
  OBVIOUS
<1>8. /\ all \in Seq(S)
      /\ Len(all) = m + Len(rest)
      /\ \A i \in 1 .. m + Len(rest) : all[i] = IF i <= m THEN both[i] ELSE rest[i - m]
  <2>1. /\ all \in Seq(S)
        /\ Len(all) = Len(both) + Len(rest)
        /\ \A i \in 1 .. Len(both) + Len(rest) :
             all[i] = IF i <= Len(both) THEN both[i] ELSE rest[i - Len(both)]
    BY <1>4, <1>6, <1>7, ConcatProperties
  <2> QED
    BY <1>6, <2>1
<1>9. all = SubSeq(old, 1, n) \o new \o Drop(old, m)
  BY <1>2, <1>3, <1>5, <1>7
<1>10. Len(all) = IF m > Len(old) THEN m ELSE Len(old)
  <2>1. Len(rest) = (IF m <= Len(old) THEN Len(old) - m ELSE 0) /\ Len(all) = m + Len(rest)
    BY <1>4, <1>8
  <2>2. CASE m <= Len(old)
    BY <1>1, <2>1, <2>2
  <2>3. CASE m > Len(old)
    <3>1. Len(rest) = 0 /\ ~(m <= Len(old))
      BY <1>1, <2>1, <2>3
    <3>2. Len(all) = m
      BY <2>1, <3>1
    <3> QED
      BY <2>3, <3>2
  <2> QED
    BY <1>1, <2>2, <2>3
<1>11. ASSUME NEW i \in 1 .. Len(all)
       PROVE  all[i] = IF i <= n THEN old[i]
                       ELSE IF i <= m THEN new[i - n] ELSE old[i]
  <2>1. all[i] = IF i <= m THEN both[i] ELSE rest[i - m]
    BY <1>8
  <2>2. CASE i <= m
    BY <1>2, <1>6, <2>1, <2>2
  <2>3. CASE i > m
    <3>1. i - m \in 1 .. Len(old) - m
      BY <1>1, <1>10, <2>3
    <3>2. rest[i - m] = old[m + (i - m)] /\ m + (i - m) = i
      BY <1>4, <3>1
    <3> QED
      BY <2>1, <2>3, <3>2
  <2> QED
    BY <2>2, <2>3
<1> QED
  BY <1>8, <1>9, <1>10, <1>11

(* A buffer.                                                               *)
LEMMA BufferFacts ==
  ASSUME NEW S, NEW n \in Nat, NEW b \in [1 .. n -> S]
  PROVE  b \in Seq(S) /\ Len(b) = n
OBVIOUS

(* What is put behind a stream.                                            *)
LEMMA AppendFacts ==
  ASSUME NEW S, NEW s \in Seq(S), NEW t \in Seq(S)
  PROVE  LET all == s \o t
         IN  /\ all \in Seq(S)
             /\ Len(all) = Len(s) + Len(t)
             /\ \A i \in 1 .. Len(all) :
                  all[i] = IF i <= Len(s) THEN s[i] ELSE t[i - Len(s)]
BY ConcatProperties

-----------------------------------------------------------------------------
(* What the type invariant says of the sequences.                          *)
LEMMA TransferParts ==
  ASSUME TransferInv
  PROVE  /\ path.name \in Name
         /\ disk[path.name] \in File
         /\ OnDisk \in Seq(Byte) /\ Content \in Seq(Byte)
         /\ Len(OnDisk) \in Nat /\ Len(local) \in Nat /\ Len(data) \in Nat
         /\ Len(before) \in Nat /\ Len(Content) \in Nat
<1>1. /\ path.name \in Name /\ disk[path.name] \in File
      /\ OnDisk \in Seq(Byte) /\ Content \in Seq(Byte) /\ local \in Seq(Byte \cup {Zero})
      /\ data \in Seq(Byte \cup {Zero}) /\ before \in Seq(Byte)
  BY DEF TransferInv, TypeOK, Path, File, OnDisk, Content
<1> QED
  BY <1>1, LenProperties

LEMMA TransferInit == Init => TransferInv
<1> SUFFICES ASSUME Init PROVE TransferInv
  OBVIOUS
<1> USE DEF Init
<1>1. ASSUME NEW f \in StoredFile
      PROVE  /\ f.path \in Path /\ f.path.name \in Name /\ f.bytes \in Seq(Byte)
             /\ Len(f.bytes) \in Nat
             /\ disk[f.path.name] = [exists |-> TRUE, usable |-> TRUE, bytes |-> f.bytes]
  <2>1. f.path \in Path /\ f.bytes \in Seq(Byte) /\ f.path.name \in Name
    BY TransferAssumption DEF Path
  <2>2. \E g \in StoredFile : g.path.name = f.path.name
    OBVIOUS
  <2>3. (CHOOSE g \in StoredFile : g.path.name = f.path.name) = f
    BY TransferAssumption
  <2> QED
    BY <2>1, <2>2, <2>3, LenProperties
<1>2. ASSUME NEW n \in Name
      PROVE  /\ disk[n] \in File
             /\ ~disk[n].exists => disk[n].bytes = << >>
  <2>1. CASE \E f \in StoredFile : f.path.name = n
    BY <1>1, <2>1 DEF File
  <2>2. CASE ~\E f \in StoredFile : f.path.name = n
    <3>1. disk[n] = NoFile
      BY <2>2
    <3> QED
      BY <3>1, EmptySeq DEF File, NoFile
  <2> QED
    BY <2>1, <2>2
<1>3. ASSUME NEW r \in file_tbl
      PROVE  /\ r.path \in Path /\ r.size \in Nat /\ r \in Row
             /\ disk[r.path.name].exists
             /\ r.size <= Len(disk[r.path.name].bytes)
  <2>1. PICK f \in StoredFile : r = [code |-> 0, path |-> f.path, size |-> Len(f.bytes)]
    OBVIOUS
  <2>2. r.path = f.path /\ r.size = Len(f.bytes)
    BY <2>1
  <2>3. /\ f.path \in Path /\ Len(f.bytes) \in Nat
        /\ disk[f.path.name].exists /\ disk[f.path.name].bytes = f.bytes
    BY <1>1
  <2>4. r.size <= Len(disk[r.path.name].bytes)
    BY SMTT(30), <2>2, <2>3
  <2>5. r \in Row
    BY <2>1, <2>3, TransferAssumption DEF Row
  <2> QED
    BY <2>1, <2>2, <2>3, <2>4, <2>5
<1>4. TypeOK
  <2>1. disk \in [Name -> File]
    BY <1>2
  <2>2. file_tbl \subseteq Row
    BY <1>3
  <2>3. NoPath \in Path
    BY TransferAssumption DEF NoPath
  <2>4. Clear \in [1 .. BufSize -> Byte \cup {Zero}]
    BY DEF Clear
  <2>5. << >> \in Seq(Byte) /\ << >> \in Seq(Byte \cup {Zero}) /\ Len(<< >>) = 0
    BY EmptySeq
  <2>6. curr_size \in 0 .. Len(local) /\ copied \in 0 .. Len(local) /\ Len(data) <= StreamCap
    BY <2>5, TransferAssumption
  <2>7. left \in 0 .. MaxTransfers
    BY TransferAssumption
  <2>8. NoRow \in Row /\ NoPath.name \in Name
    BY <2>3, TransferAssumption DEF NoRow, Row, Path
  <2> QED
    BY <2>1, <2>2, <2>3, <2>4, <2>5, <2>6, <2>7, <2>8 DEF TypeOK, ClientLabel, ServerLabel
<1>5. DiskHoldsSize
  BY <1>3 DEF DiskHoldsSize
<1> QED
  BY <1>2, <1>4, <1>5 DEF TransferInv, Phases, DiskInv, LookupInv, BytesUnderWay, SentInv,
     UploadInv, StoredInv, DownloadInv, Uploading, Downloading

(* Steps that change nothing of the transfer.                              *)
LEMMA IdleKeeps ==
  ASSUME TransferInv, UNCHANGED <<disk, client, server, wire>>,
         file_tbl' \subseteq file_tbl,
         halted' \in {"no", "port", "file", "peer"}, left' \in 0 .. MaxTransfers
  PROVE  TransferInv'
<1> USE DEF client, mine, sent, server, handler, lookup, history, block, wire
<1>1. TypeOK' /\ DiskHoldsSize'
  BY DEF TransferInv, TypeOK, DiskHoldsSize
<1>2. Phases' /\ DiskInv' /\ LookupInv' /\ BytesUnderWay' /\ SentInv'
  BY DEF TransferInv, Phases, DiskInv, LookupInv, Content, BytesUnderWay, SentInv, OnDisk, Uploading
<1>3. UploadInv' /\ StoredInv' /\ DownloadInv'
  BY DEF TransferInv, UploadInv, StoredInv, DownloadInv, Rows, OnDisk, Uploading, Downloading
<1> QED
  BY <1>1, <1>2, <1>3 DEF TransferInv

(* The client gets back to its prompt while the server waits for a command. *)
LEMMA ReturnKeeps ==
  ASSUME TransferInv, Return, UNCHANGED store,
         spc' = "command", found' \in Row, md5sum' \in Name, fd' \in {-1, 0}, size' = 0,
         buf' \in [1 .. BufSize -> Byte \cup {Zero}], data' \in {data, << >>},
         c_open' \in BOOLEAN, s_open' \in BOOLEAN, reply' \in {0, 213, 226, 550},
         halted' \in {"no", "port", "file", "peer"}, left' \in 0 .. MaxTransfers
  PROVE  TransferInv'
<1> USE DEF Return, store
<1>1. TypeOK'
  <2>1. NoPath \in Path
    BY TransferAssumption DEF NoPath
  <2>2. /\ << >> \in Seq(Byte) /\ << >> \in Seq(Byte \cup {Zero})
        /\ Len(<< >>) = 0 /\ 0 \in 0 .. 0
    BY EmptySeq
  <2>3. data' \in Seq(Byte \cup {Zero}) /\ Len(data') <= StreamCap
    <3>1. CASE data' = data
      BY <3>1 DEF TransferInv, TypeOK
    <3>2. CASE data' = << >>
      BY <3>2, <2>2, TransferAssumption
    <3> QED
      BY <3>1, <3>2
  <2> QED
    BY <2>1, <2>2, <2>3 DEF TransferInv, TypeOK, ClientLabel, ServerLabel
<1>2. DiskHoldsSize' /\ Phases' /\ DiskInv' /\ LookupInv' /\ BytesUnderWay' /\ SentInv'
  BY DEF TransferInv, DiskHoldsSize, Phases, DiskInv, LookupInv, BytesUnderWay, SentInv, Uploading
<1>3. UploadInv' /\ StoredInv' /\ DownloadInv'
  BY DEF UploadInv, StoredInv, DownloadInv, Uploading, Downloading
<1> QED
  BY <1>1, <1>2, <1>3 DEF TransferInv

(* What the handlers reset their variables to.                             *)
LEMMA ResetFacts ==
  /\ NoPath \in Path /\ NoPath.name \in Name /\ NoRow \in Row
  /\ Clear \in [1 .. BufSize -> Byte \cup {Zero}]
<1>1. NoPath \in Path
  BY TransferAssumption DEF NoPath
<1>2. NoPath.name \in Name
  BY <1>1 DEF Path
<1>3. NoRow \in Row
  BY <1>1, TransferAssumption DEF NoRow, Row
<1> QED
  BY <1>1, <1>2, <1>3 DEF Clear

(* The end of a transfer keeps the types.                                  *)
LEMMA HangupTypes ==
  ASSUME TypeOK, NEW answer \in {0, 226, 550}, Hangup(answer),
         UNCHANGED <<store, client, before, data, c_open, fate>>, torn' \in BOOLEAN
  PROVE  TypeOK'
<1>1. /\ spc' \in ServerLabel /\ found' \in Row /\ md5sum' \in Name
      /\ fd' \in {-1, 0} /\ size' \in Nat
      /\ buf' \in [1 .. BufSize -> Byte \cup {Zero}]
      /\ s_open' \in BOOLEAN /\ reply' \in {0, 213, 226, 550}
  BY ResetFacts DEF Hangup, ServerLabel
<1> QED
  BY <1>1 DEF TypeOK, store, client, mine, sent, fate

LEMMA ReturnsKeep ==
  ASSUME TransferInv, PutDone \/ SizeFails \/ GetDone \/ NewClient \/ Restart
  PROVE  TransferInv'
<1> USE DEF fate, lookup, block, wire
<1>1. CASE PutDone
  BY SMTT(30), <1>1, ReturnKeeps DEF PutDone, ClientAt, TransferInv, TypeOK, Phases, DiskInv
<1>2. CASE SizeFails
  BY <1>2, ReturnKeeps DEF SizeFails, ClientAt, TransferInv, TypeOK, Phases, DiskInv
<1>3. CASE GetDone
  BY ZenonT(60), <1>3, ReturnKeeps DEF GetDone, ClientAt, TransferInv, TypeOK, Phases, DiskInv
<1>4. CASE NewClient
  BY SMTT(30), <1>4, ReturnKeeps DEF NewClient, ClientAt, TransferInv, TypeOK, Phases, DiskInv
<1>5. CASE Restart
  <2> QED
    BY <1>5, ResetFacts, ReturnKeeps DEF Restart, Hangup, TransferInv, TypeOK
<1> QED
  BY <1>1, <1>2, <1>3, <1>4, <1>5

LEMMA PutCloseKeeps == TransferInv /\ PutClose => TransferInv'
<1> SUFFICES ASSUME TransferInv, PutClose PROVE TransferInv'
  OBVIOUS
<1> USE DEF PutClose, store, client, mine, sent, server, handler, lookup, history, block, wire, fate, ClientAt
<1>1. TypeOK'
  <2>1. cpc' \in ClientLabel /\ c_open' \in BOOLEAN
    BY DEF ClientLabel
  <2>2. UNCHANGED <<store, mine, server, data, s_open, reply, fate>>
    OBVIOUS
  <2> HIDE DEF PutClose
  <2> QED
    BY <2>1, <2>2 DEF TransferInv, TypeOK
<1>2. Phases' /\ DiskInv' /\ LookupInv' /\ DiskHoldsSize'
  BY TransferParts DEF TransferInv, Phases, DiskInv, LookupInv, Content, DiskHoldsSize, OnDisk, Uploading
<1>3. BytesUnderWay' /\ SentInv'
  BY TransferParts DEF TransferInv, TypeOK, BytesUnderWay, SentInv, Phases, Uploading, Remaining
<1>4. UploadInv' /\ StoredInv' /\ DownloadInv'
  BY TransferParts DEF TransferInv, TypeOK, Phases, DiskInv, LookupInv, Rows, SentInv, UploadInv, StoredInv, DownloadInv,
     Uploading, Downloading, OnDisk
<1> QED
  BY <1>1, <1>2, <1>3, <1>4 DEF TransferInv

LEMMA PutResetKeeps == TransferInv /\ PutReset => TransferInv'
<1> SUFFICES ASSUME TransferInv, PutReset PROVE TransferInv'
  OBVIOUS
<1> USE DEF PutReset, store, client, mine, sent, server, handler, lookup, history, block, wire, fate, ClientAt
<1>1. TypeOK'
  <2>1. cpc' = "dead" /\ c_open' = FALSE
    OBVIOUS
  <2>2. cpc' \in ClientLabel /\ c_open' \in BOOLEAN
    BY ONLY <2>1 DEF ClientLabel
  <2>3. UNCHANGED <<disk, file_tbl, path, local, filesize, curr_size, copied, short, spc, found,
                    md5sum, fd, size, buf, before, torn, data, s_open, reply, halted, left>>
    OBVIOUS
  <2>4. TypeOK
    BY DEF TransferInv
  <2> QED
    BY ONLY <2>2, <2>3, <2>4 DEF TypeOK
<1>2. Phases' /\ DiskInv' /\ LookupInv' /\ DiskHoldsSize'
  BY TransferParts DEF TransferInv, Phases, DiskInv, LookupInv, Content, DiskHoldsSize, OnDisk, Uploading
<1>3. BytesUnderWay' /\ SentInv'
  BY TransferParts DEF TransferInv, TypeOK, BytesUnderWay, SentInv, Phases, Uploading, Remaining
<1>4. UploadInv' /\ StoredInv' /\ DownloadInv'
  BY TransferParts DEF TransferInv, TypeOK, Phases, DiskInv, LookupInv, Rows, SentInv, UploadInv, StoredInv, DownloadInv,
     Uploading, Downloading, OnDisk
<1> QED
  BY <1>1, <1>2, <1>3, <1>4 DEF TransferInv

LEMMA PutShortKeeps == TransferInv /\ PutShort => TransferInv'
<1> SUFFICES ASSUME TransferInv, PutShort PROVE TransferInv'
  OBVIOUS
<1> USE DEF PutShort, store, client, mine, sent, server, handler, lookup, history, block, wire, fate, ClientAt
<1>1. TypeOK'
  <2>1. curr_size + copied \in 0 .. Len(local) /\ 0 \in 0 .. Len(local)
    BY TransferParts DEF TransferInv, TypeOK, SentInv, Uploading
  <2> QED
    BY <2>1 DEF TransferInv, TypeOK
<1>2. Phases' /\ DiskInv' /\ LookupInv' /\ DiskHoldsSize'
  BY TransferParts DEF TransferInv, Phases, DiskInv, LookupInv, Content, DiskHoldsSize, OnDisk, Uploading
<1>3. BytesUnderWay' /\ SentInv'
  BY TransferParts DEF TransferInv, TypeOK, BytesUnderWay, SentInv, Phases, Uploading, Remaining
<1>4. UploadInv' /\ StoredInv' /\ DownloadInv'
  BY TransferParts DEF TransferInv, TypeOK, Phases, DiskInv, LookupInv, Rows, SentInv, UploadInv, StoredInv, DownloadInv,
     Uploading, Downloading, OnDisk
<1> QED
  BY <1>1, <1>2, <1>3, <1>4 DEF TransferInv

LEMMA ClientDiesKeeps == TransferInv /\ ClientDies => TransferInv'
<1> SUFFICES ASSUME TransferInv, ClientDies PROVE TransferInv'
  OBVIOUS
<1> USE DEF ClientDies, store, client, mine, sent, server, handler, lookup, history, block, wire, fate
<1>1. TypeOK'
  <2>1. << >> \in Seq(Byte \cup {Zero}) /\ Len(<< >>) = 0
    BY EmptySeq
  <2>2. data' \in Seq(Byte \cup {Zero}) /\ Len(data') <= StreamCap
    BY <2>1, TransferAssumption DEF TransferInv, TypeOK
  <2>3. cpc' \in ClientLabel /\ c_open' \in BOOLEAN
    BY DEF ClientLabel
  <2>4. UNCHANGED <<store, mine, server, s_open, reply, fate>>
    OBVIOUS
  <2> HIDE DEF ClientDies
  <2> QED
    BY <2>2, <2>3, <2>4 DEF TransferInv, TypeOK
<1>2. Phases' /\ DiskInv' /\ LookupInv' /\ DiskHoldsSize'
  BY TransferParts DEF TransferInv, Phases, DiskInv, LookupInv, Content, DiskHoldsSize, OnDisk, Uploading
<1>3. BytesUnderWay' /\ SentInv'
  BY TransferParts DEF TransferInv, TypeOK, BytesUnderWay, SentInv, Phases, Uploading, Remaining
<1>4. UploadInv' /\ StoredInv' /\ DownloadInv'
  BY TransferParts DEF TransferInv, TypeOK, Phases, DiskInv, LookupInv, Rows, SentInv, UploadInv, StoredInv, DownloadInv,
     Uploading, Downloading, OnDisk
<1> QED
  BY <1>1, <1>2, <1>3, <1>4 DEF TransferInv

LEMMA GetEndsKeeps == TransferInv /\ GetEnds => TransferInv'
<1> SUFFICES ASSUME TransferInv, GetEnds PROVE TransferInv'
  OBVIOUS
<1> USE DEF GetEnds, store, client, mine, sent, server, handler, lookup, history, block, wire, fate, ClientAt
<1>1. TypeOK'
  BY TransferAssumption DEF TransferInv, TypeOK, ClientLabel
<1>2. Phases' /\ DiskInv' /\ LookupInv' /\ DiskHoldsSize'
  BY TransferParts DEF TransferInv, Phases, DiskInv, LookupInv, Content, DiskHoldsSize, OnDisk, Uploading
<1>3. BytesUnderWay' /\ SentInv'
  BY TransferParts DEF TransferInv, TypeOK, BytesUnderWay, SentInv, Phases, Uploading, Remaining
<1>4. UploadInv' /\ StoredInv' /\ DownloadInv'
  BY TransferParts DEF TransferInv, TypeOK, Phases, DiskInv, LookupInv, Rows, SentInv, UploadInv, StoredInv, DownloadInv,
     Uploading, Downloading, OnDisk
<1> QED
  BY <1>1, <1>2, <1>3, <1>4 DEF TransferInv

LEMMA SizeFoundKeeps == TransferInv /\ SizeFound => TransferInv'
<1> SUFFICES ASSUME TransferInv, SizeFound PROVE TransferInv'
  OBVIOUS
<1> USE DEF SizeFound, ClientAt, store, mine, sent, handler, lookup, history, block, fate
<1>1. /\ spc = "command" /\ s_open /\ local = << >> /\ data = << >>
      /\ size = 0 /\ c_open
      /\ ~torn => filesize \in Nat /\ filesize <= Len(OnDisk)
  BY DEF TransferInv, Phases, DiskInv, LookupInv
<1>2. TypeOK'
  <2>1. /\ cpc' \in ClientLabel /\ spc' \in ServerLabel
        /\ reply' \in {0, 213, 226, 550}
    BY DEF ClientLabel, ServerLabel
  <2>2. UNCHANGED <<store, mine, handler, data, c_open, s_open, fate>>
    OBVIOUS
  <2> HIDE DEF SizeFound
  <2> QED
    BY <2>1, <2>2 DEF TransferInv, TypeOK
<1>3. Phases' /\ DiskInv' /\ LookupInv' /\ DiskHoldsSize'
  BY <1>1 DEF TransferInv, Phases, DiskInv, LookupInv, DiskHoldsSize, OnDisk, Uploading
<1>4. BytesUnderWay' /\ SentInv' /\ UploadInv' /\ StoredInv'
  BY DEF BytesUnderWay, SentInv, UploadInv, StoredInv, Uploading
<1>5. DownloadInv'
  <2>1. Len(local) = 0 /\ Len(data) = 0 /\ BufSize \in Nat \ {0} /\ OnDisk' = OnDisk
    BY <1>1, EmptySeq, TransferAssumption DEF OnDisk
  <2> QED
    BY <1>1, <2>1 DEF DownloadInv, Downloading
<1> QED
  BY <1>2, <1>3, <1>4, <1>5 DEF TransferInv

(* The first query of the two handlers: what it finds has the path.        *)
LEMMA FindKeeps == TransferInv /\ (SizeFind \/ RetrFind) => TransferInv'
<1> SUFFICES ASSUME TransferInv, SizeFind \/ RetrFind PROVE TransferInv'
  OBVIOUS
<1>1. /\ \/ spc = "size" /\ spc' = "stat"
         \/ spc = "retr" /\ spc' = "open"
      /\ found' \in Rows
      /\ UNCHANGED <<store, client, md5sum, fd, block, history, wire, fate>>
  <2>1. CASE SizeFind
    <3>1. Find("size", "stat")
      BY <2>1 DEF SizeFind
    <3> QED
      BY <3>1 DEF Find, ServerAt
  <2>2. CASE RetrFind
    <3>1. Find("retr", "open")
      BY <2>2 DEF RetrFind
    <3> QED
      BY <3>1 DEF Find, ServerAt
  <2> QED
    BY <2>1, <2>2
<1> USE DEF store, client, mine, sent, block, history, wire, fate
<1>2. found' \in Row /\ found'.path = path
  BY <1>1 DEF Rows, TransferInv, TypeOK
<1>3. TypeOK'
  BY <1>1, <1>2 DEF TransferInv, TypeOK, ServerLabel
<1>4. Phases' /\ DiskInv' /\ LookupInv' /\ DiskHoldsSize'
  BY <1>1, <1>2 DEF TransferInv, Phases, DiskInv, LookupInv, DiskHoldsSize, OnDisk, Uploading
<1>5. BytesUnderWay' /\ SentInv' /\ UploadInv' /\ StoredInv'
  BY <1>1 DEF TransferInv, Phases, BytesUnderWay, SentInv, UploadInv, StoredInv, Uploading, OnDisk
<1>6. DownloadInv'
  BY <1>1 DEF TransferInv, Phases, DownloadInv, Downloading, Rows, OnDisk
<1> QED
  BY <1>3, <1>4, <1>5, <1>6 DEF TransferInv

(* The answer to SIZE: a size from a row is on the disk.                   *)
LEMMA SizeAnswerKeeps ==
  TransferInv /\ (SizeMissing \/ SizeStat \/ SizeDirectory) => TransferInv'
<1> SUFFICES ASSUME TransferInv, SizeMissing \/ SizeStat \/ SizeDirectory
             PROVE  TransferInv'
  OBVIOUS
<1>1. /\ spc \in {"size", "stat"} /\ spc' = "command" /\ found' = NoRow
      /\ reply' \in {213, 550} /\ torn' \in BOOLEAN
      /\ UNCHANGED <<store, cpc, path, local, sent, md5sum, fd, block, before, data,
                     c_open, s_open, fate>>
      /\ reply' = 213 => /\ spc = "stat" /\ torn' = Gone
                         /\ filesize' \in IF Gone THEN StaleSize ELSE {found.size}
      /\ reply' # 213 => filesize' = filesize
  <2> USE DEF SizeAnswer, ServerAt
  <2>1. torn \in BOOLEAN /\ Gone \in BOOLEAN
    BY DEF TransferInv, TypeOK, Gone
  <2>2. CASE SizeMissing
    BY <2>1, <2>2 DEF SizeMissing
  <2>3. CASE SizeStat
    BY <2>1, <2>3 DEF SizeStat
  <2>4. CASE SizeDirectory
    BY <2>1, <2>4 DEF SizeDirectory
  <2> QED
    BY <2>2, <2>3, <2>4
<1> USE DEF store, sent, block, fate
<1>2. /\ found \in Row
      /\ ~Gone /\ spc = "stat" => found.path = path /\ found.size <= Len(OnDisk)
  BY DEF TransferInv, TypeOK, Gone, LookupInv, DiskHoldsSize, OnDisk
<1>3. /\ filesize' \in Nat \cup StaleSize
      /\ reply' = 213 /\ ~torn' => filesize' \in Nat /\ filesize' <= Len(OnDisk)
  BY <1>1, <1>2 DEF TransferInv, TypeOK, Row
<1>4. TypeOK'
  <2>1. spc' \in ServerLabel /\ found' \in Row /\ reply' \in {0, 213, 226, 550}
    BY <1>1, ResetFacts DEF ServerLabel
  <2> QED
    BY <1>1, <1>3, <2>1 DEF TransferInv, TypeOK
<1>5. Phases' /\ DiskInv' /\ LookupInv' /\ DiskHoldsSize'
  BY <1>1, <1>3 DEF TransferInv, Phases, DiskInv, LookupInv, DiskHoldsSize, OnDisk, Uploading
<1>6. /\ BytesUnderWay' /\ SentInv' /\ UploadInv' /\ StoredInv' /\ DownloadInv'
  BY <1>1 DEF TransferInv, Phases, BytesUnderWay, SentInv, UploadInv, StoredInv,
     DownloadInv, Uploading, Downloading
<1> QED
  BY <1>4, <1>5, <1>6 DEF TransferInv

LEMMA StorRefusedKeeps == TransferInv /\ StorRefused => TransferInv'
<1> SUFFICES ASSUME TransferInv, StorRefused PROVE TransferInv'
  OBVIOUS
<1> USE DEF StorRefused, store, client, mine, sent, server, handler, lookup, history, block, wire, fate, ServerAt, Hangup
<1>1. TypeOK'
  <2>1. Hangup(550) /\ TypeOK
    BY DEF TransferInv
  <2>2. torn' \in BOOLEAN
    BY DEF TransferInv, TypeOK
  <2>3. UNCHANGED <<store, client, before, data, c_open, fate>>
    OBVIOUS
  <2> HIDE DEF StorRefused, Hangup
  <2> QED
    BY <2>1, <2>2, <2>3, HangupTypes
<1>2. Phases' /\ DiskInv' /\ LookupInv' /\ DiskHoldsSize'
  BY TransferParts DEF TransferInv, Phases, DiskInv, LookupInv, Content, DiskHoldsSize, OnDisk, Uploading
<1>3. BytesUnderWay' /\ SentInv'
  BY TransferParts DEF TransferInv, TypeOK, BytesUnderWay, SentInv, Phases, Uploading, Remaining
<1>4. UploadInv' /\ StoredInv' /\ DownloadInv'
  BY TransferParts DEF TransferInv, TypeOK, Phases, DiskInv, LookupInv, Rows, SentInv, UploadInv, StoredInv, DownloadInv,
     Uploading, Downloading, OnDisk
<1> QED
  BY <1>1, <1>2, <1>3, <1>4 DEF TransferInv

LEMMA StorReplyKeeps == TransferInv /\ StorReply => TransferInv'
<1> SUFFICES ASSUME TransferInv, StorReply PROVE TransferInv'
  OBVIOUS
<1> USE DEF StorReply, store, client, mine, sent, server, handler, lookup, history, block, wire, fate, ServerAt, Hangup
<1>1. TypeOK'
  <2>1. Hangup(226) /\ TypeOK
    BY DEF TransferInv
  <2>2. torn' \in BOOLEAN
    BY DEF TransferInv, TypeOK
  <2>3. UNCHANGED <<store, client, before, data, c_open, fate>>
    OBVIOUS
  <2> HIDE DEF StorReply, Hangup
  <2> QED
    BY <2>1, <2>2, <2>3, HangupTypes
<1>2. Phases' /\ DiskInv' /\ LookupInv' /\ DiskHoldsSize'
  BY TransferParts DEF TransferInv, Phases, DiskInv, LookupInv, Content, DiskHoldsSize, OnDisk, Uploading
<1>3. BytesUnderWay' /\ SentInv'
  BY TransferParts DEF TransferInv, TypeOK, BytesUnderWay, SentInv, Phases, Uploading, Remaining
<1>4. UploadInv' /\ StoredInv' /\ DownloadInv'
  BY TransferParts DEF TransferInv, TypeOK, Phases, DiskInv, LookupInv, Rows, SentInv, UploadInv, StoredInv, DownloadInv,
     Uploading, Downloading, OnDisk
<1> QED
  BY <1>1, <1>2, <1>3, <1>4 DEF TransferInv

LEMMA StorEndKeeps == TransferInv /\ StorEnd => TransferInv'
<1> SUFFICES ASSUME TransferInv, StorEnd PROVE TransferInv'
  OBVIOUS
<1> USE DEF StorEnd, store, client, mine, sent, server, handler, lookup, history, block, wire, fate, ServerAt
<1>1. TypeOK'
  <2>1. path \in Path /\ size \in Nat /\ left \in 0 .. MaxTransfers /\ file_tbl \subseteq Row
    BY DEF TransferInv, TypeOK
  <2>2. MaxTransfers - left \in 0 .. MaxTransfers
    BY <2>1, TransferAssumption
  <2>3. file_tbl' \subseteq Row /\ spc' \in ServerLabel
    BY <2>1, <2>2 DEF Row, ServerLabel
  <2>4. UNCHANGED <<disk, client, handler, wire, fate>>
    OBVIOUS
  <2> HIDE DEF StorEnd
  <2> QED
    BY <2>3, <2>4 DEF TransferInv, TypeOK
<1>2. Phases' /\ DiskInv' /\ LookupInv' /\ DiskHoldsSize'
  BY TransferParts DEF TransferInv, Phases, DiskInv, LookupInv, Content, DiskHoldsSize, OnDisk, Uploading
<1>3. BytesUnderWay' /\ SentInv'
  BY TransferParts DEF TransferInv, TypeOK, BytesUnderWay, SentInv, Phases, Uploading, Remaining
<1>4. UploadInv' /\ StoredInv' /\ DownloadInv'
  BY TransferParts DEF TransferInv, TypeOK, Phases, DiskInv, LookupInv, Rows, SentInv, UploadInv, StoredInv, DownloadInv,
     Uploading, Downloading, OnDisk
<1> QED
  BY <1>1, <1>2, <1>3, <1>4 DEF TransferInv

LEMMA RetrMissingKeeps == TransferInv /\ RetrMissing => TransferInv'
<1> SUFFICES ASSUME TransferInv, RetrMissing PROVE TransferInv'
  OBVIOUS
<1> USE DEF RetrMissing, store, client, mine, sent, server, handler, lookup, history, block, wire, fate, ServerAt, Hangup
<1>1. TypeOK'
  <2>1. Hangup(550) /\ TypeOK
    BY DEF TransferInv
  <2>2. torn' \in BOOLEAN
    BY DEF TransferInv, TypeOK
  <2>3. UNCHANGED <<store, client, before, data, c_open, fate>>
    OBVIOUS
  <2> HIDE DEF RetrMissing, Hangup
  <2> QED
    BY <2>1, <2>2, <2>3, HangupTypes
<1>2. Phases' /\ DiskInv' /\ LookupInv' /\ DiskHoldsSize'
  BY TransferParts DEF TransferInv, Phases, DiskInv, LookupInv, Content, DiskHoldsSize, OnDisk, Uploading
<1>3. BytesUnderWay' /\ SentInv'
  BY TransferParts DEF TransferInv, TypeOK, BytesUnderWay, SentInv, Phases, Uploading, Remaining
<1>4. UploadInv' /\ StoredInv' /\ DownloadInv'
  BY SMTT(30), TransferParts DEF TransferInv, TypeOK, Phases, DiskInv, LookupInv, Rows, SentInv, UploadInv, StoredInv, DownloadInv,
     Uploading, Downloading, OnDisk
<1> QED
  BY <1>1, <1>2, <1>3, <1>4 DEF TransferInv

LEMMA RetrUnreadableKeeps == TransferInv /\ RetrUnreadable => TransferInv'
<1> SUFFICES ASSUME TransferInv, RetrUnreadable PROVE TransferInv'
  OBVIOUS
<1> USE DEF RetrUnreadable, store, client, mine, sent, server, handler, lookup, history, block, wire, fate, ServerAt, Hangup
<1>1. TypeOK'
  <2>1. Hangup(0) /\ TypeOK
    BY DEF TransferInv
  <2>2. torn' \in BOOLEAN
    BY DEF TransferInv, TypeOK
  <2>3. UNCHANGED <<store, client, before, data, c_open, fate>>
    OBVIOUS
  <2> HIDE DEF RetrUnreadable, Hangup
  <2> QED
    BY <2>1, <2>2, <2>3, HangupTypes
<1>2. Phases' /\ DiskInv' /\ LookupInv' /\ DiskHoldsSize'
  BY TransferParts DEF TransferInv, Phases, DiskInv, LookupInv, Content, DiskHoldsSize, OnDisk, Uploading
<1>3. BytesUnderWay' /\ SentInv'
  BY TransferParts DEF TransferInv, TypeOK, BytesUnderWay, SentInv, Phases, Uploading, Remaining
<1>4. UploadInv' /\ StoredInv' /\ DownloadInv'
  BY SMTT(30), TransferParts DEF TransferInv, TypeOK, Phases, DiskInv, LookupInv, Rows, SentInv, UploadInv, StoredInv, DownloadInv,
     Uploading, Downloading, OnDisk
<1> QED
  BY <1>1, <1>2, <1>3, <1>4 DEF TransferInv

LEMMA RetrDirectoryKeeps == TransferInv /\ RetrDirectory => TransferInv'
<1> SUFFICES ASSUME TransferInv, RetrDirectory PROVE TransferInv'
  OBVIOUS
<1> USE DEF RetrDirectory, store, client, mine, sent, server, handler, lookup, history, block, wire, fate, ServerAt, Hangup
<1>1. TypeOK'
  <2>1. Hangup(550) /\ TypeOK
    BY DEF TransferInv
  <2>2. torn' \in BOOLEAN
    BY DEF TransferInv, TypeOK
  <2>3. UNCHANGED <<store, client, before, data, c_open, fate>>
    OBVIOUS
  <2> HIDE DEF RetrDirectory, Hangup
  <2> QED
    BY <2>1, <2>2, <2>3, HangupTypes
<1>2. Phases' /\ DiskInv' /\ LookupInv' /\ DiskHoldsSize'
  BY TransferParts DEF TransferInv, Phases, DiskInv, LookupInv, Content, DiskHoldsSize, OnDisk, Uploading
<1>3. BytesUnderWay' /\ SentInv'
  BY TransferParts DEF TransferInv, TypeOK, BytesUnderWay, SentInv, Phases, Uploading, Remaining
<1>4. UploadInv' /\ StoredInv' /\ DownloadInv'
  BY SMTT(30), TransferParts DEF TransferInv, TypeOK, Phases, DiskInv, LookupInv, Rows, SentInv, UploadInv, StoredInv, DownloadInv,
     Uploading, Downloading, OnDisk
<1> QED
  BY <1>1, <1>2, <1>3, <1>4 DEF TransferInv

LEMMA RetrOpenKeeps == TransferInv /\ RetrOpen => TransferInv'
<1> SUFFICES ASSUME TransferInv, RetrOpen PROVE TransferInv'
  OBVIOUS
<1>1. /\ spc = "open" /\ spc' = "send" /\ fd' = 0
      /\ md5sum' \in IF Gone THEN Name ELSE {path.name}
      /\ torn' = (torn \/ Gone)
      /\ UNCHANGED <<store, client, found, block, before, wire, fate>>
  BY DEF RetrOpen, ServerAt
<1> USE DEF store, client, mine, sent, block, wire, fate
<1>2. /\ md5sum' \in Name /\ torn' \in BOOLEAN
      /\ ~torn' => ~torn /\ md5sum' = path.name
  BY <1>1, TransferParts DEF TransferInv, TypeOK
<1>3. TypeOK'
  BY <1>1, <1>2 DEF TransferInv, TypeOK, ServerLabel
<1>4. size = 0 /\ cpc \in {"get", "got", "dead"} /\ Len(disk[md5sum'].bytes) \in Nat
  <2>1. disk[md5sum'].bytes \in Seq(Byte)
    BY <1>2 DEF TransferInv, TypeOK, File
  <2> QED
    BY <1>1, <2>1, LenProperties DEF TransferInv, Phases, DiskInv
<1>5. Phases' /\ DiskInv' /\ LookupInv' /\ DiskHoldsSize'
  BY <1>1, <1>2, <1>4 DEF TransferInv, Phases, DiskInv, LookupInv, Content, DiskHoldsSize,
     OnDisk, Uploading
<1>6. BytesUnderWay' /\ SentInv' /\ UploadInv' /\ StoredInv'
  BY <1>1, <1>4 DEF BytesUnderWay, SentInv, UploadInv, StoredInv, Uploading
<1>7. DownloadInv'
  <2>1. ASSUME ~torn' PROVE ~torn
    BY <1>2, <2>1
  <2>2. Len(<< >>) = 0 /\ OnDisk' = OnDisk /\ Len(OnDisk) \in Nat
    BY <1>1, EmptySeq, TransferParts DEF OnDisk
  <2> QED
    BY <1>1, <1>4, <2>1, <2>2 DEF TransferInv, DownloadInv, Downloading
<1> QED
  BY <1>3, <1>5, <1>6, <1>7 DEF TransferInv

LEMMA SendEndKeeps == TransferInv /\ SendEnd => TransferInv'
<1> SUFFICES ASSUME TransferInv, SendEnd PROVE TransferInv'
  OBVIOUS
<1> USE DEF SendEnd, store, client, mine, sent, server, handler, lookup, history, block, wire, fate, ServerAt, Hangup
<1>1. TypeOK'
  <2>1. Hangup(226) /\ TypeOK
    BY DEF TransferInv
  <2>2. torn' \in BOOLEAN
    BY DEF TransferInv, TypeOK
  <2>3. UNCHANGED <<store, client, before, data, c_open, fate>>
    OBVIOUS
  <2> HIDE DEF SendEnd, Hangup
  <2> QED
    BY <2>1, <2>2, <2>3, HangupTypes
<1>2. Phases' /\ DiskInv' /\ LookupInv' /\ DiskHoldsSize'
  BY TransferParts DEF TransferInv, Phases, DiskInv, LookupInv, Content, DiskHoldsSize, OnDisk, Uploading
<1>3. BytesUnderWay' /\ SentInv'
  BY TransferParts DEF TransferInv, TypeOK, BytesUnderWay, SentInv, Phases, Uploading, Remaining
<1>4. UploadInv' /\ StoredInv'
  BY DEF TransferInv, Phases, UploadInv, StoredInv, Uploading
<1>5. DownloadInv'
  <2>1. ~torn => Content = OnDisk
    BY DEF TransferInv, LookupInv, Content, OnDisk
  <2>2. ~torn /\ Downloading => Len(local) + Len(data) >= Len(OnDisk)
    BY <2>1, TransferParts DEF TransferInv, TypeOK, DownloadInv
  <2>3. OnDisk' = OnDisk
    BY DEF OnDisk
  <2> QED
    BY <2>2, <2>3 DEF TransferInv, DownloadInv, Downloading
<1> QED
  BY <1>1, <1>2, <1>3, <1>4, <1>5 DEF TransferInv

LEMMA StartGetKeeps ==
  ASSUME TransferInv, NEW p \in Path, StartGet(p)
  PROVE  TransferInv'
<1> USE DEF StartGet, Connect, Ready, ClientAt, store, sent, server, handler, lookup, history, block
<1>1. /\ << >> \in Seq(Byte \cup {Zero}) /\ Len(<< >>) = 0 /\ 0 <= StreamCap
      /\ left - 1 \in 0 .. MaxTransfers
  BY EmptySeq, TransferAssumption DEF TransferInv, TypeOK
<1>2. TypeOK'
  BY <1>1 DEF TransferInv, TypeOK, ClientLabel, ServerLabel
<1>3. Phases' /\ DiskInv' /\ LookupInv' /\ DiskHoldsSize'
  BY DEF TransferInv, Phases, DiskInv, LookupInv, Content, DiskHoldsSize, Uploading
<1>4. BytesUnderWay' /\ SentInv' /\ UploadInv' /\ StoredInv' /\ DownloadInv'
  BY DEF BytesUnderWay, SentInv, UploadInv, StoredInv, DownloadInv, Uploading, Downloading
<1> QED
  BY <1>2, <1>3, <1>4 DEF TransferInv

LEMMA StartPutKeeps ==
  ASSUME TransferInv, NEW p \in Path, NEW file \in LocalFile, StartPut(p, file)
  PROVE  TransferInv'
<1> USE DEF StartPut, Connect, Ready, ClientAt, store, sent, server, handler, lookup, history, block
<1>1. /\ << >> \in Seq(Byte \cup {Zero}) /\ << >> \in Seq(Byte) /\ Len(<< >>) = 0
      /\ 0 <= StreamCap /\ left - 1 \in 0 .. MaxTransfers
  BY EmptySeq, TransferAssumption DEF TransferInv, TypeOK
<1>2. /\ file \in Seq(Byte) /\ file \in Seq(Byte \cup {Zero}) /\ Len(file) \in Nat
  BY TransferAssumption, LenProperties
<1>3. /\ disk[p.name].bytes \in Seq(Byte) /\ Len(disk[p.name].bytes) \in Nat
      /\ OnDisk' = before'
  <2>1. p.name \in Name
    BY DEF Path
  <2>2. disk[p.name] \in File
    BY <2>1 DEF TransferInv, TypeOK
  <2> QED
    BY <2>2, LenProperties DEF File, OnDisk
<1>4. curr_size = 0 /\ copied = 0 /\ short = FALSE /\ size = 0
  BY DEF TransferInv, TypeOK, Phases, DiskInv
<1>5. TypeOK'
  BY <1>1, <1>2, <1>3, <1>4 DEF TransferInv, TypeOK, ClientLabel, ServerLabel
<1>6. Phases' /\ DiskInv' /\ LookupInv' /\ DiskHoldsSize'
  BY DEF TransferInv, Phases, DiskInv, LookupInv, Content, DiskHoldsSize, Uploading
<1>7. BytesUnderWay' /\ SentInv' /\ StoredInv' /\ DownloadInv'
  BY <1>1, <1>2, <1>4 DEF BytesUnderWay, SentInv, StoredInv, DownloadInv, Uploading, Downloading
<1>8. UploadInv'
  BY <1>1, <1>2, <1>3, <1>4 DEF UploadInv, Uploading
<1> QED
  BY <1>5, <1>6, <1>7, <1>8 DEF TransferInv

LEMMA StorOpenKeeps == TransferInv /\ StorOpen => TransferInv'
<1> SUFFICES ASSUME TransferInv, StorOpen PROVE TransferInv'
  OBVIOUS
<1> USE DEF StorOpen, ServerAt, client, mine, sent, handler, lookup, history, block, wire, fate
<1>1. /\ path \in Path /\ path.name \in Name
      /\ disk \in [Name -> File] /\ disk[path.name] \in File
      /\ size = 0 /\ Len(OnDisk) \in Nat
  BY TransferParts DEF TransferInv, TypeOK, DiskInv
<1>2. /\ disk' \in [Name -> File]
      /\ \A n \in Name \ {path.name} : disk'[n] = disk[n]
      /\ disk'[path.name].exists /\ disk'[path.name].bytes = OnDisk
  <2>1. CASE disk[path.name].exists
    BY <1>1, <2>1 DEF OnDisk
  <2>2. CASE ~disk[path.name].exists
    <3>1. OnDisk = << >>
      BY <1>1, <2>2 DEF TransferInv, DiskInv, OnDisk
    <3>2. PICK u \in BOOLEAN :
            disk' = [disk EXCEPT ![path.name] =
                       [exists |-> TRUE, usable |-> u, bytes |-> << >>]]
      BY <2>2
    <3>3. [exists |-> TRUE, usable |-> u, bytes |-> << >>] \in File
      BY EmptySeq DEF File
    <3> QED
      BY <1>1, <3>1, <3>2, <3>3
  <2> QED
    BY <2>1, <2>2
<1>3. OnDisk' = OnDisk
  BY <1>2 DEF OnDisk
<1>4. TypeOK'
  BY <1>2 DEF TransferInv, TypeOK, ServerLabel
<1>5. DiskHoldsSize'
  <2> SUFFICES ASSUME NEW r \in file_tbl
               PROVE  disk'[r.path.name].exists /\ r.size <= Len(disk'[r.path.name].bytes)
    BY DEF DiskHoldsSize
  <2>1. /\ r.path.name \in Name
        /\ disk[r.path.name].exists /\ r.size <= Len(disk[r.path.name].bytes)
    BY DEF TransferInv, TypeOK, DiskHoldsSize, Path, Row
  <2> QED
    BY <1>2, <2>1 DEF OnDisk
<1>6. DiskInv' /\ Phases' /\ LookupInv'
  BY <1>1, <1>2, <1>3 DEF TransferInv, DiskInv, Phases, LookupInv, Uploading
<1>7. BytesUnderWay' /\ SentInv'
  BY DEF TransferInv, BytesUnderWay, SentInv, Uploading
<1>8. UploadInv' /\ StoredInv' /\ DownloadInv'
  BY <1>3 DEF TransferInv, Phases, UploadInv, StoredInv, DownloadInv, Uploading, Downloading
<1> QED
  BY <1>4, <1>5, <1>6, <1>7, <1>8 DEF TransferInv

LEMMA PutSendKeeps == TransferInv /\ PutSend => TransferInv'
<1> SUFFICES ASSUME TransferInv, PutSend PROVE TransferInv'
  OBVIOUS
<1> USE DEF PutSend, ClientAt, store, server, handler, lookup, history, block, fate
<1>1. PICK k \in 1 .. Minimum(IF s_open THEN Room ELSE Remaining, Remaining - copied) :
        /\ data' = IF s_open THEN data \o SubSeq(local, copied + 1, copied + k)
                   ELSE data
        /\ IF copied + k = Remaining
           THEN curr_size' = Len(local) /\ copied' = 0
           ELSE copied' = copied + k /\ UNCHANGED curr_size
  OBVIOUS
<1>2. /\ local \in Seq(Byte) /\ data \in Seq(Byte \cup {Zero}) /\ Len(local) \in Nat /\ Len(data) \in Nat
      /\ curr_size \in Nat /\ copied \in Nat /\ size \in Nat
      /\ curr_size + copied <= Len(local)
      /\ ~short /\ curr_size # 0 => curr_size = Len(local)
      /\ spc \in {"command", "stor", "recv"}
      /\ spc # "command" => s_open
  BY TransferParts DEF TransferInv, TypeOK, Phases, BytesUnderWay, SentInv, Uploading, ServerLabel
<1>3. /\ k \in Nat \ {0} /\ k <= Len(local) - curr_size - copied
      /\ s_open => k <= StreamCap - Len(data)
  BY <1>2, TransferAssumption DEF Minimum, Remaining, Room
<1>4. /\ curr_size' \in Nat /\ copied' \in Nat
      /\ curr_size' + copied' = curr_size + copied + k
      /\ curr_size' + copied' <= Len(local)
      /\ curr_size' # curr_size => curr_size' = Len(local)
  BY SMTT(30), <1>1, <1>2, <1>3 DEF Remaining
<1>5. PICK part : part = SubSeq(local, copied + 1, copied + k)
  OBVIOUS
<1>6. /\ part \in Seq(Byte) /\ Len(part) = k
      /\ \A i \in 1 .. k : part[i] = local[copied + i]
  <2>1. local \in Seq(Byte) /\ copied \in Nat /\ k \in Nat /\ copied + k <= Len(local)
    BY <1>2, <1>3
  <2>2. /\ SubSeq(local, copied + 1, copied + k) \in Seq(Byte)
        /\ Len(SubSeq(local, copied + 1, copied + k)) = k
        /\ \A i \in 1 .. k : SubSeq(local, copied + 1, copied + k)[i] = local[copied + i]
    BY ONLY <2>1, PartFacts
  <2> QED
    BY ONLY <1>5, <2>2
<1>7. ASSUME s_open
      PROVE  /\ data' \in Seq(Byte \cup {Zero})
             /\ data \in Seq(Byte) => data' \in Seq(Byte)
             /\ Len(data') = Len(data) + k
             /\ \A i \in 1 .. Len(data') :
                  data'[i] = IF i <= Len(data) THEN data[i] ELSE part[i - Len(data)]
  <2>1. PICK all : all = data \o part
    OBVIOUS
  <2>2. data' = all
    BY <1>1, <1>5, <1>7, <2>1
  <2>3. part \in Seq(Byte \cup {Zero})
    BY <1>6, LenProperties
  <2>4. /\ all \in Seq(Byte \cup {Zero})
        /\ Len(all) = Len(data) + Len(part)
        /\ \A i \in 1 .. Len(all) :
             all[i] = IF i <= Len(data) THEN data[i] ELSE part[i - Len(data)]
    BY <1>2, <2>1, <2>3, AppendFacts
  <2>5. data \in Seq(Byte) => all \in Seq(Byte)
    BY <1>6, <2>1, AppendFacts
  <2> HIDE DEF PutSend
  <2> QED
    BY <1>6, <2>2, <2>4, <2>5
<1>8. TypeOK'
  <2>1. data' \in Seq(Byte \cup {Zero}) /\ Len(data') <= StreamCap
    BY <1>1, <1>2, <1>3, <1>7, TransferAssumption DEF TransferInv, TypeOK
  <2>2. curr_size' \in 0 .. Len(local) /\ copied' \in 0 .. Len(local)
    BY <1>2, <1>4
  <2> QED
    BY <2>1, <2>2 DEF TransferInv, TypeOK
<1>9. Phases' /\ DiskInv' /\ LookupInv' /\ DiskHoldsSize'
  BY DEF TransferInv, Phases, DiskInv, LookupInv, Content, DiskHoldsSize, OnDisk, Uploading
<1>10. BytesUnderWay' /\ SentInv'
  BY <1>1, <1>2, <1>4, <1>7 DEF TransferInv, BytesUnderWay, SentInv, Uploading
<1>11. UploadInv'
  <2> SUFFICES ASSUME spc # "command" PROVE UploadInv'
    BY DEF UploadInv
  <2>1. s_open /\ size + Len(data) = curr_size + copied
    BY DEF TransferInv, Phases, UploadInv, Uploading
  <2>2. size' + Len(data)' = curr_size' + copied'
    <3>1. Len(data') = Len(data) + k /\ size' = size
      BY <1>7, <2>1
    <3>2. curr_size' + copied' = curr_size + copied + k
      BY <1>4
    <3> HIDE DEF PutSend
    <3> QED
      BY SMTT(30), <1>2, <1>3, <2>1, <3>1, <3>2
  <2>3. ASSUME ~short, NEW i \in 1 .. Len(data')
        PROVE  data'[i] = local[size + i]
    <3>1. CASE i <= Len(data)
      <4>1. i \in 1 .. Len(data) /\ data'[i] = data[i]
        BY <1>2, <1>7, <2>1, <3>1
      <4>2. \A j \in 1 .. Len(data) : data[j] = local[size + j]
        BY <2>3 DEF TransferInv, UploadInv, Uploading
      <4> QED
        BY <4>1, <4>2
    <3>2. CASE i > Len(data)
      <4>1. curr_size = 0 /\ copied = size + Len(data)
        BY <1>2, <1>3, <2>1, <2>3
      <4>2. i - Len(data) \in 1 .. k
        BY <1>2, <1>3, <1>7, <2>1, <3>2
      <4>3. part[i - Len(data)] = local[copied + (i - Len(data))]
        BY <1>6, <4>2
      <4>4. copied + (i - Len(data)) = size + i
        BY <1>2, <4>1
      <4>5. data'[i] = part[i - Len(data)]
        BY SMTT(30), <1>2, <1>7, <2>1, <3>2
      <4> QED
        BY <4>3, <4>4, <4>5
    <3> QED
      BY SMTT(30), <1>2, <3>1, <3>2
  <2> QED
    BY <2>2, <2>3 DEF TransferInv, UploadInv, Uploading, OnDisk
<1>12. StoredInv' /\ DownloadInv'
  BY DEF StoredInv, DownloadInv, Downloading
<1> QED
  BY <1>8, <1>9, <1>10, <1>11, <1>12 DEF TransferInv

LEMMA StorRecvKeeps == TransferInv /\ StorRecv => TransferInv'
<1> SUFFICES ASSUME TransferInv, StorRecv PROVE TransferInv'
  OBVIOUS
<1> USE DEF ServerAt, client, mine, sent, lookup, history, fate
<1>1. PICK k \in Receivable :
        /\ disk' = [disk EXCEPT ![path.name].bytes =
                     SubSeq(OnDisk, 1, size) \o Received(k) \o Drop(OnDisk, size + k)]
        /\ size' = size + k
        /\ data' = Drop(data, k)
  BY DEF StorRecv
<1>2. /\ spc = "recv" /\ cpc \in {"put", "stored", "dead"}
      /\ UNCHANGED <<file_tbl, client, spc, lookup, fd, buf, history, c_open, s_open,
                     reply, fate>>
  BY DEF StorRecv, TransferInv, Phases
<1>3. /\ OnDisk \in Seq(Byte) /\ data \in Seq(Byte) /\ size \in 0 .. Len(OnDisk)
      /\ Len(OnDisk) \in Nat /\ Len(data) \in Nat /\ Len(local) \in Nat /\ Len(before) \in Nat
      /\ path.name \in Name /\ disk \in [Name -> File] /\ disk[path.name].exists
      /\ reply = 0
  BY <1>2, TransferParts DEF TransferInv, TypeOK, Phases, DiskInv, BytesUnderWay
<1>4. k \in 1 .. Len(data) /\ size + k \in Nat
  BY <1>3, TransferAssumption DEF Receivable, Minimum
<1>5. PICK got : got = SubSeq(data, 1, k)
  OBVIOUS
<1>6. /\ got \in Seq(Byte) /\ Len(got) = k
      /\ \A i \in 1 .. k : got[i] = data[i]
  BY <1>3, <1>4, <1>5, PrefixFacts
<1>7. /\ data' \in Seq(Byte) /\ Len(data') = Len(data) - k
      /\ \A i \in 1 .. Len(data') : data'[i] = data[k + i]
  BY SMTT(30), <1>1, <1>3, <1>4, DropFacts
<1>8. PICK file : file = SubSeq(OnDisk, 1, size) \o got \o Drop(OnDisk, size + k)
  OBVIOUS
<1>9. /\ file \in Seq(Byte)
      /\ Len(file) = IF size + k > Len(OnDisk) THEN size + k ELSE Len(OnDisk)
      /\ \A i \in 1 .. Len(file) :
           file[i] = IF i <= size THEN OnDisk[i]
                     ELSE IF i <= size + k THEN got[i - size] ELSE OnDisk[i]
  <2>1. PICK m \in Nat : m = size + k
    BY <1>4
  <2>2. m = size + Len(got) /\ size \in 0 .. Len(OnDisk)
    BY <1>3, <1>6, <2>1
  <2>3. OnDisk \in Seq(Byte) /\ got \in Seq(Byte)
    BY <1>3, <1>6
  <2>4. file = SubSeq(OnDisk, 1, size) \o got \o Drop(OnDisk, m)
    BY <1>8, <2>1
  <2>5. /\ file \in Seq(Byte)
        /\ Len(file) = IF m > Len(OnDisk) THEN m ELSE Len(OnDisk)
        /\ \A i \in 1 .. Len(file) :
             file[i] = IF i <= size THEN OnDisk[i]
                       ELSE IF i <= m THEN got[i - size] ELSE OnDisk[i]
    BY ZenonT(60), <2>1, <2>2, <2>3, <2>4, OverwriteFacts
  <2> QED
    BY <2>1, <2>5
<1>10. /\ disk' \in [Name -> File] /\ OnDisk' = file
       /\ \A n \in Name : disk'[n].exists = disk[n].exists
       /\ \A n \in Name \ {path.name} : disk'[n] = disk[n]
  <2>1. disk' = [disk EXCEPT ![path.name].bytes = file]
    BY <1>1, <1>5, <1>8 DEF Received
  <2> QED
    BY <1>2, <1>3, <1>9, <2>1 DEF File, OnDisk
<1>11. TypeOK'
  <2>1. data' \in Seq(Byte \cup {Zero}) /\ Len(data') <= StreamCap
    BY SMTT(30), <1>3, <1>4, <1>7, TransferAssumption DEF TransferInv, TypeOK
  <2> QED
    BY SMTT(30), <1>1, <1>2, <1>4, <1>10, <2>1 DEF TransferInv, TypeOK
<1>12. Phases' /\ BytesUnderWay' /\ SentInv'
  BY <1>2, <1>7 DEF TransferInv, Phases, BytesUnderWay, SentInv, Uploading
<1>13. DiskInv' /\ LookupInv'
  BY <1>1, <1>2, <1>3, <1>4, <1>9, <1>10 DEF TransferInv, DiskInv, LookupInv
<1>14. DiskHoldsSize'
  <2> SUFFICES ASSUME NEW r \in file_tbl
               PROVE  disk'[r.path.name].exists /\ r.size <= Len(disk'[r.path.name].bytes)
    BY <1>2 DEF DiskHoldsSize
  <2>1. /\ r.path.name \in Name /\ r.size \in Nat
        /\ disk[r.path.name].exists /\ r.size <= Len(disk[r.path.name].bytes)
    BY DEF TransferInv, TypeOK, DiskHoldsSize, Path, Row
  <2>2. CASE r.path.name = path.name
    BY SMTT(30), <1>2, <1>3, <1>4, <1>9, <1>10, <2>1, <2>2 DEF OnDisk
  <2>3. CASE r.path.name # path.name
    BY <1>10, <2>1, <2>3
  <2> QED
    BY <2>2, <2>3
<1>15. UploadInv'
  <2> SUFFICES ASSUME Uploading
               PROVE  UploadInv'
    BY <1>2 DEF UploadInv, Uploading
  <2>1. /\ size + Len(data) = curr_size + copied
        /\ Len(OnDisk) = IF size > Len(before) THEN size ELSE Len(before)
        /\ \A i \in size + 1 .. Len(OnDisk) : OnDisk[i] = before[i]
        /\ ~short => /\ \A i \in 1 .. size : OnDisk[i] = local[i]
                     /\ \A i \in 1 .. Len(data) : data[i] = local[size + i]
    BY <1>2 DEF TransferInv, UploadInv
  <2>2. size' + Len(data)' = curr_size + copied
    BY <1>1, <1>3, <1>4, <1>7, <2>1
  <2>3. Len(file) = IF size' > Len(before) THEN size' ELSE Len(before)
    BY <1>1, <1>3, <1>4, <1>9, <2>1
  <2>4. ASSUME NEW i \in size' + 1 .. Len(file)
        PROVE  file[i] = before[i]
    <3>1. i \in 1 .. Len(file) /\ i > size + k /\ ~(i <= size)
      BY <1>1, <1>3, <1>4, <1>9
    <3>2. i \in size + 1 .. Len(OnDisk) /\ file[i] = OnDisk[i]
      BY <1>3, <1>4, <1>9, <3>1
    <3> QED
      BY <2>1, <3>2
  <2>5. ASSUME ~short, NEW i \in 1 .. size'
        PROVE  file[i] = local[i]
    <3>1. i \in 1 .. Len(file) /\ i <= size + k
      BY <1>1, <1>3, <1>4, <1>9
    <3>2. CASE i <= size
      BY <1>3, <1>9, <2>1, <2>5, <3>1, <3>2
    <3>3. CASE i > size
      <4>1. i - size \in 1 .. k /\ i - size \in 1 .. Len(data) /\ size + (i - size) = i
        BY <1>3, <1>4, <3>1, <3>3
      <4>2. file[i] = got[i - size] /\ got[i - size] = data[i - size]
        BY <1>3, <1>6, <1>9, <3>1, <3>3, <4>1
      <4>3. data[i - size] = local[size + (i - size)]
        BY <2>1, <2>5, <4>1
      <4> QED
        BY <4>1, <4>2, <4>3
    <3> QED
      BY <1>3, <3>2, <3>3
  <2>6. ASSUME ~short, NEW i \in 1 .. Len(data')
        PROVE  data'[i] = local[size' + i]
    <3>1. k + i \in 1 .. Len(data) /\ size' + i = size + (k + i)
      <4>1. size' = size + k /\ size \in Nat /\ k \in Nat /\ Len(data) \in Nat
        BY <1>1, <1>3, <1>4
      <4>2. i \in 1 .. Len(data) - k
        BY <1>7, <2>6
      <4> QED
        BY ONLY <4>1, <4>2
    <3> QED
      BY <1>7, <2>1, <2>6, <3>1
  <2> QED
    BY <1>2, <1>10, <2>2, <2>3, <2>4, <2>5, <2>6 DEF UploadInv, Uploading
<1>16. StoredInv' /\ DownloadInv'
  BY <1>2, <1>3 DEF StoredInv, DownloadInv, Downloading
<1> QED
  BY <1>11, <1>12, <1>13, <1>14, <1>15, <1>16 DEF TransferInv

LEMMA GetRecvKeeps == TransferInv /\ GetRecv => TransferInv'
<1> SUFFICES ASSUME TransferInv, GetRecv PROVE TransferInv'
  OBVIOUS
<1> USE DEF ClientAt, store, sent, server, handler, lookup, history, block, fate
<1>1. PICK k \in Receivable : /\ local' = local \o Received(k)
                              /\ data' = Drop(data, k)
  BY DEF GetRecv
<1>2. /\ cpc = "get" /\ Len(local) < filesize
      /\ UNCHANGED <<store, cpc, path, filesize, sent, server, c_open, s_open, reply, fate>>
  BY DEF GetRecv
<1>3. /\ local \in Seq(Byte \cup {Zero}) /\ data \in Seq(Byte \cup {Zero})
      /\ Len(local) \in Nat /\ Len(data) \in Nat /\ Len(OnDisk) \in Nat
      /\ filesize \in Int /\ size \in Nat
  BY TransferParts, TransferAssumption DEF TransferInv, TypeOK
<1>4. k \in 1 .. Len(data) /\ k <= BufSize
  BY <1>3, TransferAssumption DEF Receivable, Minimum
<1>5. PICK got : got = SubSeq(data, 1, k)
  OBVIOUS
<1>6. /\ got \in Seq(Byte \cup {Zero}) /\ Len(got) = k
      /\ \A i \in 1 .. k : got[i] = data[i]
  BY <1>3, <1>4, <1>5, PrefixFacts
<1>7. /\ data' \in Seq(Byte \cup {Zero}) /\ Len(data') = Len(data) - k
      /\ \A i \in 1 .. Len(data') : data'[i] = data[k + i]
  <2>1. PICK rest : rest = Drop(data, k)
    OBVIOUS
  <2>2. /\ rest \in Seq(Byte \cup {Zero})
        /\ Len(rest) = IF k <= Len(data) THEN Len(data) - k ELSE 0
        /\ \A i \in 1 .. Len(data) - k : rest[i] = data[k + i]
    <3>1. k \in Nat
      BY <1>4
    <3> QED
      BY <1>3, <2>1, <3>1, DropFacts
  <2>3. data' = rest /\ Len(rest) = Len(data) - k
    BY <1>1, <1>3, <1>4, <2>1, <2>2
  <2> QED
    BY <2>2, <2>3
<1>8. /\ local' \in Seq(Byte \cup {Zero}) /\ Len(local') = Len(local) + k
      /\ \A i \in 1 .. Len(local') :
           local'[i] = IF i <= Len(local) THEN local[i] ELSE got[i - Len(local)]
  <2>1. local' = local \o got
    BY <1>1, <1>5 DEF Received
  <2>2. PICK all : all = local \o got
    OBVIOUS
  <2>3. /\ all \in Seq(Byte \cup {Zero})
        /\ Len(all) = Len(local) + Len(got)
        /\ \A i \in 1 .. Len(all) :
             all[i] = IF i <= Len(local) THEN local[i] ELSE got[i - Len(local)]
    <3>1. local \in Seq(Byte \cup {Zero}) /\ got \in Seq(Byte \cup {Zero})
      BY <1>3, <1>6
    <3> QED
      BY <2>2, <3>1, AppendFacts
  <2> QED
    BY <1>6, <2>1, <2>2, <2>3
<1>9. TypeOK'
  <2>1. Len(data') <= StreamCap
    BY <1>3, <1>4, <1>7, TransferAssumption DEF TransferInv, TypeOK
  <2>2. curr_size \in 0 .. Len(local') /\ copied \in 0 .. Len(local')
    BY <1>3, <1>4, <1>8 DEF TransferInv, TypeOK
  <2> QED
    BY <1>2, <1>7, <1>8, <2>1, <2>2 DEF TransferInv, TypeOK
<1>10. Phases' /\ DiskInv' /\ LookupInv' /\ DiskHoldsSize'
  BY <1>2 DEF TransferInv, Phases, DiskInv, LookupInv, Content, DiskHoldsSize, OnDisk, Uploading
<1>11. BytesUnderWay' /\ SentInv' /\ UploadInv' /\ StoredInv'
  BY <1>2, <1>7 DEF TransferInv, Phases, BytesUnderWay, SentInv, UploadInv, StoredInv, Uploading
<1>12. DownloadInv'
  <2> SUFFICES ASSUME ~torn PROVE DownloadInv'
    BY <1>2 DEF DownloadInv
  <2>1. /\ filesize \in Nat /\ filesize <= Len(OnDisk)
        /\ \A i \in 1 .. Len(local) : i <= Len(OnDisk) => local[i] = OnDisk[i]
        /\ \A i \in 1 .. Len(data) :
             Len(local) + i <= Len(OnDisk) => data[i] = OnDisk[Len(local) + i]
        /\ spc \in {"retr", "open"} => data = << >>
        /\ spc = "send" => IF size < Len(OnDisk)
                           THEN Len(local) + Len(data) = size
                           ELSE Len(local) + Len(data) >= Len(OnDisk)
        /\ spc = "command" => /\ ~s_open
                              /\ \/ reply = 550 /\ Rows = {}
                                 \/ ~disk[path.name].usable
                                 \/ Len(local) + Len(data) >= Len(OnDisk)
    BY <1>2 DEF TransferInv, DownloadInv, Downloading
  <2>2. OnDisk' = OnDisk /\ Rows' = Rows
    BY <1>2 DEF OnDisk, Rows
  <2>3. spc \notin {"retr", "open"}
    BY <1>4, <2>1, EmptySeq
  <2>4. Len(local') + Len(data') = Len(local) + Len(data)
    BY <1>3, <1>4, <1>7, <1>8
  <2>5. Len(local') < filesize + BufSize
    BY <1>2, <1>3, <1>4, <1>8, TransferAssumption
  <2>6. ASSUME NEW i \in 1 .. Len(local'), i <= Len(OnDisk)
        PROVE  local'[i] = OnDisk[i]
    <3>1. CASE i <= Len(local)
      BY <1>3, <1>8, <2>1, <2>6, <3>1
    <3>2. CASE i > Len(local)
      <4>1. /\ i - Len(local) \in 1 .. k /\ i - Len(local) \in 1 .. Len(data)
            /\ Len(local) + (i - Len(local)) = i
        BY <1>3, <1>4, <1>8, <3>2
      <4>2. local'[i] = got[i - Len(local)] /\ got[i - Len(local)] = data[i - Len(local)]
        BY <1>3, <1>6, <1>8, <3>2, <4>1
      <4>3. data[i - Len(local)] = OnDisk[Len(local) + (i - Len(local))]
        BY <2>1, <2>6, <4>1
      <4> QED
        BY <4>1, <4>2, <4>3
    <3> QED
      BY <1>3, <3>1, <3>2
  <2>7. ASSUME NEW i \in 1 .. Len(data'), Len(local') + i <= Len(OnDisk)
        PROVE  data'[i] = OnDisk[Len(local') + i]
    <3>1. k + i \in 1 .. Len(data) /\ Len(local') + i = Len(local) + (k + i)
      BY <1>3, <1>4, <1>7, <1>8
    <3> QED
      BY <1>7, <2>1, <2>7, <3>1
  <2> QED
    BY <1>2, <2>1, <2>2, <2>3, <2>4, <2>5, <2>6, <2>7 DEF DownloadInv, Downloading
<1> QED
  BY <1>9, <1>10, <1>11, <1>12 DEF TransferInv

LEMMA SendBlockKeeps == TransferInv /\ SendBlock => TransferInv'
<1> SUFFICES ASSUME TransferInv, SendBlock PROVE TransferInv'
  OBVIOUS
<1> USE DEF ServerAt, store, client, mine, sent, lookup, history, fate
<1>1. /\ spc = "send" /\ size < Len(Content)
      /\ Room >= BufSize \/ ~c_open
      /\ buf' = Block
      /\ size' = Minimum(size + BufSize, Len(Content))
      /\ data' = IF c_open THEN data \o buf' ELSE data
      /\ UNCHANGED <<store, client, spc, lookup, fd, history, c_open, s_open, reply, fate>>
  BY DEF SendBlock
<1>2. /\ Content \in Seq(Byte) /\ data \in Seq(Byte \cup {Zero})
      /\ Len(local) \in Nat /\ Len(data) \in Nat /\ Len(Content) \in Nat
      /\ size \in Nat /\ BufSize \in Nat \ {0} /\ StreamCap \in Nat
      /\ cpc \in {"get", "got", "dead"}
      /\ Content' = Content /\ OnDisk' = OnDisk /\ Rows' = Rows
  BY <1>1, TransferParts, TransferAssumption DEF TransferInv, TypeOK, Phases, Content,
     OnDisk, Rows
<1>3. /\ size' \in Nat /\ size' <= Len(Content)
      /\ size' < Len(Content) => size' = size + BufSize
      /\ size' >= Len(Content) => size + BufSize >= Len(Content)
  BY <1>1, <1>2 DEF Minimum
<1>4. /\ buf' \in [1 .. BufSize -> Byte \cup {Zero}]
      /\ \A i \in 1 .. BufSize : size + i <= Len(Content) => buf'[i] = Content[size + i]
  <2> DEFINE len == Minimum(BufSize, Len(Content) - size)
  <2>1. buf' = [i \in 1 .. BufSize |-> IF i <= len THEN Content[size + i] ELSE buf[i]]
    BY <1>1 DEF Block
  <2>2. \A i \in 1 .. BufSize : i <= len <=> size + i <= Len(Content)
    BY <1>1, <1>2 DEF Minimum
  <2> HIDE DEF len
  <2>3. ASSUME NEW i \in 1 .. BufSize PROVE buf'[i] \in Byte \cup {Zero}
    <3>1. CASE i <= len
      <4>1. size + i \in 1 .. Len(Content)
        BY <1>2, <2>2, <3>1
      <4> QED
        BY <1>2, <2>1, <3>1, <4>1, ElementOfSeq
    <3>2. CASE ~(i <= len)
      BY <2>1, <3>2 DEF TransferInv, TypeOK
    <3> QED
      BY <3>1, <3>2
  <2> QED
    BY <2>1, <2>2, <2>3
<1>5. ASSUME c_open
      PROVE  /\ data' \in Seq(Byte \cup {Zero}) /\ Len(data') = Len(data) + BufSize
             /\ Len(data') <= StreamCap
             /\ \A i \in 1 .. Len(data') :
                  data'[i] = IF i <= Len(data) THEN data[i] ELSE buf'[i - Len(data)]
  <2>1. PICK b : b = buf'
    OBVIOUS
  <2>2. b \in Seq(Byte \cup {Zero}) /\ Len(b) = BufSize
    BY <1>2, <1>4, <2>1, BufferFacts
  <2>3. data' = data \o b
    BY <1>1, <1>5, <2>1
  <2>4. PICK all : all = data \o b
    OBVIOUS
  <2>5. /\ all \in Seq(Byte \cup {Zero}) /\ Len(all) = Len(data) + Len(b)
        /\ \A i \in 1 .. Len(all) :
             all[i] = IF i <= Len(data) THEN data[i] ELSE b[i - Len(data)]
    BY <1>2, <2>2, <2>4, AppendFacts
  <2>6. Len(data) + BufSize <= StreamCap
    BY <1>1, <1>2, <1>5 DEF Room
  <2> QED
    BY <2>1, <2>2, <2>3, <2>4, <2>5, <2>6
<1>6. TypeOK'
  <2>1. data' \in Seq(Byte \cup {Zero}) /\ Len(data') <= StreamCap
    BY <1>1, <1>5 DEF TransferInv, TypeOK
  <2> QED
    BY <1>1, <1>3, <1>4, <2>1 DEF TransferInv, TypeOK
<1>7. Phases' /\ DiskInv' /\ LookupInv' /\ DiskHoldsSize'
  BY <1>1, <1>2, <1>3 DEF TransferInv, Phases, DiskInv, LookupInv, DiskHoldsSize, OnDisk, Uploading
<1>8. BytesUnderWay' /\ SentInv' /\ UploadInv' /\ StoredInv'
  BY <1>1, <1>2 DEF BytesUnderWay, SentInv, UploadInv, StoredInv, Uploading
<1>9. DownloadInv'
  <2> SUFFICES ASSUME Downloading, ~torn PROVE DownloadInv'
    BY <1>1 DEF DownloadInv, Downloading
  <2>6. Content = OnDisk
    BY <1>1 DEF TransferInv, LookupInv, Content, OnDisk
  <2>1. c_open
    BY DEF TransferInv, Phases, Downloading
  <2>2. /\ filesize \in Nat /\ filesize <= Len(OnDisk)
        /\ Len(local) < filesize + BufSize
        /\ cpc = "got" => Len(local) >= filesize
        /\ \A i \in 1 .. Len(local) : i <= Len(OnDisk) => local[i] = OnDisk[i]
        /\ \A i \in 1 .. Len(data) :
             Len(local) + i <= Len(OnDisk) => data[i] = OnDisk[Len(local) + i]
        /\ Len(local) + Len(data) = size
    BY <1>1, <2>6 DEF TransferInv, DownloadInv
  <2>3. Len(data') = Len(data) + BufSize
    BY <1>5, <2>1
  <2>4. IF size' < Len(OnDisk) THEN Len(local) + Len(data') = size'
                               ELSE Len(local) + Len(data') >= Len(OnDisk)
    <3>1. Len(local) + Len(data') = size + BufSize
      BY SMTT(30), <1>2, <2>2, <2>3
    <3> QED
      BY <1>3, <2>6, <3>1
  <2>5. ASSUME NEW i \in 1 .. Len(data'), Len(local) + i <= Len(OnDisk)
        PROVE  data'[i] = OnDisk[Len(local) + i]
    <3>1. CASE i <= Len(data)
      <4>1. i \in 1 .. Len(data) /\ data'[i] = data[i]
        BY <1>2, <1>5, <2>1, <3>1
      <4> QED
        BY <2>2, <2>5, <4>1
    <3>2. CASE i > Len(data)
      <4>1. i - Len(data) \in 1 .. BufSize /\ size + (i - Len(data)) = Len(local) + i
        <5>1. Len(local) + Len(data) = size
          BY <2>2
        <5> QED
          BY <1>2, <2>3, <3>2, <5>1
      <4>2. buf'[i - Len(data)] = OnDisk[size + (i - Len(data))]
        BY <1>4, <2>5, <2>6, <4>1
      <4>3. data'[i] = buf'[i - Len(data)]
        BY <1>2, <1>5, <2>1, <3>2
      <4> QED
        BY <4>1, <4>2, <4>3
    <3> QED
      BY <1>2, <2>3, <3>1, <3>2
  <2> QED
    BY <1>1, <1>2, <2>2, <2>4, <2>5 DEF DownloadInv, Downloading
<1> QED
  BY <1>6, <1>7, <1>8, <1>9 DEF TransferInv

-----------------------------------------------------------------------------
LEMMA TransferNext == TransferInv /\ [Next]_vars => TransferInv'
<1> SUFFICES ASSUME TransferInv, [Next]_vars PROVE TransferInv'
  OBVIOUS
<1>1. ASSUME NEW p \in Path, StartGet(p) PROVE TransferInv'
  BY <1>1, StartGetKeeps
<1>2. ASSUME NEW p \in Path, NEW file \in LocalFile, StartPut(p, file) PROVE TransferInv'
  BY <1>2, StartPutKeeps
<1>3. CASE ClientStep
  <2>1. CASE GetSpins
    BY <2>1, IdleKeeps DEF GetSpins, vars, store, fate, TransferInv, TypeOK
  <2> QED
    BY <1>3, <2>1, PutSendKeeps, PutCloseKeeps, ReturnsKeep, SizeFoundKeeps, GetRecvKeeps,
       GetEndsKeeps DEF ClientStep
<1>4. CASE ServerStep
  <2>1. CASE StorUnopened
    BY <2>1, IdleKeeps DEF StorUnopened, store, TransferInv, TypeOK
  <2> QED
    BY <1>4, <2>1, StorOpenKeeps, StorRecvKeeps, StorEndKeeps, StorReplyKeeps, FindKeeps,
       SizeAnswerKeeps, RetrMissingKeeps, RetrDirectoryKeeps, RetrUnreadableKeeps, RetrOpenKeeps, SendBlockKeeps, SendEndKeeps DEF ServerStep
<1>5. CASE Fault
  <2>1. CASE PasvClash
    <3>1. left' \in 0 .. MaxTransfers
      BY <2>1, TransferAssumption DEF PasvClash, Ready, TransferInv, TypeOK
    <3> QED
      BY <2>1, <3>1, IdleKeeps DEF PasvClash, store
  <2>2. CASE PeerReset
    BY <2>2, IdleKeeps DEF PeerReset, store, TransferInv, TypeOK
  <2> QED
    BY <1>5, <2>1, <2>2, PutShortKeeps, PutResetKeeps, StorRefusedKeeps, ClientDiesKeeps,
       ReturnsKeep DEF Fault
<1>6. ASSUME NEW r \in file_tbl, DeleteRow(r) PROVE TransferInv'
  BY <1>6, IdleKeeps DEF DeleteRow, fate, TransferInv, TypeOK
<1>7. CASE UNCHANGED vars
  BY <1>7, IdleKeeps DEF vars, store, fate, TransferInv, TypeOK
<1> QED
  BY <1>1, <1>2, <1>3, <1>4, <1>5, <1>6, <1>7 DEF Next, Start

(* The inductive invariant holds in every state of the two programs.       *)
THEOREM TransferInvariant == SafeSpec => []TransferInv
<1>1. TransferInv /\ [Next]_vars => TransferInv'
  BY TransferNext
<1> QED
  BY TransferInit, <1>1, PTL DEF SafeSpec

(* The types of the files, rows, counters and buffers.                     *)
THEOREM TransferTypeCorrect == SafeSpec => []TypeOK
<1>1. TransferInv => TypeOK
  BY DEF TransferInv
<1> QED
  BY TransferInvariant, <1>1, PTL

(* No row of the catalogue promises SIZE more bytes than the file on the   *)
(* disk has, whatever uploads of its name were cut off or refused.         *)
THEOREM DiskHoldsWhatRowsPromise == SafeSpec => []DiskHoldsSize
<1>1. TransferInv => DiskHoldsSize
  BY DEF TransferInv
<1> QED
  BY TransferInvariant, <1>1, PTL

LEMMA StoredParts == TransferInv => StoredAsSent
<1> SUFFICES ASSUME TransferInv, cpc = "stored", reply = 226
             PROVE  /\ Drop(OnDisk, Len(local)) = Drop(before, Len(local))
                    /\ Len(OnDisk) >= Len(local)
                    /\ ~short => SubSeq(OnDisk, 1, Len(local)) = local
  BY DEF StoredAsSent
<1>1. /\ Len(OnDisk) = IF Len(local) > Len(before) THEN Len(local) ELSE Len(before)
      /\ \A i \in Len(local) + 1 .. Len(OnDisk) : OnDisk[i] = before[i]
      /\ ~short => \A i \in 1 .. Len(local) : OnDisk[i] = local[i]
  BY DEF TransferInv, StoredInv
<1>2. /\ OnDisk \in Seq(Byte) /\ before \in Seq(Byte) /\ local \in Seq(Byte)
      /\ Len(OnDisk) \in Nat /\ Len(before) \in Nat /\ Len(local) \in Nat
  BY TransferParts DEF TransferInv, TypeOK, BytesUnderWay, Uploading
<1>3. Len(OnDisk) >= Len(local)
  BY <1>1, <1>2
<1>4. Drop(OnDisk, Len(local)) = Drop(before, Len(local))
  <2> DEFINE n == Len(local)
             s == Drop(OnDisk, n)
             t == Drop(before, n)
  <2>1. /\ s \in Seq(Byte) /\ Len(s) = IF n <= Len(OnDisk) THEN Len(OnDisk) - n ELSE 0
        /\ \A i \in 1 .. Len(OnDisk) - n : s[i] = OnDisk[n + i]
    BY <1>2, DropFacts
  <2>2. /\ t \in Seq(Byte) /\ Len(t) = IF n <= Len(before) THEN Len(before) - n ELSE 0
        /\ \A i \in 1 .. Len(before) - n : t[i] = before[n + i]
    BY <1>2, DropFacts
  <2> HIDE DEF s, t
  <2>3. Len(s) = Len(t)
    BY <1>1, <1>2, <2>1, <2>2
  <2>4. ASSUME NEW i \in 1 .. Len(s) PROVE s[i] = t[i]
    <3>1. /\ i \in 1 .. Len(OnDisk) - n /\ i \in 1 .. Len(before) - n
          /\ n + i \in n + 1 .. Len(OnDisk)
      BY <1>1, <1>2, <2>1, <2>2, <2>3
    <3> QED
      BY <1>1, <2>1, <2>2, <3>1
  <2>5. s = t
    BY <2>1, <2>2, <2>3, <2>4, SeqEqual
  <2> QED
    BY <2>5 DEF s, t
<1>5. ASSUME ~short PROVE SubSeq(OnDisk, 1, Len(local)) = local
  <2>1. PICK s : s = SubSeq(OnDisk, 1, Len(local))
    OBVIOUS
  <2>2. /\ s \in Seq(Byte) /\ Len(s) = Len(local)
        /\ \A i \in 1 .. Len(local) : s[i] = OnDisk[i]
    BY <1>2, <1>3, <2>1, PrefixFacts
  <2>3. s = local
    BY <1>1, <1>2, <1>5, <2>2, SeqEqual
  <2> QED
    BY <2>1, <2>3
<1> QED
  BY <1>3, <1>4, <1>5

(* A confirmed upload is on the disk byte for byte, and behind it what the *)
(* longer file of that name had; a short send() costs the content, never   *)
(* the length.                                                             *)
THEOREM UploadsAreStored == SafeSpec => []StoredAsSent
BY TransferInvariant, StoredParts, PTL

LEMMA DownloadParts == TransferInv => DownloadTrue
<1> SUFFICES ASSUME TransferInv, cpc = "got", ~torn
             PROVE  /\ Len(local) < filesize + BufSize
                    /\ SubSeq(local, 1, filesize) = SubSeq(OnDisk, 1, filesize)
  BY DEF DownloadTrue
<1>1. /\ filesize <= Len(OnDisk) /\ filesize <= Len(local) /\ Len(local) < filesize + BufSize
      /\ \A i \in 1 .. Len(local) : i <= Len(OnDisk) => local[i] = OnDisk[i]
      /\ local \in Seq(Byte \cup {Zero}) /\ OnDisk \in Seq(Byte) /\ filesize \in Nat
      /\ Len(OnDisk) \in Nat /\ Len(local) \in Nat
  BY TransferParts DEF TransferInv, TypeOK, DownloadInv, Downloading
<1>2. OnDisk \in Seq(Byte \cup {Zero})
  BY <1>1
<1>3. PICK s : s = SubSeq(local, 1, filesize)
  OBVIOUS
<1>4. PICK t : t = SubSeq(OnDisk, 1, filesize)
  OBVIOUS
<1>5. filesize \in 0 .. Len(local) /\ filesize \in 0 .. Len(OnDisk)
  BY <1>1
<1>6. /\ s \in Seq(Byte \cup {Zero}) /\ Len(s) = filesize
      /\ \A i \in 1 .. filesize : s[i] = local[i]
  BY <1>1, <1>3, <1>5, PrefixFacts
<1>7. /\ t \in Seq(Byte \cup {Zero}) /\ Len(t) = filesize
      /\ \A i \in 1 .. filesize : t[i] = OnDisk[i]
  BY <1>2, <1>4, <1>5, PrefixFacts
<1>8. \A i \in 1 .. filesize : s[i] = t[i]
  BY SMTT(30), <1>1, <1>6, <1>7
<1>9. s = t
  BY <1>6, <1>7, <1>8, SeqEqual
<1> QED
  BY <1>1, <1>3, <1>4, <1>9

(* A download that counted up to its size has the bytes of the file, and   *)
(* less than a block more.                                                 *)
THEOREM DownloadsAreTrue == SafeSpec => []DownloadTrue
BY TransferInvariant, DownloadParts, PTL

LEMMA SpinParts == TransferInv => SpinExplained
<1> SUFFICES ASSUME TransferInv, Spinning, ~torn
             PROVE  \/ reply = 550 /\ Rows = {}
                    \/ ~disk[path.name].usable
  BY DEF SpinExplained
<1>1. cpc = "get" /\ Len(local) < filesize /\ Len(data) = 0 /\ ~s_open
  BY EmptySeq DEF Spinning, ClientAt
<1>2. spc = "command" /\ filesize <= Len(OnDisk) /\ filesize \in Nat
  BY <1>1 DEF TransferInv, Phases, DownloadInv, Downloading
<1>3. \/ reply = 550 /\ Rows = {}
      \/ ~disk[path.name].usable
      \/ Len(local) + Len(data) >= Len(OnDisk)
  BY <1>1, <1>2 DEF TransferInv, DownloadInv, Downloading
<1>4. Len(local) \in Nat /\ Len(OnDisk) \in Nat
  BY TransferParts
<1> QED
  BY <1>1, <1>2, <1>3, <1>4

(* The client's loop runs on without data only because the rows were gone  *)
(* when RETR looked for them, a row went between two queries of SIZE or of *)
(* RETR (torn), or the file cannot be opened, never for lack of bytes.     *)
THEOREM SpinsAreExplained == SafeSpec => []SpinExplained
BY TransferInvariant, SpinParts, PTL
=============================================================================

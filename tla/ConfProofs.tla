------------------------------ MODULE ConfProofs ------------------------------
(***************************************************************************)
(* Proofs about the configuration parser, for files of any length: what it *)
(* has accepted is what the file says, and it accepts what is well-formed. *)
(***************************************************************************)
EXTENDS Conf, SequenceTheorems, WellFoundedInduction, TLAPS

(* A set of natural numbers that is not empty has a least one.             *)
LEMMA LeastExists ==
  ASSUME NEW S \in SUBSET Nat, S # {}
  PROVE  \E m \in S : \A k \in S : m <= k
<1>1. PICK m \in S : \A k \in S : ~(<<k, m>> \in OpToRel(<, Nat))
  BY NatLessThanWellFounded, WFMin
<1>2. \A k \in S : k < m => <<k, m>> \in OpToRel(<, Nat)
  BY DEF OpToRel
<1>3. \A k \in S : ~(k < m)
  BY <1>1, <1>2
<1>4. m \in Nat /\ \A k \in S : k \in Nat
  OBVIOUS
<1>5. \A k \in S : m <= k
  BY <1>3, <1>4
<1> QED
  BY <1>5

(* The text read so far, the pieces in comments and the newlines left out. *)
TextTo(n, T) ==
  /\ T \in [0 .. n -> Seq(Piece)]
  /\ \A k \in 0 .. n :
       T[k] = IF k = 0 THEN << >>
              ELSE IF input[k].kind = "newline" \/ Commented(k) THEN T[k - 1]
              ELSE Append(T[k - 1], input[k])

(* There is a function with this recursion, shown by the least length for  *)
(* which there would be none.                                              *)
LEMMA TextExists ==
  ASSUME input \in Seq(Piece)
  PROVE  \E T : TextTo(Len(input), T)
<1> DEFINE S == {n \in 0 .. Len(input) : ~\E T : TextTo(n, T)}
<1>1. Len(input) \in Nat
  OBVIOUS
<1>2. SUFFICES ASSUME S # {} PROVE FALSE
  BY <1>1
<1>3. PICK m \in S : \A k \in S : m <= k
  <2>1. S \in SUBSET Nat
    BY <1>1
  <2> HIDE DEF S
  <2> QED
    BY <1>2, <2>1, LeastExists
<1>4. m \in 0 .. Len(input) /\ ~\E T : TextTo(m, T)
  OBVIOUS
<1>5. CASE m = 0
  <2> DEFINE T == [k \in 0 .. 0 |-> << >>]
  <2>1. << >> \in Seq(Piece)
    BY EmptySeq
  <2>2. TextTo(0, T)
    BY <2>1 DEF TextTo
  <2> QED
    BY <1>4, <1>5, <2>2
<1>6. CASE m # 0
  <2>1. m - 1 \in 0 .. Len(input) /\ m - 1 \notin S /\ m \in Nat /\ input[m] \in Piece
    <3>1. m \in 1 .. Len(input)
      BY <1>1, <1>4, <1>6
    <3>2. m - 1 \in 0 .. Len(input) /\ m - 1 \notin S
      BY <1>1, <1>3, <3>1
    <3> HIDE DEF S
    <3> QED
      BY <3>1, <3>2, ElementOfSeq
  <2>2. PICK T : TextTo(m - 1, T)
    BY <2>1
  <2>3. PICK top : top = IF input[m].kind = "newline" \/ Commented(m) THEN T[m - 1]
                         ELSE Append(T[m - 1], input[m])
    OBVIOUS
  <2>4. T[m - 1] \in Seq(Piece)
    BY <1>6, <2>1, <2>2 DEF TextTo
  <2>5. top \in Seq(Piece)
    BY <2>1, <2>3, <2>4
  <2> DEFINE Q == [k \in 0 .. m |-> IF k = m THEN top ELSE T[k]]
  <2>6. \A k \in 0 .. m : k # m => k \in 0 .. m - 1 /\ T[k] \in Seq(Piece)
    BY <2>1, <2>2 DEF TextTo
  <2>7. Q \in [0 .. m -> Seq(Piece)]
    BY <2>5, <2>6
  <2>8. Q[m] = top /\ \A k \in 0 .. m - 1 : Q[k] = T[k]
    BY <2>1
  <2> HIDE DEF Q
  <2>9. ASSUME NEW k \in 0 .. m
        PROVE  Q[k] = IF k = 0 THEN << >>
                      ELSE IF input[k].kind = "newline" \/ Commented(k) THEN Q[k - 1]
                      ELSE Append(Q[k - 1], input[k])
    <3>1. CASE k = m
      <4>1. m - 1 \in 0 .. m - 1
        BY <1>6, <2>1
      <4> QED
        BY <1>6, <2>3, <2>8, <3>1, <4>1
    <3>2. CASE k # m
      <4>1. k \in 0 .. m - 1 /\ (k # 0 => k - 1 \in 0 .. m - 1)
        BY <2>1, <3>2
      <4>2. T[k] = IF k = 0 THEN << >>
                   ELSE IF input[k].kind = "newline" \/ Commented(k) THEN T[k - 1]
                   ELSE Append(T[k - 1], input[k])
        BY <2>2, <4>1 DEF TextTo
      <4> QED
        BY <2>8, <4>1, <4>2
    <3> QED
      BY <3>1, <3>2
  <2>10. TextTo(m, Q)
    BY <2>7, <2>9 DEF TextTo
  <2> QED
    BY <1>4, <2>10
<1> QED
  BY <1>5, <1>6

LEMMA TextIs ==
  ASSUME input \in Seq(Piece)
  PROVE  TextTo(Len(input), TextUpTo)
<1>1. PICK T : TextTo(Len(input), T)
  BY TextExists
<1>2. T = [n \in 0 .. Len(input) |->
             IF n = 0 THEN << >>
             ELSE IF input[n].kind = "newline" \/ Commented(n) THEN T[n - 1]
             ELSE Append(T[n - 1], input[n])]
  BY <1>1 DEF TextTo
<1>3. TextUpTo = [n \in 0 .. Len(input) |->
             IF n = 0 THEN << >>
             ELSE IF input[n].kind = "newline" \/ Commented(n) THEN TextUpTo[n - 1]
             ELSE Append(TextUpTo[n - 1], input[n])]
  BY <1>2 DEF TextUpTo
<1>4. PICK Q : Q = TextUpTo
  OBVIOUS
<1>5. \A k \in 0 .. Len(input) :
        Q[k] = IF k = 0 THEN << >>
               ELSE IF input[k].kind = "newline" \/ Commented(k) THEN Q[k - 1]
               ELSE Append(Q[k - 1], input[k])
  BY <1>3, <1>4
<1>6. Q = [k \in 0 .. Len(input) |-> Q[k]]
  BY <1>3, <1>4
<1>7. ASSUME NEW n \in 0 .. Len(input) PROVE Q[n] \in Seq(Piece)
  <2> DEFINE Bad == {k \in 0 .. Len(input) : Q[k] \notin Seq(Piece)}
  <2>1. SUFFICES ASSUME Bad # {} PROVE FALSE
    BY <1>7
  <2>2. Len(input) \in Nat
    OBVIOUS
  <2>3. PICK m \in Bad : \A k \in Bad : m <= k
    <3>1. Bad \in SUBSET Nat
      BY <2>2
    <3> HIDE DEF Bad
    <3> QED
      BY <2>1, <3>1, LeastExists
  <2>4. m \in 0 .. Len(input) /\ Q[m] \notin Seq(Piece)
    OBVIOUS
  <2>5. m # 0
    BY <1>5, <2>4, EmptySeq
  <2>6. m - 1 \in 0 .. Len(input) /\ m - 1 \notin Bad /\ m \in 1 .. Len(input)
    BY <2>2, <2>3, <2>4, <2>5
  <2>7. Q[m - 1] \in Seq(Piece)
    BY <2>6
  <2> HIDE DEF Bad
  <2>8. input[m] \in Piece
    BY <2>6, ElementOfSeq
  <2>9. Append(Q[m - 1], input[m]) \in Seq(Piece)
    BY <2>7, <2>8
  <2>10. Q[m] \in {Q[m - 1], Append(Q[m - 1], input[m])}
    BY <1>5, <2>4, <2>5
  <2> QED
    BY <2>4, <2>7, <2>9, <2>10
<1> QED
  BY <1>4, <1>5, <1>6, <1>7 DEF TextTo

-----------------------------------------------------------------------------
(* The scanner.  parse_comment is at work if the piece before is in a      *)
(* comment.                                                                *)
ScanInv == in_comment <=> pos # 1 /\ Commented(pos - 1)

Seen == TextUpTo[pos - 1]

LEMMA CommentedFacts ==
  ASSUME NEW i \in Nat \ {0}
  PROVE  Commented(i) <=> \/ input[i].kind = "comment"
                          \/ input[i].kind # "newline" /\ i # 1 /\ Commented(i - 1)
<1>1. ASSUME Commented(i)
      PROVE  \/ input[i].kind = "comment"
             \/ input[i].kind # "newline" /\ i # 1 /\ Commented(i - 1)
  <2>1. PICK j \in 1 .. i : /\ input[j].kind = "comment"
                            /\ \A k \in j .. i : input[k].kind # "newline"
    BY <1>1 DEF Commented
  <2>2. CASE j = i
    BY <2>1, <2>2
  <2>3. CASE j # i
    <3>1. j \in 1 .. i - 1 /\ i # 1 /\ i \in j .. i /\ \A k \in j .. i - 1 : k \in j .. i
      BY <2>3
    <3> QED
      BY <2>1, <3>1 DEF Commented
  <2> QED
    BY <2>2, <2>3
<1>2. ASSUME input[i].kind = "comment" PROVE Commented(i)
  <2>1. i \in 1 .. i /\ \A k \in i .. i : k = i
    OBVIOUS
  <2> QED
    BY <1>2, <2>1 DEF Commented
<1>3. ASSUME input[i].kind # "newline", i # 1, Commented(i - 1) PROVE Commented(i)
  <2>1. PICK j \in 1 .. i - 1 : /\ input[j].kind = "comment"
                                /\ \A k \in j .. i - 1 : input[k].kind # "newline"
    BY <1>3 DEF Commented
  <2>2. j \in 1 .. i /\ \A k \in j .. i : k = i \/ k \in j .. i - 1
    OBVIOUS
  <2> QED
    BY <1>3, <2>1, <2>2 DEF Commented
<1> QED
  BY <1>1, <1>2, <1>3

(* What the types say of the place in the file.                            *)
LEMMA PlaceFacts ==
  ASSUME TypeOK
  PROVE  /\ input \in Seq(Piece) /\ Len(input) \in Nat /\ pos \in Nat \ {0}
         /\ pos <= Len(input) + 1 /\ pos - 1 \in 0 .. Len(input)
         /\ ~AtEnd => pos \in 1 .. Len(input) /\ input[pos] \in Piece
         /\ Seen \in Seq(Piece)
<1>1. /\ input \in Seq(Piece) /\ Len(input) \in Nat /\ pos \in Nat \ {0}
      /\ pos <= Len(input) + 1 /\ pos - 1 \in 0 .. Len(input)
      /\ ~AtEnd => pos \in 1 .. Len(input)
  BY DEF TypeOK, AtEnd
<1>2. ~AtEnd => input[pos] \in Piece
  BY <1>1, ElementOfSeq
<1>3. Seen \in Seq(Piece)
  BY <1>1, TextIs DEF Seen, TextTo
<1> QED
  BY <1>1, <1>2, <1>3

(* A newline and a piece of a comment are left out,                        *)
LEMMA SkipRead ==
  ASSUME TypeOK, ScanInv, ~AtEnd,
         in_comment \/ input[pos].kind \in {"newline", "comment"}
  PROVE  /\ TextUpTo[pos] = Seen
         /\ Commented(pos) <=> input[pos].kind = "comment" \/ (in_comment /\ input[pos].kind # "newline")
<1>1. pos \in 1 .. Len(input) /\ pos \in Nat \ {0} /\ input \in Seq(Piece)
  BY PlaceFacts
<1>2. Commented(pos) <=> input[pos].kind = "comment" \/ (in_comment /\ input[pos].kind # "newline")
  BY <1>1, CommentedFacts DEF ScanInv
<1>3. TextUpTo[pos] = IF pos = 0 THEN << >>
                      ELSE IF input[pos].kind = "newline" \/ Commented(pos) THEN TextUpTo[pos - 1]
                      ELSE Append(TextUpTo[pos - 1], input[pos])
  BY <1>1, TextIs DEF TextTo
<1> QED
  BY <1>1, <1>2, <1>3 DEF Seen

(* and every other piece is the next one of the text.                      *)
LEMMA PieceRead ==
  ASSUME TypeOK, ScanInv, ~AtEnd, ~in_comment,
         input[pos].kind \notin {"newline", "comment"}
  PROVE  TextUpTo[pos] = Append(Seen, input[pos]) /\ ~Commented(pos)
<1>1. pos \in 1 .. Len(input) /\ pos \in Nat \ {0} /\ input \in Seq(Piece)
  BY PlaceFacts
<1>2. ~Commented(pos)
  BY <1>1, CommentedFacts DEF ScanInv
<1>3. TextUpTo[pos] = IF pos = 0 THEN << >>
                      ELSE IF input[pos].kind = "newline" \/ Commented(pos) THEN TextUpTo[pos - 1]
                      ELSE Append(TextUpTo[pos - 1], input[pos])
  BY <1>1, TextIs DEF TextTo
<1> QED
  BY <1>1, <1>2, <1>3 DEF Seen

(* An address ends before the first piece that is no digit and no dot,     *)
LEMMA AddressFacts ==
  ASSUME TypeOK, At("num")
  PROVE  /\ AddressEnd \in pos .. Len(input)
         /\ \A i \in pos .. AddressEnd : input[i].kind \in {"num", "dot"}
         /\ AddressEnd < Len(input) => input[AddressEnd + 1].kind \notin {"num", "dot"}
<1>1. pos \in 1 .. Len(input) /\ Len(input) \in Nat /\ input[pos].kind = "num"
  BY PlaceFacts DEF At
<1>2. \E last \in pos .. Len(input) :
        /\ \A i \in pos .. last : input[i].kind \in {"num", "dot"}
        /\ last < Len(input) => input[last + 1].kind \notin {"num", "dot"}
  <2> DEFINE S == {i \in pos .. Len(input) : input[i].kind \notin {"num", "dot"}}
  <2>1. CASE S = {}
    <3>1. Len(input) \in pos .. Len(input) /\ ~(Len(input) < Len(input))
      BY <1>1
    <3> QED
      BY <2>1, <3>1
  <2>2. CASE S # {}
    <3>1. PICK m \in S : \A k \in S : m <= k
      <4>1. S \in SUBSET Nat
        BY <1>1
      <4> HIDE DEF S
      <4> QED
        BY <2>2, <4>1, LeastExists
    <3>2. m \in pos .. Len(input) /\ m # pos /\ input[m].kind \notin {"num", "dot"}
      BY <1>1
    <3>3. \A i \in pos .. m - 1 : i \in pos .. Len(input) /\ ~(m <= i)
      BY <1>1, <3>2
    <3>4. \A i \in pos .. m - 1 : input[i].kind \in {"num", "dot"}
      BY <3>1, <3>3
    <3>5. m - 1 \in pos .. Len(input) /\ (m - 1) + 1 = m
      BY <1>1, <3>2
    <3> QED
      BY <3>2, <3>4, <3>5
  <2> QED
    BY <2>1, <2>2
<1> QED
  BY <1>2 DEF AddressEnd

(* and all of it is in the text.                                           *)
LEMMA AddressRead ==
  ASSUME TypeOK, ScanInv, At("num")
  PROVE  LET text == TextUpTo[AddressEnd] IN
         /\ ~Commented(AddressEnd)
         /\ text \in Seq(Piece) /\ Len(text) = Len(Seen) + (AddressEnd - pos + 1)
         /\ \A k \in 1 .. Len(Seen) : text[k] = Seen[k]
         /\ \A k \in 1 .. AddressEnd - pos + 1 : text[Len(Seen) + k] = input[pos + k - 1]
<1>1. /\ pos \in 1 .. Len(input) /\ Len(input) \in Nat /\ input \in Seq(Piece)
      /\ ~in_comment /\ Seen \in Seq(Piece) /\ Len(Seen) \in Nat
  BY PlaceFacts DEF At
<1>2. PICK last \in pos .. Len(input) :
        /\ last = AddressEnd
        /\ \A i \in pos .. last : input[i].kind \in {"num", "dot"}
  BY AddressFacts
<1>3. PICK T : T = TextUpTo
  OBVIOUS
<1>4. /\ T \in [0 .. Len(input) -> Seq(Piece)] /\ T[pos - 1] = Seen
      /\ \A k \in 0 .. Len(input) :
           T[k] = IF k = 0 THEN << >>
                  ELSE IF input[k].kind = "newline" \/ Commented(k) THEN T[k - 1]
                  ELSE Append(T[k - 1], input[k])
  BY <1>1, <1>3, TextIs DEF TextTo, Seen
<1> DEFINE Good(i) ==
      /\ ~Commented(i)
      /\ Len(T[i]) = Len(Seen) + (i - pos + 1)
      /\ \A k \in 1 .. Len(Seen) : T[i][k] = Seen[k]
      /\ \A k \in 1 .. i - pos + 1 : T[i][Len(Seen) + k] = input[pos + k - 1]
    Bad == {i \in pos .. last : ~Good(i)}
<1>5. Bad = {}
  <2> SUFFICES ASSUME Bad # {} PROVE FALSE
    OBVIOUS
  <2>1. PICK m \in Bad : \A k \in Bad : m <= k
    <3>1. Bad \in SUBSET Nat
      BY <1>1
    <3> HIDE DEF Bad
    <3> QED
      BY <3>1, LeastExists
  <2>2. m \in pos .. last /\ ~Good(m)
    OBVIOUS
  <2>3. m = pos \/ (m - 1 \in pos .. last /\ m - 1 \notin Bad)
    <3>1. m \in Nat /\ pos \in Nat /\ last \in Nat /\ pos <= m /\ m <= last
      BY <1>1, <2>2
    <3>2. m - 1 \notin Bad
      <4> HIDE DEF Bad
      <4> QED
        BY <2>1, <3>1
    <3> HIDE DEF Bad
    <3> QED
      BY <3>1, <3>2
  <2>4. m = pos \/ Good(m - 1)
    BY <2>3
  <2> HIDE DEF Good, Bad
  <2>5. m \in 1 .. Len(input) /\ m \in Nat \ {0} /\ input[m].kind \in {"num", "dot"}
    BY SMTT(30), <1>1, <1>2, <2>2
  <2>6. ~Commented(m)
    <3>1. m = 1 \/ ~Commented(m - 1)
      BY <1>1, <2>4 DEF Good, ScanInv
    <3> QED
      BY <2>5, <3>1, CommentedFacts
  <2>7. T[m] = Append(T[m - 1], input[m])
    BY <1>4, <2>5, <2>6
  <2>8. PICK q, x : q = T[m - 1] /\ x = input[m]
    OBVIOUS
  <2>9. q \in Seq(Piece) /\ x \in Piece
    <3>1. m - 1 \in 0 .. Len(input)
      BY <2>5
    <3> QED
      BY <1>1, <1>4, <2>5, <2>8, <3>1, ElementOfSeq
  <2>10. /\ Len(q) = Len(Seen) + (m - pos)
         /\ \A k \in 1 .. Len(Seen) : q[k] = Seen[k]
         /\ \A k \in 1 .. m - pos : q[Len(Seen) + k] = input[pos + k - 1]
    <3>1. CASE m = pos
      BY SMTT(30), <1>1, <1>4, <2>8, <3>1
    <3>2. CASE m # pos
      <4>1. (m - 1) - pos + 1 = m - pos
        BY <1>1, <2>5
      <4> QED
        BY <2>4, <2>8, <3>2, <4>1 DEF Good
    <3> QED
      BY <3>1, <3>2
  <2>11. /\ Len(Append(q, x)) = Len(q) + 1
         /\ \A k \in 1 .. Len(q) : Append(q, x)[k] = q[k]
         /\ Append(q, x)[Len(q) + 1] = x
    BY <2>9
  <2>12. m - pos \in Nat /\ m - pos + 1 = (m - pos) + 1
    BY <1>1, <2>2
  <2>13. PICK d \in Nat, n \in Nat : d = m - pos /\ n = Len(Seen)
    BY <1>1, <2>12
  <2>14. Len(q) = n + d /\ pos + (d + 1) - 1 = m
    BY <1>1, <2>5, <2>10, <2>13
  <2>15. \A k \in 1 .. n : T[m][k] = Seen[k]
    BY SMTT(30), <2>7, <2>8, <2>10, <2>11, <2>13, <2>14
  <2>16. \A k \in 1 .. d + 1 : T[m][n + k] = input[pos + k - 1]
    <3> SUFFICES ASSUME NEW k \in 1 .. d + 1 PROVE T[m][n + k] = input[pos + k - 1]
      OBVIOUS
    <3>1. CASE k = d + 1
      <4>1. n + k = Len(q) + 1
        BY SMTT(30), <2>13, <2>14, <3>1
      <4> QED
        BY <2>7, <2>8, <2>11, <2>14, <3>1, <4>1
    <3>2. CASE k # d + 1
      <4>1. n + k \in 1 .. n + d /\ k \in 1 .. d
        BY SMTT(30), <2>13, <3>2
      <4> QED
        BY <2>7, <2>8, <2>10, <2>11, <2>13, <2>14, <4>1
    <3> QED
      BY <3>1, <3>2
  <2>17. Len(T[m]) = n + (d + 1)
    BY <2>7, <2>8, <2>11, <2>13, <2>14
  <2>18. Good(m)
    BY <2>6, <2>12, <2>13, <2>15, <2>16, <2>17 DEF Good
  <2> QED
    BY <2>2, <2>18
<1>6. last \in pos .. last /\ last \in 0 .. Len(input)
  BY <1>1
<1>7. Good(last) /\ T[last] \in Seq(Piece)
  BY <1>4, <1>5, <1>6
<1> QED
  BY <1>2, <1>3, <1>7

-----------------------------------------------------------------------------
(* The types.                                                              *)
LEMMA ConfInit == Init => TypeOK
<1> SUFFICES ASSUME Init PROVE TypeOK
  OBVIOUS
<1>1. input \in Seq(Piece)
  BY ConfAssumption DEF Init
<1>2. Len(input) \in Nat
  BY <1>1
<1>3. Default \in [Items \ {SERVER_IP} -> 0 .. Short - 1]
  <2>1. Items \ {SERVER_IP} = {SERVER_PORT, THREAD_NUM, QUEUE_CAPACITY}
    BY DEF Items, SERVER_IP, SERVER_PORT, THREAD_NUM, QUEUE_CAPACITY
  <2>2. 2000 \in 0 .. Short - 1 /\ 5 \in 0 .. Short - 1 /\ 10 \in 0 .. Short - 1
    BY DEF Short
  <2> QED
    BY <2>1, <2>2 DEF Default
<1>4. \A i \in DOMAIN sin_addr : sin_addr[i].kind \in {"num", "dot"}
  <2>1. sin_addr = << >> /\ DOMAIN << >> = {}
    BY DEF Init
  <2> QED
    BY <2>1
<1>5. {SERVER_IP} \subseteq SERVER_IP .. END /\ SERVER_IP \in Items
  BY DEF Items, SERVER_IP, QUEUE_CAPACITY, END
<1>6. pos \in 1 .. Len(input) + 1
  BY <1>2 DEF Init
<1> QED
  BY <1>1, <1>3, <1>4, <1>5, <1>6 DEF Init, TypeOK

(* What the parser does with a token keeps the types of its variables.     *)
LEMMA ParseTypes ==
  ASSUME TypeOK, NEW tok, NEW address, NEW num \in 0 .. Short - 1,
         \A i \in DOMAIN address : address[i].kind \in {"num", "dot"},
         Parse(tok, address, num)
  PROVE  /\ parser' \in {"item", "assign", "value", "done", "exit", "crash"}
         /\ item' \in Items
         /\ \A i \in DOMAIN sin_addr' : sin_addr'[i].kind \in {"num", "dot"}
         /\ conf' \in [Items \ {SERVER_IP} -> 0 .. Short - 1]
<1>1. CASE parser = "value" /\ tok = ValueToken /\ tok # IP
  <2>1. item \in Items \ {SERVER_IP}
    BY <1>1 DEF TypeOK, ValueToken
  <2>2. conf' = [conf EXCEPT ![item] = num] /\ sin_addr' = sin_addr /\ item' = item
        /\ parser' = "item"
    BY <1>1 DEF Parse, Stop
  <2>3. conf' \in [Items \ {SERVER_IP} -> 0 .. Short - 1]
    BY <2>1, <2>2 DEF TypeOK
  <2> QED
    BY <2>2, <2>3 DEF TypeOK
<1>2. CASE ~(parser = "value" /\ tok = ValueToken /\ tok # IP)
  <2>1. conf' = conf /\ (sin_addr' = sin_addr \/ sin_addr' = address)
    BY <1>2 DEF Parse, Stop
  <2>2. item' = item \/ item' \in Items
    BY DEF Parse, Stop
  <2>3. parser' \in {"item", "assign", "value", "done", "exit", "crash"}
    BY DEF Parse, Stop
  <2> QED
    BY <2>1, <2>2, <2>3 DEF TypeOK
<1> QED
  BY <1>1, <1>2

LEMMA TokenTypes ==
  ASSUME TypeOK, NEW tok \in SERVER_IP .. END, NEW address, NEW num \in 0 .. Short - 1,
         NEW next \in 1 .. Len(input) + 1,
         \A i \in DOMAIN address : address[i].kind \in {"num", "dot"},
         Token(tok, next, address, num)
  PROVE  TypeOK'
BY ParseTypes DEF Token, TypeOK

LEMMA ConfNext == TypeOK /\ [Next]_vars => TypeOK'
<1> SUFFICES ASSUME TypeOK, [Next]_vars PROVE TypeOK'
  OBVIOUS
<1>1. /\ Len(input) \in Nat /\ pos \in Nat /\ input \in Seq(Piece)
      /\ ~AtEnd => /\ pos \in 1 .. Len(input) /\ pos + 1 \in 1 .. Len(input) + 1
                   /\ input[pos] \in Piece
  BY PlaceFacts
<1>2. 0 \in 0 .. Short - 1 /\ \A n \in Nat : n % Short \in 0 .. Short - 1
  <2>1. \A n \in Nat, w \in Nat \ {0} : n % w \in 0 .. w - 1
    OBVIOUS
  <2>2. Short \in Nat \ {0} /\ 0 \in 0 .. Short - 1
    BY DEF Short
  <2> QED
    BY <2>1, <2>2
<1>3. DOMAIN << >> = {}
  OBVIOUS
<1>4. /\ {ASSIGN, NUM, IP, END} \subseteq SERVER_IP .. END
      /\ \A p \in Piece : p.kind = "item" => p.val \in SERVER_IP .. END
  BY DEF Piece, Items, SERVER_IP, QUEUE_CAPACITY, ASSIGN, NUM, IP, END
<1>5. \A how \in {"exit", "crash"} :
        Stop(how) /\ UNCHANGED <<fin, input, in_comment, pos, token, pre_token>> => TypeOK'
  BY DEF Stop, TypeOK
<1>6. CASE SkipBlank \/ EnterComment \/ SkipComment
  <2>1. /\ pos' = pos + 1 /\ ~AtEnd /\ UNCHANGED quiet
        /\ in_comment' \in BOOLEAN
    BY <1>6 DEF SkipBlank, EnterComment, SkipComment, At, TypeOK
  <2> QED
    BY <1>1, <2>1 DEF quiet, TypeOK
<1>7. CASE CommentSpins \/ UNCHANGED vars
  BY <1>7 DEF CommentSpins, vars, TypeOK
<1>8. CASE ParseItem
  <2>1. CASE pos = Len(input)
    BY <1>5, <1>8, <2>1 DEF ParseItem, WriteBackFails
  <2>2. CASE pos # Len(input)
    <3>1. Token(input[pos].val, pos + 1, << >>, 0) /\ ~AtEnd /\ input[pos].kind = "item"
      BY <1>8, <2>2 DEF ParseItem, At
    <3> QED
      BY <1>1, <1>2, <1>3, <1>4, <3>1, TokenTypes
  <2> QED
    BY <2>1, <2>2
<1>9. CASE ParseWord \/ NotFound
  BY <1>5, <1>9 DEF ParseWord, NotFound
<1>10. CASE ParseAddress
  <2>1. CASE AddressEnd = Len(input)
    BY <1>5, <1>10, <2>1 DEF ParseAddress, WriteBackFails
  <2>2. CASE AddressEnd # Len(input)
    <3>1. PICK last : last = AddressEnd
      OBVIOUS
    <3>2. Token(IP, last + 1, SubSeq(input, pos, last), 0) /\ At("num")
      BY <1>10, <2>2, <3>1 DEF ParseAddress
    <3>3. last \in pos .. Len(input) /\ \A i \in pos .. last : input[i].kind \in {"num", "dot"}
      BY <3>1, <3>2, AddressFacts
    <3>4. pos \in 1 .. Len(input) /\ last + 1 \in 1 .. Len(input) + 1
      BY <1>1, <3>3, <3>2 DEF At
    <3>5. \A i \in DOMAIN SubSeq(input, pos, last) :
            SubSeq(input, pos, last)[i].kind \in {"num", "dot"}
      <4>1. DOMAIN SubSeq(input, pos, last) = 1 .. last - pos + 1
        BY <1>1, <3>3, <3>4
      <4> TAKE i \in DOMAIN SubSeq(input, pos, last)
      <4>2. SubSeq(input, pos, last)[i] = input[pos + i - 1] /\ pos + i - 1 \in pos .. last
        BY <1>1, <3>3, <3>4, <4>1
      <4> QED
        BY <3>3, <4>2
    <3>6. IP \in SERVER_IP .. END
      BY <1>4
    <3> QED
      BY <1>2, <3>2, <3>4, <3>5, <3>6, TokenTypes
  <2> QED
    BY <2>1, <2>2
<1>11. CASE ParseNumber
  <2>1. CASE pos = Len(input)
    BY <1>5, <1>11, <2>1 DEF ParseNumber, WriteBackFails
  <2>2. CASE pos # Len(input)
    <3>1. Token(NUM, pos + 1, << >>, input[pos].val % Short) /\ ~AtEnd
      BY <1>11, <2>2 DEF ParseNumber, At
    <3>2. input[pos].val % Short \in 0 .. Short - 1
      BY <1>1, <1>2, <3>1 DEF Piece
    <3>3. NUM \in SERVER_IP .. END
      BY <1>4
    <3> QED
      BY <1>1, <1>3, <3>1, <3>2, <3>3, TokenTypes
  <2> QED
    BY <2>1, <2>2
<1>12. CASE ReadAssign
  <2>1. Token(ASSIGN, pos + 1, << >>, 0) /\ ~AtEnd /\ ASSIGN \in SERVER_IP .. END
    BY <1>4, <1>12 DEF ReadAssign, At
  <2> QED
    BY <1>1, <1>2, <1>3, <2>1, TokenTypes
<1>13. CASE ReadEnd
  <2>1. Token(END, pos, << >>, 0) /\ END \in SERVER_IP .. END /\ pos \in 1 .. Len(input) + 1
    BY <1>4, <1>13 DEF ReadEnd, TypeOK
  <2> QED
    BY <1>2, <1>3, <2>1, TokenTypes
<1>14. CASE ReadOther
  <2>1. /\ Parse(token, << >>, 0) /\ ~AtEnd /\ pos' = pos + 1
        /\ UNCHANGED <<fin, input, in_comment, token, pre_token>>
    BY <1>14 DEF ReadOther, At
  <2> QED
    BY <1>1, <1>2, <1>3, <2>1, ParseTypes DEF TypeOK
<1> QED
  BY <1>6, <1>7, <1>8, <1>9, <1>10, <1>11, <1>12, <1>13, <1>14 DEF Next

-----------------------------------------------------------------------------
(* The parser and the text t it has been given.  A dot or another          *)
(* character at the very start is taken for the item server_ip.            *)
Phantom(t) == t # << >> /\ t[1].kind \in {"dot", "junk"}

(* The item whose value the parser awaits is at k.                         *)
Awaited(t, k) ==
  IF t[k].kind = "item" THEN t[k].val = item ELSE item = SERVER_IP /\ Phantom(t)

Assigned(t, k, tag) == AssignmentAt(t, k) /\ t[k].val = tag

(* The value is that of the last assignment to the item, or the default.   *)
Says(t, tag, value) ==
  \/ value = Default[tag] /\ \A k \in 1 .. Len(t) : ~Assigned(t, k, tag)
  \/ \E k \in 1 .. Len(t) : /\ Assigned(t, k, tag) /\ value = t[k + 2].val % Short
                            /\ \A j \in k + 1 .. Len(t) : ~Assigned(t, j, tag)

Pending(t, k) ==
  \/ parser = "assign" /\ k = Len(t)
  \/ parser = "value" /\ k = Len(t) - 1

ItemsInv(t) ==
  \A k \in 1 .. Len(t) :
    /\ t[k].kind # "word"
    /\ t[k].kind = "item" => AssignmentAt(t, k) \/ Pending(t, k)

WaitInv(t) ==
  /\ parser = "assign" => token = item /\ t # << >> /\ Awaited(t, Len(t))
  /\ parser = "value" => /\ token = ASSIGN /\ Len(t) > 1
                         /\ t[Len(t)].kind = "assign" /\ Awaited(t, Len(t) - 1)
  /\ parser = "item" => token \in {ASSIGN, NUM, IP} \/ (token = SERVER_IP /\ t = << >>)

ValuesInv(t) ==
  /\ \A tag \in Items \ {SERVER_IP} : Says(t, tag, conf[tag])
  /\ sin_addr # << >> =>
       Phantom(t) \/ \E k \in 1 .. Len(t) : t[k].kind = "item" /\ t[k].val = SERVER_IP

ParserInv(t) ==
  parser \in {"item", "assign", "value", "done"} => ItemsInv(t) /\ WaitInv(t) /\ ValuesInv(t)

(* The text grows by the piece x, and if this begins an address by all of  *)
(* that.                                                                   *)
Growth(t, u, x) ==
  /\ t \in Seq(Piece) /\ u \in Seq(Piece) /\ Len(t) < Len(u)
  /\ \A k \in 1 .. Len(t) : u[k] = t[k]
  /\ u[Len(t) + 1] = x
  /\ \A k \in Len(t) + 2 .. Len(u) : u[k].kind \in {"num", "dot"} /\ x.kind = "num"

LEMMA GrowthFacts ==
  ASSUME NEW t, NEW u, NEW x, Growth(t, u, x)
  PROVE  /\ Len(t) \in Nat /\ Len(u) \in Nat /\ Len(t) < Len(u)
         /\ \A k \in 1 .. Len(t) : k \in 1 .. Len(u) /\ u[k] = t[k]
         /\ \A k \in 1 .. Len(u) :
              k \in 1 .. Len(t) \/ (k = Len(t) + 1 /\ u[k] = x) \/ u[k].kind \in {"num", "dot"}
         /\ x.kind # "num" => Len(u) = Len(t) + 1
         /\ Phantom(t) => Phantom(u)
<1>1. /\ Len(t) \in Nat /\ Len(u) \in Nat /\ Len(t) < Len(u)
  BY DEF Growth
<1>2. \A k \in 1 .. Len(t) : k \in 1 .. Len(u) /\ u[k] = t[k]
  BY <1>1 DEF Growth
<1>3. \A k \in 1 .. Len(u) :
        k \in 1 .. Len(t) \/ (k = Len(t) + 1 /\ u[k] = x) \/ u[k].kind \in {"num", "dot"}
  <2> TAKE k \in 1 .. Len(u)
  <2>1. k \in 1 .. Len(t) \/ k = Len(t) + 1 \/ k \in Len(t) + 2 .. Len(u)
    BY <1>1
  <2> QED
    BY <2>1 DEF Growth
<1>4. x.kind # "num" => Len(u) = Len(t) + 1
  <2>1. Len(u) = Len(t) + 1 \/ Len(t) + 2 \in Len(t) + 2 .. Len(u)
    BY <1>1
  <2> QED
    BY <2>1 DEF Growth
<1>5. Phantom(t) => Phantom(u)
  <2> SUFFICES ASSUME Phantom(t) PROVE Phantom(u)
    OBVIOUS
  <2>1. t \in Seq(Piece) /\ u \in Seq(Piece) /\ t # << >>
    BY DEF Growth, Phantom
  <2>2. 1 \in 1 .. Len(t) /\ u # << >>
    BY <1>1, <2>1
  <2> QED
    BY <1>2, <2>2 DEF Phantom
<1> QED
  BY <1>1, <1>2, <1>3, <1>4, <1>5

(* An assignment stays one,                                                *)
LEMMA AssignmentKept ==
  ASSUME NEW t, NEW u, NEW x, Growth(t, u, x),
         NEW k \in 1 .. Len(t), AssignmentAt(t, k)
  PROVE  AssignmentAt(u, k) /\ k + 2 \in 1 .. Len(t) /\ u[k + 2] = t[k + 2] /\ u[k] = t[k]
<1>1. DOMAIN t = 1 .. Len(t) /\ DOMAIN u = 1 .. Len(u)
  BY DEF Growth
<1>2. /\ t[k].kind = "item" /\ k + 1 \in 1 .. Len(t) /\ t[k + 1].kind = "assign"
      /\ k + 2 \in 1 .. Len(t) /\ t[k + 2].kind = "num"
  BY <1>1 DEF AssignmentAt, KindAt
<1>3. \A j \in 1 .. Len(t) : j \in 1 .. Len(u) /\ u[j] = t[j]
  BY GrowthFacts
<1> QED
  BY <1>1, <1>2, <1>3 DEF AssignmentAt, KindAt

(* and a new one is completed by its value.                                *)
LEMMA AssignmentNew ==
  ASSUME NEW t, NEW u, NEW x, Growth(t, u, x),
         NEW k \in 1 .. Len(u), AssignmentAt(u, k)
  PROVE  /\ k \in 1 .. Len(t) /\ u[k] = t[k]
         /\ \/ AssignmentAt(t, k)
            \/ k = Len(t) - 1 /\ t[Len(t)].kind = "assign" /\ x.kind = "num"
<1>1. DOMAIN t = 1 .. Len(t) /\ DOMAIN u = 1 .. Len(u)
  BY DEF Growth
<1>2. /\ u[k].kind = "item" /\ k + 1 \in 1 .. Len(u) /\ u[k + 1].kind = "assign"
      /\ k + 2 \in 1 .. Len(u) /\ u[k + 2].kind = "num"
  BY <1>1 DEF AssignmentAt, KindAt
<1>3. /\ \A j \in 1 .. Len(t) : j \in 1 .. Len(u) /\ u[j] = t[j]
      /\ \A j \in 1 .. Len(u) :
           j \in 1 .. Len(t) \/ (j = Len(t) + 1 /\ u[j] = x) \/ u[j].kind \in {"num", "dot"}
      /\ x.kind # "num" => Len(u) = Len(t) + 1
      /\ Len(t) \in Nat /\ Len(u) \in Nat /\ Len(t) < Len(u)
  BY GrowthFacts
<1>4. k \in 1 .. Len(t) \/ (k = Len(t) + 1 /\ u[k] = x)
  BY <1>2, <1>3
<1>5. k + 1 \in 1 .. Len(t) \/ (k + 1 = Len(t) + 1 /\ u[k + 1] = x)
  BY <1>2, <1>3
<1>6. k + 1 \in 1 .. Len(t)
  <2> SUFFICES ASSUME k + 1 = Len(t) + 1, u[k + 1] = x PROVE FALSE
    BY <1>5
  <2>1. Len(u) = Len(t) + 1
    BY <1>2, <1>3
  <2> QED
    BY <1>2, <1>3, <2>1
<1>7. k \in 1 .. Len(t) /\ u[k] = t[k] /\ u[k + 1] = t[k + 1]
  BY <1>3, <1>6
<1>8. CASE k + 2 \in 1 .. Len(t)
  BY <1>1, <1>2, <1>3, <1>6, <1>7, <1>8 DEF AssignmentAt, KindAt
<1>9. CASE k + 2 \notin 1 .. Len(t)
  <2>1. k + 1 = Len(t) /\ k = Len(t) - 1 /\ k + 2 = Len(t) + 1
    BY <1>3, <1>6, <1>9
  <2>2. u[k + 2] = x
    BY <2>1 DEF Growth
  <2> QED
    BY <1>2, <1>7, <2>1, <2>2
<1> QED
  BY <1>7, <1>8, <1>9

(* What is said of an item stays, but for a new assignment to it.          *)
LEMMA SaysKept ==
  ASSUME NEW t, NEW u, NEW x, Growth(t, u, x), NEW tag, NEW value, Says(t, tag, value),
         ~(/\ Len(t) - 1 \in 1 .. Len(t)
           /\ t[Len(t) - 1].kind = "item" /\ t[Len(t) - 1].val = tag
           /\ t[Len(t)].kind = "assign" /\ x.kind = "num")
  PROVE  Says(u, tag, value)
<1>1. \A k \in 1 .. Len(u) : Assigned(u, k, tag) => k \in 1 .. Len(t) /\ Assigned(t, k, tag)
  <2> SUFFICES ASSUME NEW k \in 1 .. Len(u), AssignmentAt(u, k), u[k].val = tag
               PROVE  k \in 1 .. Len(t) /\ AssignmentAt(t, k) /\ t[k].val = tag
    BY DEF Assigned
  <2>1. k \in 1 .. Len(t) /\ u[k] = t[k] /\ u[k].kind = "item"
    BY AssignmentNew DEF AssignmentAt
  <2> QED
    BY <2>1, AssignmentNew
<1>2. /\ Len(t) \in Nat /\ Len(u) \in Nat /\ Len(t) < Len(u)
      /\ \A k \in 1 .. Len(t) : k \in 1 .. Len(u)
  BY GrowthFacts
<1>3. CASE value = Default[tag] /\ \A k \in 1 .. Len(t) : ~Assigned(t, k, tag)
  BY <1>1, <1>3 DEF Says
<1>4. ASSUME NEW k \in 1 .. Len(t), Assigned(t, k, tag), value = t[k + 2].val % Short,
             \A j \in k + 1 .. Len(t) : ~Assigned(t, j, tag)
      PROVE  Says(u, tag, value)
  <2>1. Assigned(u, k, tag) /\ value = u[k + 2].val % Short /\ k \in 1 .. Len(u)
    BY <1>2, <1>4, AssignmentKept DEF Assigned
  <2>2. \A j \in k + 1 .. Len(u) : j \in 1 .. Len(u) /\ (j \in 1 .. Len(t) => j \in k + 1 .. Len(t))
    BY <1>2
  <2>3. \A j \in k + 1 .. Len(u) : ~Assigned(u, j, tag)
    BY <1>1, <1>4, <2>2
  <2> QED
    BY <2>1, <2>3 DEF Says
<1> QED
  BY <1>3, <1>4 DEF Says

LEMMA SaysNew ==
  ASSUME NEW t, NEW u, NEW x, Growth(t, u, x), NEW tag,
         Len(t) > 1, t[Len(t) - 1].kind = "item", t[Len(t) - 1].val = tag,
         t[Len(t)].kind = "assign", x.kind = "num"
  PROVE  /\ AssignmentAt(u, Len(t) - 1)
         /\ Says(u, tag, x.val % Short)
<1>1. /\ \A j \in 1 .. Len(t) : j \in 1 .. Len(u) /\ u[j] = t[j]
      /\ Len(t) \in Nat /\ Len(u) \in Nat /\ Len(t) < Len(u)
  BY GrowthFacts
<1>2. PICK k \in Nat : k = Len(t) - 1
  BY <1>1
<1>3. /\ k \in 1 .. Len(t) /\ k + 1 \in 1 .. Len(t) /\ k + 1 = Len(t)
      /\ k + 2 = Len(t) + 1 /\ k + 2 \in 1 .. Len(u)
  BY <1>1, <1>2
<1>4. /\ u[k].kind = "item" /\ u[k].val = tag /\ u[k + 1].kind = "assign"
      /\ u[k + 2] = x
  BY <1>1, <1>2, <1>3 DEF Growth
<1>5. Assigned(u, k, tag)
  <2>1. DOMAIN u = 1 .. Len(u)
    BY DEF Growth
  <2> QED
    BY <1>1, <1>3, <1>4, <2>1 DEF Assigned, AssignmentAt, KindAt
<1>6. ASSUME NEW j \in k + 1 .. Len(u) PROVE ~Assigned(u, j, tag)
  <2> SUFFICES ASSUME AssignmentAt(u, j) PROVE FALSE
    BY DEF Assigned
  <2>1. j \in 1 .. Len(u) /\ j \in Nat /\ j > k
    BY <1>1, <1>3
  <2>2. j \in 1 .. Len(t) /\ (AssignmentAt(t, j) \/ j = Len(t) - 1)
    BY <2>1, AssignmentNew
  <2>3. AssignmentAt(t, j) /\ j = k + 1
    BY <1>1, <1>2, <2>1, <2>2
  <2> QED
    BY <1>1, <1>3, <2>2, <2>3 DEF AssignmentAt
<1> QED
  BY <1>1, <1>2, <1>3, <1>4, <1>5, <1>6 DEF Says, Assigned

(* The tokens, and what is known of the one for the piece x.               *)
Read(x, tok, num) ==
  \/ x.kind = "item" /\ tok = x.val
  \/ x.kind = "assign" /\ tok = ASSIGN
  \/ x.kind = "num" /\ tok = NUM /\ num = x.val % Short
  \/ x.kind = "num" /\ tok = IP
  \/ x.kind \in {"dot", "junk"} /\ tok = token

LEMMA Tokens ==
  /\ Items \cap {ASSIGN, NUM, IP, END} = {} /\ SERVER_IP \in Items
  /\ ASSIGN \notin {NUM, IP, END} /\ NUM \notin {IP, END} /\ IP # END
  /\ \A p \in Piece : p.kind = "item" => p.val \in Items
BY DEF Items, SERVER_IP, QUEUE_CAPACITY, ASSIGN, NUM, IP, END, Piece

LEMMA ParserStep ==
  ASSUME TypeOK, NEW t, NEW u, NEW x \in Piece, Growth(t, u, x), ParserInv(t),
         NEW tok, NEW address, NEW num,
         Parse(tok, address, num), token' = tok, Read(x, tok, num)
  PROVE  ParserInv(u)'
<1>1. /\ Len(t) \in Nat /\ Len(u) \in Nat /\ Len(t) < Len(u)
      /\ \A k \in 1 .. Len(t) : k \in 1 .. Len(u) /\ u[k] = t[k]
      /\ \A k \in 1 .. Len(u) :
           k \in 1 .. Len(t) \/ (k = Len(t) + 1 /\ u[k] = x) \/ u[k].kind \in {"num", "dot"}
      /\ x.kind # "num" => Len(u) = Len(t) + 1
      /\ Phantom(t) => Phantom(u)
      /\ t \in Seq(Piece) /\ u \in Seq(Piece) /\ u[Len(t) + 1] = x
  BY GrowthFacts DEF Growth
<1>2. parser \in {"item", "assign", "value"} /\ ItemsInv(t) /\ WaitInv(t) /\ ValuesInv(t)
  BY DEF Parse, ParserInv
<1>3. SUFFICES ASSUME parser' # "exit" PROVE ItemsInv(u)' /\ WaitInv(u)' /\ ValuesInv(u)'
  BY DEF ParserInv
<1>4. u # << >>
  BY <1>1
<1>5. x.kind # "word"
  BY DEF Read
<1>6. \A k \in 1 .. Len(u) :
        /\ u[k].kind # "word"
        /\ u[k].kind = "item" => \/ k = Len(t) + 1 /\ x.kind = "item"
                                 \/ k \in 1 .. Len(t) /\ AssignmentAt(u, k)
                                 \/ k \in 1 .. Len(t) /\ Pending(t, k)
  <2> TAKE k \in 1 .. Len(u)
  <2>1. CASE k \in 1 .. Len(t)
    BY <1>1, <1>2, <2>1, AssignmentKept DEF ItemsInv
  <2>2. CASE k \notin 1 .. Len(t)
    BY <1>1, <1>5, <2>2
  <2> QED
    BY <2>1, <2>2
<1>7. (\E k \in 1 .. Len(t) : t[k].kind = "item" /\ t[k].val = SERVER_IP)
        => \E k \in 1 .. Len(u) : u[k].kind = "item" /\ u[k].val = SERVER_IP
  BY <1>1
<1>8. /\ sin_addr' = sin_addr => (sin_addr' # << >> =>
           Phantom(u) \/ \E k \in 1 .. Len(u) : u[k].kind = "item" /\ u[k].val = SERVER_IP)
  BY <1>1, <1>2, <1>7 DEF ValuesInv
(* Nothing is stored, and the piece is no value that is awaited.           *)
<1>9. ASSUME conf' = conf, sin_addr' = sin_addr,
             parser = "value" => x.kind # "num"
      PROVE  ValuesInv(u)'
  <2>1. ASSUME NEW tag \in Items \ {SERVER_IP} PROVE Says(u, tag, conf'[tag])
    <3>1. Says(t, tag, conf'[tag])
      BY <1>2, <1>9 DEF ValuesInv
    <3>2. ~(/\ Len(t) - 1 \in 1 .. Len(t)
            /\ t[Len(t) - 1].kind = "item" /\ t[Len(t) - 1].val = tag
            /\ t[Len(t)].kind = "assign" /\ x.kind = "num")
      <4> SUFFICES ASSUME Len(t) - 1 \in 1 .. Len(t), t[Len(t) - 1].kind = "item",
                          parser # "value"
                   PROVE  FALSE
        BY <1>9
      <4>1. ~Pending(t, Len(t) - 1)
        BY <1>1 DEF Pending
      <4>2. AssignmentAt(t, Len(t) - 1)
        BY <1>2, <4>1 DEF ItemsInv
      <4>3. (Len(t) - 1) + 2 \in 1 .. Len(t)
        BY <4>2, AssignmentKept
      <4> QED
        BY <1>1, <4>3
    <3> QED
      BY <3>1, <3>2, SaysKept
  <2> QED
    BY <1>8, <1>9, <2>1 DEF ValuesInv
<1>10. CASE parser = "item" /\ tok = END
  BY <1>2, <1>10, Tokens DEF WaitInv, Read
(* An item, or what is taken for one at the start.                         *)
<1>11. CASE parser = "item" /\ tok \in Items
  <2>1. parser' = "assign" /\ item' = tok /\ sin_addr' = sin_addr /\ conf' = conf
    BY <1>11, Tokens DEF Parse, Stop
  <2>2. \/ x.kind = "item" /\ x.val = tok
        \/ x.kind \in {"dot", "junk"} /\ t = << >> /\ tok = SERVER_IP
    BY <1>2, <1>11, Tokens DEF Read, WaitInv
  <2>3. Len(u) = Len(t) + 1 /\ u[Len(u)] = x
    BY <1>1, <2>2
  <2>4. ItemsInv(u)'
    BY <1>6, <1>11, <2>1, <2>3 DEF ItemsInv, Pending
  <2>5. Awaited(u, Len(u))'
    <3>1. CASE x.kind = "item"
      BY <2>1, <2>2, <2>3, <3>1 DEF Awaited
    <3>2. CASE x.kind # "item"
      <4>1. u[1] = x
        BY <2>2, <2>3, <3>2
      <4> QED
        BY <1>4, <2>1, <2>2, <2>3, <3>2, <4>1 DEF Awaited, Phantom
    <3> QED
      BY <3>1, <3>2
  <2>6. WaitInv(u)'
    BY <1>4, <2>1, <2>5 DEF WaitInv
  <2> QED
    BY <1>9, <1>11, <2>1, <2>4, <2>6
<1>12. CASE parser = "item" /\ tok \notin Items \cup {END}
  <2>1. parser' = "item" /\ sin_addr' = sin_addr /\ conf' = conf
    BY <1>12 DEF Parse, Stop
  <2>2. x.kind # "item"
    BY <1>12, Tokens DEF Read
  <2>3. ItemsInv(u)'
    BY <1>6, <1>12, <2>2 DEF ItemsInv, Pending
  <2>4. tok \in {ASSIGN, NUM, IP}
    BY <1>2, <1>12, Tokens DEF Read, WaitInv
  <2>5. WaitInv(u)'
    BY <2>1, <2>4 DEF WaitInv
  <2> QED
    BY <1>9, <1>12, <2>1, <2>3, <2>5
(* The "=" of the item.                                                    *)
<1>13. CASE parser = "assign"
  <2>1. /\ parser' = "value" /\ tok = ASSIGN /\ item' = item
        /\ sin_addr' = sin_addr /\ conf' = conf
    BY <1>3, <1>13 DEF Parse, Stop
  <2>2. x.kind = "assign"
    <3>1. token \in Items
      BY <1>2, <1>13 DEF WaitInv, TypeOK
    <3> QED
      BY <2>1, <3>1, Tokens DEF Read
  <2>3. Len(u) = Len(t) + 1 /\ u[Len(u)] = x /\ Len(t) = Len(u) - 1
    BY <1>1, <2>2
  <2>4. ItemsInv(u)'
    BY <1>6, <1>13, <2>1, <2>2, <2>3 DEF ItemsInv, Pending
  <2>5. t # << >> /\ Awaited(t, Len(t))
    BY <1>2, <1>13 DEF WaitInv
  <2>6. Len(t) \in 1 .. Len(t) /\ Len(u) > 1
    BY <1>1, <2>3, <2>5
  <2>7. u[Len(t)] = t[Len(t)]
    BY <1>1, <2>6
  <2>8. Awaited(u, Len(t))'
    BY <1>1, <2>1, <2>5, <2>7 DEF Awaited
  <2>9. WaitInv(u)'
    BY <2>1, <2>2, <2>3, <2>6, <2>8 DEF WaitInv
  <2> QED
    BY <1>9, <1>13, <2>1, <2>4, <2>9
(* The value.                                                              *)
<1>14. CASE parser = "value"
  <2>1. tok = ValueToken /\ tok \in {NUM, IP} /\ parser' = "item" /\ item' = item
    BY <1>3, <1>14 DEF Parse, ValueToken, Stop
  <2>2. /\ token = ASSIGN /\ Len(t) > 1 /\ t[Len(t)].kind = "assign" /\ Awaited(t, Len(t) - 1)
    BY <1>2, <1>14 DEF WaitInv
  <2>3. x.kind = "num" /\ (tok = NUM => num = x.val % Short)
    BY <2>1, <2>2, Tokens DEF Read
  <2>4. PICK n : n = Len(t) - 1
    OBVIOUS
  <2>5. n \in 1 .. Len(t)
    BY <1>1, <2>2, <2>4
  <2>6. ASSUME t[n].kind = "item"
        PROVE  t[n].val = item /\ AssignmentAt(u, n) /\ Says(u, item, x.val % Short)
    <3>1. t[n].val = item
      BY <2>2, <2>4, <2>6 DEF Awaited
    <3> QED
      BY <2>2, <2>3, <2>4, <2>6, <3>1, SaysNew
  <2>7. ASSUME NEW tag, NEW value, Says(t, tag, value), ~(t[n].kind = "item" /\ tag = item)
        PROVE  Says(u, tag, value)
    <3>1. ~(t[Len(t) - 1].kind = "item" /\ t[Len(t) - 1].val = tag)
      BY <2>4, <2>6, <2>7
    <3> QED
      BY <2>7, <3>1, SaysKept
  <2>8. ItemsInv(u)'
    <3>1. ASSUME NEW k \in 1 .. Len(t), Pending(t, k), u[k].kind = "item"
          PROVE  AssignmentAt(u, k)
      <4>1. k = n /\ t[n].kind = "item"
        BY <1>1, <1>14, <2>4, <3>1 DEF Pending
      <4> QED
        BY <2>6, <4>1
    <3> QED
      BY <1>6, <2>3, <3>1 DEF ItemsInv
  <2>9. WaitInv(u)'
    BY <2>1 DEF WaitInv
  <2>10. CASE tok = IP
    <3>1. item = SERVER_IP /\ conf' = conf /\ sin_addr' = address
      BY <1>14, <2>1, <2>10, Tokens DEF ValueToken, Parse
    <3>2. \A tag \in Items \ {SERVER_IP} : Says(u, tag, conf'[tag])
      BY <1>2, <2>7, <3>1 DEF ValuesInv
    <3>3. Phantom(u) \/ \E k \in 1 .. Len(u) : u[k].kind = "item" /\ u[k].val = SERVER_IP
      BY <1>1, <1>7, <2>2, <2>4, <2>5, <3>1 DEF Awaited
    <3>4. ValuesInv(u)'
      BY <3>2, <3>3 DEF ValuesInv
    <3> QED
      BY <2>8, <2>9, <3>4
  <2>11. CASE tok = NUM
    <3>1. item \in Items \ {SERVER_IP} /\ conf' = [conf EXCEPT ![item] = num] /\ sin_addr' = sin_addr
      BY <1>14, <2>1, <2>11, Tokens DEF ValueToken, Parse, TypeOK
    <3>2. t[n].kind = "item"
      BY <2>2, <2>4, <3>1 DEF Awaited
    <3>3. conf'[item] = x.val % Short /\ \A tag \in Items \ {SERVER_IP} : tag # item => conf'[tag] = conf[tag]
      BY <2>3, <2>11, <3>1 DEF TypeOK
    <3>4. ASSUME NEW tag \in Items \ {SERVER_IP} PROVE Says(u, tag, conf'[tag])
      <4>1. CASE tag = item
        BY <2>6, <3>2, <3>3, <4>1
      <4>2. CASE tag # item
        <5>1. Says(t, tag, conf'[tag])
          BY <1>2, <3>3, <4>2 DEF ValuesInv
        <5> QED
          BY <2>7, <4>2, <5>1
      <4> QED
        BY <4>1, <4>2
    <3>5. ValuesInv(u)'
      BY <1>8, <3>1, <3>4 DEF ValuesInv
    <3> QED
      BY <2>8, <2>9, <3>5
  <2> QED
    BY <2>1, <2>10, <2>11
<1> QED
  BY <1>2, <1>10, <1>11, <1>12, <1>13, <1>14

-----------------------------------------------------------------------------
(* The inductive invariant: the types, the scanner in step with the file,  *)
(* and the parser with the text that it has read.                          *)
ConfInv ==
  /\ TypeOK
  /\ ScanInv
  /\ ParserInv(Seen)
  /\ parser = "done" => AtEnd

LEMMA SameText ==
  ASSUME UNCHANGED input
  PROVE  TextUpTo' = TextUpTo /\ \A i : Commented(i)' <=> Commented(i)
BY DEF TextUpTo, Commented

LEMMA SameParser ==
  ASSUME NEW t, ParserInv(t), UNCHANGED <<token, parser, item, sin_addr, conf>>
  PROVE  ParserInv(t)'
BY DEF ParserInv, ItemsInv, Pending, WaitInv, Awaited, ValuesInv

LEMMA SeenParser ==
  ASSUME NEW u, u = Seen', ParserInv(u)'
  PROVE  ParserInv(Seen)'
BY DEF ParserInv, ItemsInv, Pending, WaitInv, Awaited, ValuesInv

LEMMA ConfInvInit == Init => ConfInv
<1> SUFFICES ASSUME Init PROVE ConfInv
  OBVIOUS
<1>1. TypeOK
  BY ConfInit
<1>2. ScanInv /\ ~(parser = "done")
  BY DEF Init, ScanInv
<1>3. Seen = << >>
  <2>1. input \in Seq(Piece) /\ 0 \in 0 .. Len(input) /\ pos - 1 = 0
    BY <1>1, PlaceFacts DEF Init
  <2> QED
    BY <2>1, TextIs DEF TextTo, Seen
<1>4. PICK t : t = Seen
  OBVIOUS
<1>5. t = << >> /\ Len(t) = 0 /\ 1 .. Len(t) = {}
  BY <1>3, <1>4
<1>6. ParserInv(t)
  BY <1>5 DEF ParserInv, ItemsInv, WaitInv, ValuesInv, Says, Init
<1> QED
  BY <1>1, <1>2, <1>4, <1>6 DEF ConfInv

(* A step that reads pieces of the text: up to n, the first of them x.     *)
LEMMA ReadStep ==
  ASSUME ConfInv, TypeOK', ~AtEnd, UNCHANGED <<input, in_comment>>, ~in_comment,
         NEW n \in 1 .. Len(input), pos' = n + 1, ~Commented(n),
         Growth(Seen, TextUpTo[n], input[pos]),
         NEW tok, NEW address, NEW num,
         Parse(tok, address, num), token' = tok, Read(input[pos], tok, num),
         tok # END
  PROVE  ConfInv'
<1>1. input \in Seq(Piece) /\ Len(input) \in Nat /\ input[pos] \in Piece /\ TypeOK
  BY PlaceFacts DEF ConfInv
<1>2. PICK t, u, x : t = Seen /\ u = TextUpTo[n] /\ x = input[pos]
  OBVIOUS
<1>3. ParserInv(t)
  BY <1>2 DEF ConfInv
<1>4. ParserInv(u)'
  BY <1>1, <1>2, <1>3, ParserStep
<1>5. pos' - 1 = n /\ pos' # 1
  BY <1>1
<1>6. Seen' = u
  BY <1>2, <1>5, SameText DEF Seen
<1>7. ScanInv'
  BY <1>5, SameText DEF ScanInv
<1>8. parser' # "done"
  BY DEF Parse, Stop
<1> QED
  BY <1>4, <1>6, <1>7, <1>8, SeenParser DEF ConfInv

(* One piece.                                                              *)
LEMMA PieceStep ==
  ASSUME ConfInv, TypeOK', ~AtEnd, UNCHANGED <<input, in_comment>>, ~in_comment,
         pos' = pos + 1, input[pos].kind \notin {"newline", "comment"},
         NEW tok, NEW address, NEW num,
         Parse(tok, address, num), token' = tok, Read(input[pos], tok, num),
         tok # END
  PROVE  ConfInv'
<1>1. /\ TypeOK /\ ScanInv /\ pos \in 1 .. Len(input) /\ input[pos] \in Piece
      /\ Seen \in Seq(Piece)
  BY PlaceFacts DEF ConfInv
<1>2. TextUpTo[pos] = Append(Seen, input[pos]) /\ ~Commented(pos)
  BY <1>1, PieceRead
<1>3. PICK t, x : t = Seen /\ x = input[pos]
  OBVIOUS
<1>4. Growth(t, Append(t, x), x)
  <2>1. /\ Append(t, x) \in Seq(Piece) /\ Len(Append(t, x)) = Len(t) + 1 /\ Len(t) \in Nat
        /\ \A k \in 1 .. Len(t) : Append(t, x)[k] = t[k]
        /\ Append(t, x)[Len(t) + 1] = x
    BY <1>1, <1>3
  <2>2. Len(t) + 2 .. Len(t) + 1 = {}
    BY <2>1
  <2> QED
    BY <1>1, <1>3, <2>1, <2>2 DEF Growth
<1> QED
  BY <1>1, <1>2, <1>3, <1>4, ReadStep

(* An end by exit or crash.                                                *)
LEMMA ExitStep ==
  ASSUME ConfInv, TypeOK', NEW how \in {"exit", "crash"}, Stop(how),
         UNCHANGED <<fin, input, in_comment, pos, token, pre_token>>
  PROVE  ConfInv'
<1>1. parser' = how
  BY DEF Stop
<1>2. ScanInv'
  BY SameText DEF ConfInv, ScanInv
<1> QED
  BY <1>1, <1>2 DEF ConfInv, ParserInv

LEMMA ConfInvNext == ConfInv /\ [Next]_vars => ConfInv'
<1> SUFFICES ASSUME ConfInv, [Next]_vars PROVE ConfInv'
  OBVIOUS
<1>1. TypeOK'
  BY ConfNext DEF ConfInv
<1>2. /\ Len(input) \in Nat /\ pos \in Nat \ {0} /\ input \in Seq(Piece)
      /\ ~AtEnd => pos \in 1 .. Len(input) /\ input[pos] \in Piece
      /\ TypeOK /\ ScanInv
  BY PlaceFacts DEF ConfInv
<1>3. PICK t : t = Seen
  OBVIOUS
<1>4. ParserInv(t)
  BY <1>3 DEF ConfInv
<1>5. ASSUME ~Ended, ~AtEnd, UNCHANGED quiet, pos' = pos + 1,
             in_comment \/ input[pos].kind \in {"newline", "comment"},
             in_comment' <=> input[pos].kind = "comment" \/ (in_comment /\ input[pos].kind # "newline")
      PROVE  ConfInv'
  <2>1. TextUpTo[pos] = Seen /\ (in_comment' <=> Commented(pos))
    BY <1>2, <1>5, SkipRead
  <2>2. pos' - 1 = pos /\ pos' # 1 /\ UNCHANGED input
    BY <1>2, <1>5 DEF quiet
  <2>3. ScanInv'
    BY <2>1, <2>2, SameText DEF ScanInv
  <2>4. Seen' = t
    BY <1>3, <2>1, <2>2, SameText DEF Seen
  <2>5. ParserInv(t)'
    BY <1>4, <1>5, SameParser DEF quiet
  <2>6. parser' # "done"
    BY <1>5 DEF quiet, Ended
  <2> QED
    BY <1>1, <2>3, <2>4, <2>5, <2>6, SeenParser DEF ConfInv
<1>6. CASE SkipBlank
  BY <1>5, <1>6 DEF SkipBlank, At, quiet
<1>7. CASE EnterComment
  BY <1>5, <1>7 DEF EnterComment, At, quiet
<1>8. CASE SkipComment
  BY <1>5, <1>8 DEF SkipComment, quiet
<1>9. CASE CommentSpins \/ UNCHANGED vars
  <2>1. UNCHANGED vars
    BY <1>9 DEF CommentSpins
  <2>2. UNCHANGED input /\ Seen' = t /\ (AtEnd' <=> AtEnd)
    BY <1>3, <2>1, SameText DEF vars, Seen, AtEnd
  <2>3. ParserInv(t)'
    BY <1>4, <2>1, SameParser DEF vars
  <2>4. ScanInv'
    BY <1>2, <2>1, SameText DEF vars, ScanInv
  <2>5. parser' = "done" => AtEnd'
    BY <2>1, <2>2 DEF ConfInv, vars
  <2> QED
    BY <1>1, <2>2, <2>3, <2>4, <2>5, SeenParser DEF ConfInv
<1>10. CASE ParseItem
  <2>1. CASE pos = Len(input)
    BY <1>1, <1>10, <2>1, ExitStep DEF ParseItem, WriteBackFails
  <2>2. CASE pos # Len(input)
    <3>1. PICK x : x = input[pos]
      OBVIOUS
    <3>2. /\ ~AtEnd /\ x.kind = "item" /\ ~in_comment
          /\ Token(x.val, pos + 1, << >>, 0)
      BY <1>10, <2>2, <3>1 DEF ParseItem, At
    <3>3. x.val # END
      BY <1>2, <3>1, <3>2, Tokens
    <3>4. Read(x, x.val, 0)
      BY <3>2 DEF Read
    <3> QED
      BY <1>1, <3>1, <3>2, <3>3, <3>4, PieceStep DEF Token
  <2> QED
    BY <2>1, <2>2
<1>11. CASE ParseWord \/ NotFound
  BY <1>1, <1>11, ExitStep DEF ParseWord, NotFound
<1>12. CASE ParseNumber
  <2>1. CASE pos = Len(input)
    BY <1>1, <1>12, <2>1, ExitStep DEF ParseNumber, WriteBackFails
  <2>2. CASE pos # Len(input)
    <3>1. PICK x, num : x = input[pos] /\ num = input[pos].val % Short
      OBVIOUS
    <3>2. /\ ~AtEnd /\ x.kind = "num" /\ ~in_comment
          /\ Token(NUM, pos + 1, << >>, num)
      BY <1>12, <2>2, <3>1 DEF ParseNumber, At
    <3>3. Read(x, NUM, num)
      BY <3>1, <3>2 DEF Read
    <3> QED
      BY <1>1, <3>1, <3>2, <3>3, Tokens, PieceStep DEF Token
  <2> QED
    BY <2>1, <2>2
<1>13. CASE ReadAssign
  <2>1. /\ ~AtEnd /\ input[pos].kind = "assign" /\ ~in_comment
        /\ Token(ASSIGN, pos + 1, << >>, 0)
    BY <1>13 DEF ReadAssign, At
  <2>2. Read(input[pos], ASSIGN, 0)
    BY <2>1 DEF Read
  <2> QED
    BY <1>1, <2>1, <2>2, Tokens, PieceStep DEF Token
<1>14. CASE ReadOther
  <2>1. /\ ~AtEnd /\ input[pos].kind \in {"dot", "junk"} /\ ~in_comment /\ ~Ended
        /\ Parse(token, << >>, 0) /\ pos' = pos + 1
        /\ UNCHANGED <<fin, input, in_comment, token, pre_token>>
    BY <1>14 DEF ReadOther, At
  <2>2. Read(input[pos], token, 0)
    BY <2>1 DEF Read
  <2>3. token # END
    BY <1>2, <1>4, <2>1, Tokens DEF ParserInv, WaitInv, Ended, TypeOK
  <2> QED
    BY <1>1, <2>1, <2>2, <2>3, PieceStep
<1>15. CASE ParseAddress
  <2>1. CASE AddressEnd = Len(input)
    BY <1>1, <1>15, <2>1, ExitStep DEF ParseAddress, WriteBackFails
  <2>2. CASE AddressEnd # Len(input)
    <3>1. At("num") /\ Token(IP, AddressEnd + 1, SubSeq(input, pos, AddressEnd), 0)
      BY <1>15, <2>2 DEF ParseAddress
    <3>2. PICK last, u, address :
            last = AddressEnd /\ u = TextUpTo[last] /\ address = SubSeq(input, pos, last)
      OBVIOUS
    <3>3. /\ last \in pos .. Len(input)
          /\ \A i \in pos .. last : input[i].kind \in {"num", "dot"}
      BY <1>2, <3>1, <3>2, AddressFacts
    <3>4. /\ ~AtEnd /\ input[pos].kind = "num" /\ ~in_comment
          /\ Token(IP, last + 1, address, 0)
      BY <3>1, <3>2 DEF At
    <3>5. /\ ~Commented(last) /\ u \in Seq(Piece) /\ Len(u) = Len(t) + (last - pos + 1)
          /\ \A k \in 1 .. Len(t) : u[k] = t[k]
          /\ \A k \in 1 .. last - pos + 1 : u[Len(t) + k] = input[pos + k - 1]
      BY <1>2, <1>3, <3>1, <3>2, AddressRead
    <3>6. Growth(t, u, input[pos])
      <4>1. t \in Seq(Piece) /\ Len(t) \in Nat /\ pos \in Nat /\ last \in Nat /\ pos <= last
        BY <1>2, <1>3, <3>3, PlaceFacts
      <4>2. Len(t) < Len(u) /\ 1 \in 1 .. last - pos + 1 /\ pos + 1 - 1 = pos
        BY <3>5, <4>1
      <4>3. u[Len(t) + 1] = input[pos]
        BY <3>5, <4>2
      <4>4. ASSUME NEW k \in Len(t) + 2 .. Len(u) PROVE u[k].kind \in {"num", "dot"}
        <5>1. PICK i \in Int : i = k - Len(t)
          BY <4>1
        <5>2. i \in 1 .. last - pos + 1 /\ k = Len(t) + i /\ pos + i - 1 \in pos .. last
          BY <3>5, <4>1, <4>4, <5>1
        <5> QED
          BY <3>3, <3>5, <5>2
      <4> QED
        BY <3>4, <3>5, <4>1, <4>2, <4>3, <4>4 DEF Growth
    <3>7. Read(input[pos], IP, 0)
      BY <3>4 DEF Read
    <3>8. last \in 1 .. Len(input)
      BY <1>2, <3>3
    <3> QED
      BY <1>1, <1>3, <3>2, <3>4, <3>5, <3>6, <3>7, <3>8, Tokens, ReadStep DEF Token
  <2> QED
    BY <2>1, <2>2
<1>16. CASE ReadEnd
  <2>1. /\ AtEnd /\ ~Ended /\ Parse(END, << >>, 0) /\ token' = END /\ pos' = pos
        /\ UNCHANGED <<fin, input, in_comment>>
    BY <1>16 DEF ReadEnd, Token
  <2>2. Seen' = t /\ AtEnd'
    BY <1>3, <2>1, SameText DEF Seen, AtEnd
  <2>3. ScanInv'
    BY <1>2, <2>1, SameText DEF ScanInv
  <2>4. parser' \in {"done", "exit"} /\ UNCHANGED <<sin_addr, conf, item>> /\ (parser' = "done" => parser = "item")
    BY <2>1, Tokens DEF Parse, Stop, ValueToken
  <2>5. ParserInv(t)'
    BY <1>4, <2>4 DEF ParserInv, ItemsInv, Pending, WaitInv, ValuesInv
  <2> QED
    BY <1>1, <2>2, <2>3, <2>5, SeenParser DEF ConfInv
<1> QED
  BY <1>6, <1>7, <1>8, <1>9, <1>10, <1>11, <1>12, <1>13, <1>14, <1>15, <1>16 DEF Next

(* In every state of load_config, scanner and parser are in step with the  *)
(* text that has been read.                                                *)
THEOREM ConfInvariant == Spec => []ConfInv
BY ConfInvInit, ConfInvNext, PTL DEF Spec

(* The types of load_config's variables: the numbers stored have 16 bits,  *)
(* the address consists of digits and dots.                                *)
THEOREM ConfTypeCorrect == Spec => []TypeOK
<1>1. ConfInv => TypeOK
  BY DEF ConfInv
<1> QED
  BY <1>1, ConfInvariant, PTL

(* The last assignment to an item is one if there is any, and the only one *)
(* without another behind it.                                              *)
LEMMA AssignmentIs ==
  ASSUME NEW t \in Seq(Piece), NEW tag,
         \E k \in 1 .. Len(t) : t[k].kind = "item" /\ t[k].val = tag
  PROVE  /\ Assignment(t, tag) \in 1 .. Len(t)
         /\ t[Assignment(t, tag)].kind = "item" /\ t[Assignment(t, tag)].val = tag
         /\ \A j \in 1 .. Len(t) :
              t[j].kind = "item" /\ t[j].val = tag => j <= Assignment(t, tag)
<1> DEFINE here == {k \in DOMAIN t : t[k].kind = "item" /\ t[k].val = tag}
           rest == {n \in 0 .. Len(t) : Len(t) - n \in here}
<1>1. Len(t) \in Nat /\ DOMAIN t = 1 .. Len(t)
  OBVIOUS
<1>2. here # {} /\ here \subseteq 1 .. Len(t)
  BY <1>1
<1>3. rest # {} /\ rest \in SUBSET Nat
  <2>1. PICK k \in here : TRUE
    BY <1>2
  <2>2. k \in 1 .. Len(t)
    BY <1>2
  <2>3. Len(t) - k \in 0 .. Len(t) /\ Len(t) - (Len(t) - k) = k
    BY <1>1, <2>2
  <2> HIDE DEF here
  <2>4. Len(t) - k \in rest
    BY <2>1, <2>3
  <2> QED
    BY <1>1, <2>4
<1>4. PICK m \in rest : \A n \in rest : m <= n
  <2> HIDE DEF rest
  <2> QED
    BY <1>3, LeastExists
<1>5. Len(t) - m \in here /\ m \in Nat
  BY <1>1
<1>6. ASSUME NEW j \in here PROVE j <= Len(t) - m
  <2>1. j \in 1 .. Len(t)
    BY <1>2
  <2>2. Len(t) - j \in 0 .. Len(t) /\ Len(t) - (Len(t) - j) = j
    BY <1>1, <2>1
  <2>3. Len(t) - j \in rest
    <3> HIDE DEF here
    <3> QED
      BY <1>6, <2>2
  <2>4. m <= Len(t) - j
    <3> HIDE DEF rest
    <3> QED
      BY <1>4, <2>3
  <2> QED
    BY <1>1, <1>5, <2>1, <2>4
<1>7. PICK last : last = Assignment(t, tag)
  OBVIOUS
<1>8. last = CHOOSE k \in here : \A j \in here : j <= k
  BY <1>2, <1>7 DEF Assignment
<1>9. last \in here /\ \A j \in here : j <= last
  <2>1. \E k \in here : \A j \in here : j <= k
    BY <1>5, <1>6
  <2> HIDE DEF here
  <2> QED
    BY <1>8, <2>1
<1> QED
  BY <1>1, <1>7, <1>9

LEMMA AssignmentNone ==
  ASSUME NEW t, NEW tag,
         ~\E k \in DOMAIN t : t[k].kind = "item" /\ t[k].val = tag
  PROVE  Assignment(t, tag) = 0
BY DEF Assignment

LEMMA ConfAccountable == ConfInv => Accountable
<1> SUFFICES ASSUME ConfInv, parser = "done"
             PROVE  LET text == Text
                    IN  /\ \A k \in DOMAIN text :
                             /\ text[k].kind # "word"
                             /\ text[k].kind = "item" => AssignmentAt(text, k)
                        /\ \A tag \in DOMAIN conf : conf[tag] = Number(text, tag)
                        /\ sin_addr # << >> => \/ Assignment(text, SERVER_IP) # 0
                                               \/ text[1].kind \in {"dot", "junk"}
  BY DEF Accountable
<1>1. PICK t : t = Text
  OBVIOUS
<1>2. t = Seen /\ t \in Seq(Piece)
  <2>1. pos - 1 = Len(input) /\ Seen \in Seq(Piece)
    BY PlaceFacts DEF ConfInv, AtEnd
  <2> QED
    BY <1>1, <2>1 DEF Seen, Text
<1>3. Len(t) \in Nat /\ DOMAIN t = 1 .. Len(t)
  BY <1>2
<1>4. ItemsInv(t) /\ ValuesInv(t)
  BY <1>2 DEF ConfInv, ParserInv
<1>5. \A k \in 1 .. Len(t) : t[k].kind # "word" /\ (t[k].kind = "item" => AssignmentAt(t, k))
  BY <1>4 DEF ItemsInv, Pending
<1>6. ASSUME NEW tag \in DOMAIN conf PROVE conf[tag] = Number(t, tag)
  <2>1. Says(t, tag, conf[tag])
    BY <1>4 DEF ValuesInv, ConfInv, TypeOK
  <2>2. \A k \in 1 .. Len(t) : Assigned(t, k, tag) <=> t[k].kind = "item" /\ t[k].val = tag
    BY <1>5 DEF Assigned, AssignmentAt
  <2>3. CASE conf[tag] = Default[tag] /\ \A k \in 1 .. Len(t) : ~Assigned(t, k, tag)
    BY <1>3, <2>2, <2>3, AssignmentNone DEF Number
  <2>4. ASSUME NEW k \in 1 .. Len(t), Assigned(t, k, tag), conf[tag] = t[k + 2].val % Short,
               \A j \in k + 1 .. Len(t) : ~Assigned(t, j, tag)
        PROVE  conf[tag] = Number(t, tag)
    <3>1. PICK last : last = Assignment(t, tag)
      OBVIOUS
    <3>2. last \in 1 .. Len(t) /\ Assigned(t, last, tag) /\ k <= last
      BY <1>2, <2>2, <2>4, <3>1, AssignmentIs
    <3>3. ~(last \in k + 1 .. Len(t))
      BY <2>4, <3>2
    <3>4. last = k /\ last # 0
      BY <1>3, <3>2, <3>3
    <3> QED
      BY <2>4, <3>1, <3>4 DEF Number
  <2> QED
    BY <2>1, <2>3, <2>4 DEF Says
<1>7. ASSUME sin_addr # << >>
      PROVE  Assignment(t, SERVER_IP) # 0 \/ t[1].kind \in {"dot", "junk"}
  <2>1. CASE Phantom(t)
    BY <2>1 DEF Phantom
  <2>2. CASE \E k \in 1 .. Len(t) : t[k].kind = "item" /\ t[k].val = SERVER_IP
    <3>1. PICK last : last = Assignment(t, SERVER_IP)
      OBVIOUS
    <3>2. last \in 1 .. Len(t)
      BY <1>2, <2>2, <3>1, AssignmentIs
    <3> QED
      BY <1>3, <3>1, <3>2
  <2> QED
    BY <1>4, <1>7, <2>1, <2>2 DEF ValuesInv
<1> QED
  BY <1>1, <1>3, <1>5, <1>6, <1>7

(* A configuration that load_config has accepted says what the file says:  *)
(* every name is an item with "=" and a number, and every value comes from *)
(* the last assignment to it or from default_config.                       *)
THEOREM ConfAccountableAlways == Spec => []Accountable
BY ConfInvariant, ConfAccountable, PTL

-----------------------------------------------------------------------------
(* What has been read is the beginning of the text.                        *)
Begins(t, w) ==
  /\ t \in Seq(Piece) /\ w \in Seq(Piece) /\ Len(t) <= Len(w)
  /\ \A k \in 1 .. Len(t) : w[k] = t[k]

LEMMA TextBegins ==
  ASSUME input \in Seq(Piece), NEW n \in 0 .. Len(input)
  PROVE  Begins(TextUpTo[n], Text)
<1>1. PICK T : T = TextUpTo
  OBVIOUS
<1>2. /\ T \in [0 .. Len(input) -> Seq(Piece)]
      /\ \A k \in 0 .. Len(input) :
           T[k] = IF k = 0 THEN << >>
                  ELSE IF input[k].kind = "newline" \/ Commented(k) THEN T[k - 1]
                  ELSE Append(T[k - 1], input[k])
  BY <1>1, TextIs DEF TextTo
<1> DEFINE Bad == {m \in n .. Len(input) : ~Begins(T[n], T[m])}
<1>3. Len(input) \in Nat
  OBVIOUS
<1>4. Bad = {}
  <2> SUFFICES ASSUME Bad # {} PROVE FALSE
    OBVIOUS
  <2>1. PICK m \in Bad : \A k \in Bad : m <= k
    <3>1. Bad \in SUBSET Nat
      BY <1>3
    <3> HIDE DEF Bad
    <3> QED
      BY <3>1, LeastExists
  <2>2. m \in n .. Len(input) /\ ~Begins(T[n], T[m])
    OBVIOUS
  <2>3. T[n] \in Seq(Piece) /\ n \in Nat /\ m \in Nat /\ m \in 0 .. Len(input)
    BY SMTT(30), <1>2, <1>3, <2>2
  <2>4. m # n
    BY <2>2, <2>3 DEF Begins
  <2>5. m - 1 \in n .. Len(input) /\ m - 1 \notin Bad /\ m # 0
    <3>1. ~(m <= m - 1) /\ m - 1 \in n .. Len(input) /\ m # 0
      BY <1>3, <2>2, <2>3, <2>4
    <3> HIDE DEF Bad
    <3> QED
      BY <2>1, <3>1
  <2>6. Begins(T[n], T[m - 1])
    BY <2>5
  <2>7. T[m] \in {T[m - 1], Append(T[m - 1], input[m])}
    BY <1>2, <2>3, <2>5
  <2>8. PICK q, x : q = T[m - 1] /\ x = input[m]
    OBVIOUS
  <2>9. q \in Seq(Piece) /\ x \in Piece
    <3>1. m \in 1 .. Len(input) /\ m - 1 \in 0 .. Len(input)
      BY <1>3, <2>3, <2>5
    <3> QED
      BY <1>2, <2>8, <3>1, ElementOfSeq
  <2>10. /\ Append(q, x) \in Seq(Piece) /\ Len(Append(q, x)) = Len(q) + 1 /\ Len(q) \in Nat
         /\ \A k \in 1 .. Len(q) : Append(q, x)[k] = q[k]
    BY <2>9
  <2>11. Begins(T[n], Append(q, x))
    <3>1. Begins(T[n], q)
      BY <2>6, <2>8
    <3>2. Len(T[n]) \in Nat /\ Len(T[n]) <= Len(q)
      BY <2>3, <3>1 DEF Begins
    <3>3. \A k \in 1 .. Len(T[n]) : k \in 1 .. Len(q)
      BY <2>10, <3>2
    <3>4. Len(T[n]) <= Len(q) + 1
      BY <2>10, <3>2
    <3> QED
      BY <2>10, <3>1, <3>3, <3>4 DEF Begins
  <2> QED
    BY <2>2, <2>6, <2>7, <2>8, <2>11
<1>5. Len(input) \in n .. Len(input)
  BY <1>3
<1> QED
  BY <1>1, <1>4, <1>5 DEF Text

-----------------------------------------------------------------------------
(* A well-formed file.  The address a is the run of digits and dots of t   *)
(* from first to last.                                                     *)
IsRun(a, t, first, last) ==
  /\ a \in Seq(Piece) /\ Len(a) = last - first + 1
  /\ \A i \in 1 .. last - first + 1 : a[i] = t[first + i - 1]
  /\ \A i \in first .. last : t[i].kind \in {"num", "dot"}

AddressAt(t, k, last) ==
  /\ Assigned(t, k, SERVER_IP)
  /\ \A j \in k + 1 .. Len(t) : ~Assigned(t, j, SERVER_IP)
  /\ IsRun(sin_addr, t, k + 2, last)
  /\ KindAt(t, last + 1) \notin {"num", "dot"}

AddressInv(t) ==
  \/ sin_addr = << >> /\ \A k \in 1 .. Len(t) : ~Assigned(t, k, SERVER_IP)
  \/ \E k \in 1 .. Len(t) : \E last \in k + 2 .. Len(t) : AddressAt(t, k, last)

NumberBefore(t) ==
  /\ token = NUM /\ Len(t) > 2
  /\ t[Len(t) - 1].kind = "assign"
  /\ t[Len(t) - 2].kind = "item" /\ t[Len(t) - 2].val # SERVER_IP

AddressBefore ==
  /\ token = IP
  /\ \/ in_comment \/ AtEnd
     \/ input[pos - 1].kind = "newline"
     \/ input[pos].kind \notin {"num", "dot"}

WrittenInv(t) ==
  /\ parser \in {"item", "assign", "value", "done"}
  /\ parser = "item" => \/ t = << >>
                        \/ /\ t # << >> /\ t[Len(t)].kind = "num"
                           /\ NumberBefore(t) \/ AddressBefore
  /\ parser = "value" => pre_token = item
  /\ AddressInv(t)

(* The first piece is an item.                                             *)
LEMMA NoPhantom ==
  ASSUME NEW t, NEW w, Begins(t, w), WellFormed(w)
  PROVE  ~Phantom(t)
<1> SUFFICES ASSUME Phantom(t) PROVE FALSE
  OBVIOUS
<1>1. t # << >> /\ t[1].kind \in {"dot", "junk"} /\ t \in Seq(Piece) /\ w \in Seq(Piece)
  BY DEF Phantom, Begins
<1>2. 1 \in 1 .. Len(t) /\ 1 \in DOMAIN w /\ w[1] = t[1]
  BY <1>1 DEF Begins
<1>3. w[1].kind = "dot"
  BY <1>1, <1>2 DEF WellFormed
<1>4. \E j \in 1 .. 1 : w[j].kind = "item"
  BY <1>2, <1>3 DEF WellFormed
<1>5. \A j \in 1 .. 1 : j = 1
  OBVIOUS
<1> QED
  BY <1>3, <1>4, <1>5

(* What comes next in a well-formed file is what the parser waits for.     *)
LEMMA Expected ==
  ASSUME NEW t, NEW w, Begins(t, w), WellFormed(w), WaitInv(t), WrittenInv(t),
         Len(t) < Len(w), NEW x, x = w[Len(t) + 1],
         x.kind = "dot" =>
           ~in_comment /\ ~AtEnd /\ input[pos].kind = "dot" /\ input[pos - 1].kind = "num",
         x \in Piece, x.kind \notin {"newline", "comment"}
  PROVE  /\ parser = "item" => x.kind = "item"
         /\ parser = "assign" => t # << >> /\ x.kind = "assign" /\ t[Len(t)].kind = "item"
         /\ parser = "value" => x.kind = "num" /\ t[Len(t) - 1].kind = "item"
<1>1. /\ t \in Seq(Piece) /\ w \in Seq(Piece) /\ Len(t) \in Nat /\ Len(w) \in Nat
      /\ \A k \in 1 .. Len(t) : k \in 1 .. Len(w) /\ w[k] = t[k]
      /\ DOMAIN w = 1 .. Len(w)
      /\ t # << >> => Len(t) \in 1 .. Len(t)
  BY DEF Begins
<1>2. ~Phantom(t)
  BY NoPhantom
<1>3. PICK n \in Nat : n = Len(t) + 1
  BY <1>1
<1>4. n \in 1 .. Len(w) /\ n \in DOMAIN w /\ n - 1 = Len(t)
  BY <1>1, <1>3
<1>5. CASE parser = "item"
  <2>1. x.kind \in {"item", "word", "num", "dot", "assign", "junk"}
    BY DEF Piece
  <2>2. x.kind \notin {"word", "junk"}
    BY <1>3, <1>4 DEF WellFormed
  <2>3. KindAt(w, n - 1) \in {"none", "num"}
    <3>1. CASE t = << >>
      <4>1. n - 1 \notin 1 .. Len(w)
        BY <1>1, <1>4, <3>1
      <4> QED
        BY <1>1, <4>1 DEF KindAt
    <3>2. CASE t # << >>
      BY <1>1, <1>4, <1>5, <3>2 DEF KindAt, WrittenInv
    <3> QED
      BY <3>1, <3>2
  <2>4. x.kind \notin {"num", "assign"}
    BY <1>3, <1>4, <2>3 DEF WellFormed
  <2>5. x.kind # "dot"
    <3> SUFFICES ASSUME x.kind = "dot" PROVE FALSE
      OBVIOUS
    <3>1. PICK j \in 1 .. n : /\ w[j].kind = "item" /\ w[j].val = SERVER_IP
                              /\ \A i \in j + 1 .. n : w[i].kind # "item"
      BY <1>3, <1>4 DEF WellFormed
    <3>2. j # n
      BY <1>3, <3>1
    <3>3. CASE t = << >>
      BY <1>1, <1>3, <3>2, <3>3
    <3>4. CASE NumberBefore(t)
      <4>1. PICK m : m = Len(t)
        OBVIOUS
      <4>2. m \in Nat /\ m > 2 /\ n = m + 1 /\ m - 2 \in 1 .. m /\ m - 1 \in 1 .. m /\ m \in 1 .. m
        BY <1>1, <1>3, <3>4, <4>1 DEF NumberBefore
      <4>3. /\ w[m - 2].kind = "item" /\ w[m - 2].val # SERVER_IP
            /\ w[m - 1].kind = "assign"
        BY <1>1, <3>4, <4>1, <4>2 DEF NumberBefore
      <4>4. w[m].kind = "num"
        BY <1>1, <1>5, <4>1, <4>2 DEF WrittenInv
      <4>5. m - 2 \in j + 1 .. n \/ j = m - 2 \/ j = m - 1 \/ j = m
        BY <3>2, <4>2
      <4> QED
        BY <3>1, <4>3, <4>4, <4>5
    <3>5. CASE AddressBefore
      BY <3>5 DEF AddressBefore
    <3> QED
      BY <1>5, <3>3, <3>4, <3>5 DEF WrittenInv
  <2> QED
    BY <1>5, <2>1, <2>2, <2>4, <2>5
<1>6. CASE parser = "assign"
  <2>1. t # << >> /\ t[Len(t)].kind = "item"
    BY <1>2, <1>6 DEF WaitInv, Awaited
  <2>2. AssignmentAt(w, Len(t))
    BY <1>1, <2>1 DEF WellFormed
  <2>3. x.kind = "assign"
    BY <1>1, <1>3, <1>4, <2>2 DEF AssignmentAt, KindAt
  <2> QED
    BY <1>6, <2>1, <2>3
<1>7. CASE parser = "value"
  <2>1. Len(t) > 1 /\ t[Len(t) - 1].kind = "item"
    BY <1>2, <1>7 DEF WaitInv, Awaited
  <2>2. Len(t) - 1 \in 1 .. Len(t) /\ (Len(t) - 1) + 2 = n
    BY <1>1, <1>3, <2>1
  <2>3. AssignmentAt(w, Len(t) - 1)
    BY <1>1, <2>1, <2>2 DEF WellFormed
  <2>4. x.kind = "num"
    BY <1>1, <1>3, <1>4, <2>2, <2>3 DEF AssignmentAt, KindAt
  <2> QED
    BY <1>7, <2>1, <2>4
<1> QED
  BY <1>5, <1>6, <1>7

(* What is said of the address stays, but for a new assignment to it.      *)
LEMMA AddressKept ==
  ASSUME NEW t, NEW u, NEW x, Growth(t, u, x), AddressInv(t), sin_addr' = sin_addr,
         ~(/\ Len(t) - 1 \in 1 .. Len(t) /\ t[Len(t) - 1].val = SERVER_IP
           /\ t[Len(t)].kind = "assign" /\ x.kind = "num"),
         x.kind \in {"num", "dot"} => t[Len(t)].kind \notin {"num", "dot"}
  PROVE  AddressInv(u)'
<1>1. /\ Len(t) \in Nat /\ Len(u) \in Nat /\ Len(t) < Len(u)
      /\ \A k \in 1 .. Len(t) : k \in 1 .. Len(u) /\ u[k] = t[k]
      /\ u[Len(t) + 1] = x /\ DOMAIN t = 1 .. Len(t) /\ DOMAIN u = 1 .. Len(u)
  BY GrowthFacts DEF Growth
<1>2. \A k \in 1 .. Len(u) :
        Assigned(u, k, SERVER_IP) => k \in 1 .. Len(t) /\ Assigned(t, k, SERVER_IP)
  <2> SUFFICES ASSUME NEW k \in 1 .. Len(u), AssignmentAt(u, k), u[k].val = SERVER_IP
               PROVE  k \in 1 .. Len(t) /\ AssignmentAt(t, k) /\ t[k].val = SERVER_IP
    BY DEF Assigned
  <2>1. k \in 1 .. Len(t) /\ u[k] = t[k]
    BY AssignmentNew
  <2> QED
    BY <2>1, AssignmentNew
<1>3. CASE sin_addr = << >> /\ \A k \in 1 .. Len(t) : ~Assigned(t, k, SERVER_IP)
  BY <1>2, <1>3 DEF AddressInv
<1>4. ASSUME NEW k \in 1 .. Len(t), NEW last \in k + 2 .. Len(t), AddressAt(t, k, last)
      PROVE  AddressInv(u)'
  <2>1. k \in 1 .. Len(u) /\ last \in k + 2 .. Len(u) /\ last \in 1 .. Len(t)
    BY <1>1
  <2>2. Assigned(u, k, SERVER_IP)
    BY <1>4, AssignmentKept DEF AddressAt, Assigned
  <2>3. \A j \in k + 1 .. Len(u) : ~Assigned(u, j, SERVER_IP)
    <3>1. \A j \in k + 1 .. Len(u) : j \in 1 .. Len(u) /\ (j \in 1 .. Len(t) => j \in k + 1 .. Len(t))
      BY <1>1
    <3> QED
      BY <1>2, <1>4, <3>1 DEF AddressAt
  <2>4. IsRun(sin_addr, u, k + 2, last)
    <3>1. \A i \in 1 .. last - (k + 2) + 1 : (k + 2) + i - 1 \in 1 .. Len(t)
      BY <1>1
    <3>2. \A i \in k + 2 .. last : i \in 1 .. Len(t)
      BY <1>1
    <3> QED
      BY <1>1, <1>4, <3>1, <3>2 DEF AddressAt, IsRun
  <2>5. KindAt(u, last + 1) \notin {"num", "dot"}
    <3>1. CASE last = Len(t)
      <4>1. last + 1 \in DOMAIN u /\ u[last + 1] = x /\ last \in k + 2 .. last
        BY <1>1, <3>1
      <4>2. t[last].kind \in {"num", "dot"}
        BY <1>4, <4>1 DEF AddressAt, IsRun
      <4> QED
        BY <3>1, <4>1, <4>2 DEF KindAt
    <3>2. CASE last # Len(t)
      <4>1. PICK n \in Nat : n = Len(t)
        BY <1>1
      <4>2. last \in 1 .. n /\ last # n
        BY <2>1, <3>2, <4>1
      <4>3. last + 1 \in 1 .. n
        BY <4>2
      <4> QED
        BY <1>1, <1>4, <4>1, <4>3 DEF AddressAt, KindAt
    <3> QED
      BY <3>1, <3>2
  <2>6. AddressAt(u, k, last)'
    BY <2>2, <2>3, <2>4, <2>5 DEF AddressAt
  <2> QED
    BY <2>1, <2>6 DEF AddressInv
<1> QED
  BY <1>3, <1>4 DEF AddressInv

(* A new assignment to it is completed by the address.                     *)
LEMMA AddressNew ==
  ASSUME NEW t, NEW u, NEW x, Growth(t, u, x), Len(t) > 1,
         t[Len(t) - 1].kind = "item", t[Len(t) - 1].val = SERVER_IP,
         t[Len(t)].kind = "assign", x.kind = "num",
         IsRun(sin_addr', u, Len(t) + 1, Len(u))
  PROVE  AddressInv(u)'
<1>1. /\ Len(t) \in Nat /\ Len(u) \in Nat /\ Len(t) < Len(u)
      /\ \A k \in 1 .. Len(t) : k \in 1 .. Len(u) /\ u[k] = t[k]
      /\ DOMAIN t = 1 .. Len(t) /\ DOMAIN u = 1 .. Len(u)
  BY GrowthFacts DEF Growth
<1>2. PICK k \in Nat : k = Len(t) - 1
  <2>1. Len(t) - 1 \in Nat
    BY ONLY <1>1, Len(t) > 1
  <2> QED
    BY <2>1
<1>3. /\ k \in 1 .. Len(t) /\ k \in 1 .. Len(u) /\ k + 2 = Len(t) + 1
      /\ Len(u) \in k + 2 .. Len(u) /\ Len(u) + 1 \notin 1 .. Len(u)
  BY <1>1, <1>2
<1>4. Assigned(u, k, SERVER_IP)
  BY <1>1, <1>2, <1>3, SaysNew DEF Assigned
<1>5. ASSUME NEW j \in k + 1 .. Len(u) PROVE ~Assigned(u, j, SERVER_IP)
  <2> SUFFICES ASSUME AssignmentAt(u, j) PROVE FALSE
    BY DEF Assigned
  <2>1. j \in 1 .. Len(u) /\ j \in Nat /\ j > k
    BY <1>1, <1>3
  <2>2. j \in 1 .. Len(t) /\ (AssignmentAt(t, j) \/ j = Len(t) - 1)
    BY <2>1, AssignmentNew
  <2>3. j <= Len(t) /\ Len(t) = k + 1
    <3>1. PICK n \in Nat : n = Len(t)
      BY <1>1
    <3>2. n = k + 1 /\ j \in 1 .. n
      BY <1>2, <2>2, <3>1
    <3> QED
      BY <3>1, <3>2
  <2>4. j = Len(t) /\ j # Len(t) - 1
    BY <1>2, <2>1, <2>3
  <2> QED
    BY <2>2, <2>4 DEF AssignmentAt
<1>6. KindAt(u, Len(u) + 1) \notin {"num", "dot"}
  BY <1>1, <1>3 DEF KindAt
<1>7. AddressAt(u, k, Len(u))'
  BY <1>3, <1>4, <1>5, <1>6 DEF AddressAt
<1> QED
  BY <1>3, <1>7 DEF AddressInv

LEMMA WrittenInit ==
  ASSUME Init
  PROVE  WrittenInv(Seen)
<1>1. Seen = << >>
  <2>1. input \in Seq(Piece) /\ 0 \in 0 .. Len(input) /\ pos - 1 = 0
    BY ConfInit, PlaceFacts DEF Init
  <2> QED
    BY <2>1, TextIs DEF TextTo, Seen
<1>2. PICK t : t = Seen
  OBVIOUS
<1>3. t = << >> /\ 1 .. Len(t) = {}
  BY <1>1, <1>2
<1>4. WrittenInv(t)
  BY <1>3 DEF WrittenInv, AddressInv, Init
<1> QED
  BY <1>2, <1>4

LEMMA SeenWritten ==
  ASSUME NEW u, u = Seen', WrittenInv(u)'
  PROVE  WrittenInv(Seen)'
BY DEF WrittenInv, NumberBefore, AddressBefore, AddressInv, AddressAt

LEMMA AppendGrowth ==
  ASSUME NEW t \in Seq(Piece), NEW x \in Piece
  PROVE  Growth(t, Append(t, x), x)
<1>1. /\ Append(t, x) \in Seq(Piece) /\ Len(Append(t, x)) = Len(t) + 1 /\ Len(t) \in Nat
      /\ \A k \in 1 .. Len(t) : Append(t, x)[k] = t[k]
      /\ Append(t, x)[Len(t) + 1] = x
  OBVIOUS
<1>2. Len(t) + 2 .. Len(t) + 1 = {}
  BY <1>1
<1> QED
  BY <1>1, <1>2 DEF Growth

(* The next piece of a well-formed file.                                   *)
LEMMA NextPiece ==
  ASSUME ConfInv, WellFormed(Text), NEW t, t = Seen, WrittenInv(t),
         ~Ended, ~in_comment, ~AtEnd, NEW x, x = input[pos],
         x.kind \notin {"newline", "comment"}
  PROVE  /\ TextUpTo[pos] = Append(t, x) /\ Growth(t, Append(t, x), x)
         /\ parser = "item" => x.kind = "item"
         /\ parser = "assign" => t # << >> /\ x.kind = "assign" /\ t[Len(t)].kind = "item"
         /\ parser = "value" => x.kind = "num" /\ t[Len(t) - 1].kind = "item"
         /\ WaitInv(t) /\ parser \in {"item", "assign", "value"}
         /\ pos # Len(input) /\ input[Len(input)].kind = "newline"
<1>1. /\ TypeOK /\ ScanInv /\ pos \in 1 .. Len(input) /\ x \in Piece /\ t \in Seq(Piece)
      /\ input \in Seq(Piece)
  BY PlaceFacts DEF ConfInv
<1>2. TextUpTo[pos] = Append(t, x) /\ ~Commented(pos)
  BY <1>1, PieceRead
<1>3. Growth(t, Append(t, x), x)
  BY <1>1, AppendGrowth
<1>4. parser \in {"item", "assign", "value"} /\ WaitInv(t)
  BY DEF ConfInv, ParserInv, WrittenInv, Ended
<1>5. input[Len(input)].kind = "newline" /\ pos # Len(input)
  <2>1. input # << >>
    BY <1>1
  <2> QED
    BY <2>1 DEF WellFormed
<1>6. PICK w : w = Text
  OBVIOUS
<1>7. Begins(Append(t, x), w)
  <2>1. pos \in 0 .. Len(input)
    BY <1>1
  <2> QED
    BY <1>1, <1>2, <1>6, <2>1, TextBegins
<1>8. Begins(t, w) /\ Len(t) < Len(w) /\ x = w[Len(t) + 1]
  <2>1. /\ Len(Append(t, x)) = Len(t) + 1 /\ Len(t) \in Nat
        /\ \A k \in 1 .. Len(t) : Append(t, x)[k] = t[k]
        /\ Append(t, x)[Len(t) + 1] = x
    BY <1>1
  <2>2. w \in Seq(Piece) /\ Len(w) \in Nat /\ Len(t) + 1 <= Len(w)
    BY <1>7, <2>1 DEF Begins
  <2>3. \A k \in 1 .. Len(t) : k \in 1 .. Len(t) + 1
    BY <2>1
  <2>4. Len(t) + 1 \in 1 .. Len(t) + 1 /\ Len(t) <= Len(w) /\ Len(t) < Len(w)
    BY <2>1, <2>2
  <2> QED
    BY <1>1, <1>7, <2>1, <2>2, <2>3, <2>4 DEF Begins
<1>9. x.kind = "dot" =>
        ~in_comment /\ ~AtEnd /\ input[pos].kind = "dot" /\ input[pos - 1].kind = "num"
  <2>1. pos \in DOMAIN input
    BY <1>1
  <2> QED
    BY <1>2, <2>1 DEF WellFormed
<1>10. WellFormed(w)
  BY <1>6
<1>11. /\ parser = "item" => x.kind = "item"
       /\ parser = "assign" => t # << >> /\ x.kind = "assign" /\ t[Len(t)].kind = "item"
       /\ parser = "value" => x.kind = "num" /\ t[Len(t) - 1].kind = "item"
  BY <1>1, <1>4, <1>8, <1>9, <1>10, Expected
<1> QED
  BY <1>2, <1>3, <1>4, <1>5, <1>11

(* The end of the file comes between two assignments.                      *)
LEMMA NoneExpected ==
  ASSUME ConfInv, WellFormed(Text), AtEnd, ~Ended, WrittenInv(Seen)
  PROVE  parser = "item"
<1>1. PICK t : t = Seen
  OBVIOUS
<1>2. t = Text /\ t \in Seq(Piece)
  <2>1. pos - 1 = Len(input) /\ Seen \in Seq(Piece)
    BY PlaceFacts DEF ConfInv, AtEnd
  <2> QED
    BY <1>1, <2>1 DEF Seen, Text
<1>3. Len(t) \in Nat /\ DOMAIN t = 1 .. Len(t)
  BY <1>2
<1>4. parser \in {"item", "assign", "value"} /\ WaitInv(t)
  BY <1>1 DEF ConfInv, ParserInv, WrittenInv, Ended
<1>5. WellFormed(t) /\ ~Phantom(t)
  <2>1. Begins(t, t)
    BY <1>2, <1>3 DEF Begins
  <2> QED
    BY <1>2, <2>1, NoPhantom
<1>6. CASE parser = "assign"
  <2>1. t # << >> /\ t[Len(t)].kind = "item"
    BY <1>4, <1>5, <1>6 DEF WaitInv, Awaited
  <2>2. Len(t) \in DOMAIN t /\ Len(t) + 1 \notin DOMAIN t
    BY <1>2, <1>3, <2>1
  <2> QED
    BY <1>5, <2>1, <2>2 DEF WellFormed, AssignmentAt, KindAt
<1>7. CASE parser = "value"
  <2>1. Len(t) > 1 /\ t[Len(t) - 1].kind = "item"
    BY <1>4, <1>5, <1>7 DEF WaitInv, Awaited
  <2>2. Len(t) - 1 \in DOMAIN t /\ (Len(t) - 1) + 2 \notin DOMAIN t
    BY <1>3, <2>1
  <2> QED
    BY <1>5, <2>1, <2>2 DEF WellFormed, AssignmentAt, KindAt
<1> QED
  BY <1>4, <1>6, <1>7

LEMMA WrittenNext ==
  ASSUME ConfInv, [Next]_vars, fin, WellFormed(Text), WrittenInv(Seen)
  PROVE  WrittenInv(Seen)'
<1>1. /\ Len(input) \in Nat /\ pos \in Nat \ {0} /\ input \in Seq(Piece)
      /\ ~AtEnd => pos \in 1 .. Len(input) /\ input[pos] \in Piece
      /\ TypeOK /\ ScanInv /\ Seen \in Seq(Piece)
  BY PlaceFacts DEF ConfInv
<1>2. PICK t : t = Seen
  OBVIOUS
<1>3. WrittenInv(t) /\ t \in Seq(Piece) /\ Len(t) \in Nat
  BY <1>1, <1>2
<1>4. SUFFICES ASSUME NEW u, u = Seen' PROVE WrittenInv(u)'
  BY SeenWritten
<1>5. ASSUME ~Ended, ~AtEnd, UNCHANGED quiet, pos' = pos + 1,
             in_comment \/ input[pos].kind \in {"newline", "comment"},
             in_comment' \/ input[pos].kind = "newline"
      PROVE  WrittenInv(u)'
  <2>1. TextUpTo[pos] = Seen
    BY <1>1, <1>5, SkipRead
  <2>2. pos' - 1 = pos /\ UNCHANGED input
    BY <1>1, <1>5 DEF quiet
  <2>3. u = t
    BY <1>2, <1>4, <2>1, <2>2, SameText DEF Seen
  <2>4. in_comment' \/ input'[pos' - 1].kind = "newline"
    BY <1>5, <2>2
  <2> QED
    BY <1>3, <1>5, <2>3, <2>4
       DEF quiet, WrittenInv, NumberBefore, AddressBefore, AddressInv, AddressAt
<1>6. CASE SkipBlank
  BY <1>5, <1>6 DEF SkipBlank, At, quiet
<1>7. CASE EnterComment
  BY <1>5, <1>7 DEF EnterComment, At, quiet
<1>8. CASE SkipComment
  BY <1>5, <1>8 DEF SkipComment, quiet
<1>9. CASE CommentSpins \/ UNCHANGED vars
  <2>1. UNCHANGED vars
    BY <1>9 DEF CommentSpins
  <2>2. u = t /\ (AtEnd' <=> AtEnd)
    BY <1>2, <1>4, <2>1, SameText DEF vars, Seen, AtEnd
  <2> QED
    BY <1>3, <2>1, <2>2
       DEF vars, WrittenInv, NumberBefore, AddressBefore, AddressInv, AddressAt
(* The text grows by one piece.                                            *)
<1>10. ASSUME NEW x, x = input[pos], TextUpTo[pos] = Append(t, x), pos' = pos + 1, UNCHANGED input
       PROVE  u = Append(t, x)
  <2>1. pos' - 1 = pos
    BY <1>1, <1>10
  <2> QED
    BY <1>4, <1>10, <2>1, SameText DEF Seen
<1>11. CASE ParseItem
  <2>1. PICK x : x = input[pos]
    OBVIOUS
  <2>2. ~AtEnd /\ x.kind = "item" /\ ~in_comment /\ ~Ended
    BY <1>11, <2>1 DEF ParseItem, At
  <2>3. /\ TextUpTo[pos] = Append(t, x) /\ Growth(t, Append(t, x), x)
        /\ parser = "item" /\ pos # Len(input)
    BY <1>2, <1>3, <2>1, <2>2, NextPiece
  <2>4. Token(x.val, pos + 1, << >>, 0)
    BY <1>11, <2>1, <2>3 DEF ParseItem
  <2>5. x.val \in Items
    BY <1>1, <2>1, <2>2, Tokens
  <2>6. parser' = "assign" /\ sin_addr' = sin_addr
    BY <2>3, <2>4, <2>5, Tokens DEF Token, Parse, Stop
  <2>7. AddressInv(Append(t, x))'
    BY <1>3, <2>2, <2>3, <2>6, AddressKept DEF WrittenInv
  <2>8. u = Append(t, x)
    BY <1>10, <2>1, <2>3, <2>4 DEF Token
  <2> QED
    BY <2>6, <2>7, <2>8 DEF WrittenInv
<1>12. CASE ReadAssign
  <2>1. PICK x : x = input[pos]
    OBVIOUS
  <2>2. /\ ~AtEnd /\ x.kind = "assign" /\ ~in_comment /\ ~Ended
        /\ Token(ASSIGN, pos + 1, << >>, 0)
    BY <1>12, <2>1 DEF ReadAssign, At
  <2>3. /\ TextUpTo[pos] = Append(t, x) /\ Growth(t, Append(t, x), x)
        /\ parser = "assign" /\ WaitInv(t)
    BY <1>2, <1>3, <2>1, <2>2, NextPiece
  <2>4. parser' = "value" /\ sin_addr' = sin_addr /\ item' = item /\ pre_token' = token
    BY <2>2, <2>3 DEF Token, Parse, Stop
  <2>5. token = item
    BY <2>3 DEF WaitInv
  <2>6. AddressInv(Append(t, x))'
    BY <1>3, <2>2, <2>3, <2>4, AddressKept DEF WrittenInv
  <2>7. u = Append(t, x)
    BY <1>10, <2>1, <2>2, <2>3 DEF Token
  <2> QED
    BY <2>4, <2>5, <2>6, <2>7 DEF WrittenInv
<1>13. CASE ParseNumber
  <2>1. PICK x, num : x = input[pos] /\ num = input[pos].val % Short
    OBVIOUS
  <2>2. ~AtEnd /\ x.kind = "num" /\ ~in_comment /\ ~Ended /\ pre_token # SERVER_IP
    BY <1>13, <2>1 DEF ParseNumber, At
  <2>3. /\ TextUpTo[pos] = Append(t, x) /\ Growth(t, Append(t, x), x)
        /\ parser = "value" /\ t[Len(t) - 1].kind = "item" /\ WaitInv(t) /\ pos # Len(input)
    BY <1>2, <1>3, <2>1, <2>2, NextPiece
  <2>4. Token(NUM, pos + 1, << >>, num)
    BY <1>13, <2>1, <2>3 DEF ParseNumber
  <2>5. item # SERVER_IP
    BY <1>3, <2>2, <2>3 DEF WrittenInv
  <2>6. parser' = "item" /\ sin_addr' = sin_addr /\ token' = NUM
    BY <2>3, <2>4, <2>5, Tokens DEF Token, Parse, Stop, ValueToken
  <2>7. Len(t) > 1 /\ t[Len(t)].kind = "assign" /\ t[Len(t) - 1].val = item
    BY <2>3 DEF WaitInv, Awaited
  <2>8. AddressInv(Append(t, x))'
    BY <1>3, <2>3, <2>5, <2>6, <2>7, AddressKept DEF WrittenInv
  <2>9. u = Append(t, x)
    BY <1>10, <2>1, <2>3, <2>4 DEF Token
  <2>10. NumberBefore(Append(t, x))' /\ Append(t, x)[Len(Append(t, x))].kind = "num"
         /\ Append(t, x) # << >>
    <3>1. x \in Piece
      BY <1>1, <2>1, <2>2
    <3>2. PICK q : q = Append(t, x)
      OBVIOUS
    <3>3. /\ Len(q) = Len(t) + 1 /\ q[Len(t) + 1] = x /\ q # << >>
          /\ \A k \in 1 .. Len(t) : q[k] = t[k]
      BY <1>3, <3>1, <3>2
    <3>4. /\ Len(q) > 2 /\ Len(q) - 1 = Len(t) /\ Len(q) - 2 = Len(t) - 1
          /\ Len(t) \in 1 .. Len(t) /\ Len(t) - 1 \in 1 .. Len(t)
      BY <1>3, <2>7, <3>3
    <3>5. NumberBefore(q)'
      BY <2>3, <2>5, <2>6, <2>7, <3>3, <3>4 DEF NumberBefore
    <3> QED
      BY <2>2, <3>2, <3>3, <3>5 DEF NumberBefore
  <2> QED
    BY <2>6, <2>8, <2>9, <2>10 DEF WrittenInv
<1>14. CASE ParseWord \/ ReadOther
  <2>1. PICK x : x = input[pos]
    OBVIOUS
  <2>2. ~AtEnd /\ x.kind \in {"word", "dot", "junk"} /\ ~in_comment /\ ~Ended
    BY <1>14, <2>1 DEF ParseWord, ReadOther, At
  <2> QED
    BY <1>2, <1>3, <2>1, <2>2, NextPiece
<1>15. CASE NotFound
  BY <1>15 DEF NotFound
<1>16. CASE ReadEnd
  <2>1. /\ AtEnd /\ ~Ended /\ Parse(END, << >>, 0) /\ pos' = pos
        /\ UNCHANGED <<fin, input, in_comment>>
    BY <1>16 DEF ReadEnd, Token
  <2>2. parser = "item"
    BY <2>1, NoneExpected
  <2>3. parser' = "done" /\ sin_addr' = sin_addr
    BY <2>1, <2>2, Tokens DEF Parse, Stop
  <2>4. u = t
    BY <1>2, <1>4, <2>1, SameText DEF Seen
  <2> QED
    BY <1>3, <2>3, <2>4 DEF WrittenInv, AddressInv, AddressAt
<1>17. CASE ParseAddress
  <2>1. PICK x, last, address :
          x = input[pos] /\ last = AddressEnd /\ address = SubSeq(input, pos, last)
    OBVIOUS
  <2>2. ~AtEnd /\ x.kind = "num" /\ ~in_comment /\ ~Ended /\ pre_token = SERVER_IP /\ At("num")
    BY <1>17, <2>1 DEF ParseAddress, At
  <2>3. /\ parser = "value" /\ t[Len(t) - 1].kind = "item" /\ WaitInv(t)
        /\ input[Len(input)].kind = "newline"
    BY <1>2, <1>3, <2>1, <2>2, NextPiece
  <2>4. /\ last \in pos .. Len(input) /\ last \in 1 .. Len(input)
        /\ \A i \in pos .. last : input[i].kind \in {"num", "dot"}
        /\ last < Len(input) => input[last + 1].kind \notin {"num", "dot"}
    BY <1>1, <2>1, <2>2, AddressFacts
  <2>5. last # Len(input) /\ last < Len(input) /\ last + 1 \in 1 .. Len(input)
    <3>1. last \in pos .. last
      BY <1>1, <2>4
    <3>2. last # Len(input)
      BY <2>3, <2>4, <3>1
    <3> QED
      BY <1>1, <2>4, <3>2
  <2>6. Token(IP, last + 1, address, 0)
    BY <1>17, <2>1, <2>5 DEF ParseAddress
  <2>7. item = SERVER_IP
    BY <1>3, <2>2, <2>3 DEF WrittenInv
  <2>8. parser' = "item" /\ sin_addr' = address /\ token' = IP
    BY <2>3, <2>6, <2>7, Tokens DEF Token, Parse, Stop, ValueToken
  <2>9. Len(t) > 1 /\ t[Len(t)].kind = "assign" /\ t[Len(t) - 1].val = SERVER_IP
    BY <2>3, <2>7 DEF WaitInv, Awaited
  <2>10. u = TextUpTo[last] /\ UNCHANGED <<input, in_comment>> /\ pos' = last + 1
    <3>1. pos' = last + 1 /\ UNCHANGED <<input, in_comment>> /\ pos' - 1 = last
      BY <1>1, <2>4, <2>6 DEF Token
    <3> QED
      BY <1>4, <3>1, SameText DEF Seen
  <2>11. /\ ~Commented(last) /\ u \in Seq(Piece) /\ Len(u) = Len(t) + (last - pos + 1)
         /\ \A k \in 1 .. Len(t) : u[k] = t[k]
         /\ \A k \in 1 .. last - pos + 1 : u[Len(t) + k] = input[pos + k - 1]
    BY <1>1, <1>2, <2>1, <2>2, <2>10, AddressRead
  <2>12. PICK n \in Nat, d \in Nat : n = Len(t) /\ d = last - pos
    BY <1>1, <1>3, <2>4
  <2>13. /\ Len(u) = n + d + 1 /\ last = pos + d
         /\ \A k \in 1 .. d + 1 : u[n + k] = input[pos + k - 1] /\ pos + k - 1 \in pos .. last
    <3>1. Len(u) = n + d + 1 /\ last = pos + d /\ last - pos + 1 = d + 1
      BY <1>1, <2>4, <2>11, <2>12
    <3>2. \A k \in 1 .. d + 1 : pos + k - 1 \in pos .. pos + d
      BY <1>1
    <3> QED
      BY <2>11, <2>12, <3>1, <3>2
  <2>14. \A k \in n + 1 .. Len(u) : u[k].kind \in {"num", "dot"}
    <3> TAKE k \in n + 1 .. Len(u)
    <3>1. PICK i \in 1 .. d + 1 : k = n + i
      <4>1. k - n \in 1 .. d + 1 /\ k = n + (k - n)
        BY <2>12, <2>13
      <4> QED
        BY <4>1
    <3> QED
      BY <2>4, <2>13, <3>1
  <2>15. Growth(t, u, x)
    <3>1. Len(t) < Len(u) /\ 1 \in 1 .. d + 1 /\ pos + 1 - 1 = pos
      BY <1>1, <2>12, <2>13
    <3>2. u[n + 1] = x
      BY <2>1, <2>13, <3>1
    <3>3. \A k \in n + 2 .. Len(u) : k \in n + 1 .. Len(u)
      BY <2>12
    <3> QED
      BY <1>3, <2>2, <2>11, <2>12, <2>14, <3>1, <3>2, <3>3 DEF Growth
  <2>16. IsRun(sin_addr', u, Len(t) + 1, Len(u))
    <3>1. /\ address \in Seq(Piece) /\ Len(address) = last - pos + 1
          /\ \A i \in 1 .. last - pos + 1 : address[i] = input[pos + i - 1]
      BY <1>1, <2>1, <2>2, <2>4
    <3>2. last - pos + 1 = d + 1 /\ Len(u) - (n + 1) + 1 = d + 1
      BY <1>1, <2>12, <2>13
    <3>3. \A i \in 1 .. d + 1 : address[i] = u[(n + 1) + i - 1]
      <4> TAKE i \in 1 .. d + 1
      <4>1. (n + 1) + i - 1 = n + i
        BY <2>12
      <4> QED
        BY <2>13, <3>1, <3>2, <4>1
    <3> QED
      BY <2>8, <2>12, <2>14, <3>1, <3>2, <3>3 DEF IsRun
  <2>17. AddressInv(u)'
    BY <2>2, <2>3, <2>9, <2>15, <2>16, AddressNew
  <2>18. u # << >> /\ u[Len(u)].kind = "num"
    <3>1. Len(u) = n + (d + 1) /\ d + 1 \in 1 .. d + 1 /\ pos + (d + 1) - 1 = last /\ Len(u) # 0
      BY <1>1, <2>12, <2>13
    <3>2. u[Len(u)] = input[last]
      BY <2>13, <3>1
    <3>3. input[last].kind # "dot"
      <4>1. last \in DOMAIN input /\ last + 1 \in DOMAIN input
        BY <1>1, <2>4, <2>5
      <4> QED
        BY <2>4, <2>5, <2>11, <4>1 DEF WellFormed, KindAt
    <3>4. last \in pos .. last
      BY <1>1, <2>4
    <3> QED
      BY <2>4, <2>11, <3>1, <3>2, <3>3, <3>4
  <2>19. AddressBefore'
    BY <2>4, <2>5, <2>8, <2>10 DEF AddressBefore
  <2> QED
    BY <2>8, <2>17, <2>18, <2>19 DEF WrittenInv
<1> QED
  BY <1>6, <1>7, <1>8, <1>9, <1>11, <1>12, <1>13, <1>14, <1>15, <1>16, <1>17 DEF Next

(* The inductive invariant for well-formed files.                          *)
Written == fin /\ WellFormed(Text) => WrittenInv(Seen)

LEMMA WrittenStep ==
  ASSUME ConfInv, [Next]_vars, Written
  PROVE  Written'
<1>1. UNCHANGED <<fin, input>>
  BY DEF Next, vars, quiet, Token, WriteBackFails, SkipBlank, EnterComment, SkipComment,
         CommentSpins, ParseItem, ParseWord, ParseAddress, ParseNumber, ReadAssign,
         ReadEnd, ReadOther, NotFound
<1>2. Text' = Text /\ \A i : Commented(i)' <=> Commented(i)
  BY <1>1, SameText DEF Text
<1>3. WellFormed(Text)' => WellFormed(Text)
  BY <1>1, <1>2 DEF WellFormed
<1> QED
  BY <1>1, <1>3, WrittenNext DEF Written

(* Of a well-formed file, the parser has the values that it says.          *)
LEMMA ConfAsWritten == ConfInv /\ Written => AsWritten
<1> SUFFICES ASSUME ConfInv, Ended, NEW t, t = Text, WellFormed(t), WrittenInv(Seen)
             PROVE  /\ parser = "done"
                    /\ sin_addr = Address(t)
                    /\ \A tag \in DOMAIN conf : conf[tag] = Number(t, tag)
  BY DEF AsWritten, Written
<1>1. parser = "done"
  BY DEF Ended, WrittenInv
<1>2. /\ t = Seen /\ t \in Seq(Piece)
  <2>1. pos - 1 = Len(input) /\ Seen \in Seq(Piece)
    BY <1>1, PlaceFacts DEF ConfInv, AtEnd
  <2> QED
    BY <2>1 DEF Seen, Text
<1>3. /\ \A k \in DOMAIN t : t[k].kind = "item" => AssignmentAt(t, k)
      /\ \A tag \in DOMAIN conf : conf[tag] = Number(t, tag)
  BY <1>1, ConfAccountable DEF Accountable
<1>4. Len(t) \in Nat /\ DOMAIN t = 1 .. Len(t)
  BY <1>2
<1>5. \A k \in 1 .. Len(t) :
        Assigned(t, k, SERVER_IP) <=> t[k].kind = "item" /\ t[k].val = SERVER_IP
  BY <1>3, <1>4 DEF Assigned, AssignmentAt
<1>6. AddressInv(t)
  BY <1>2 DEF WrittenInv
<1>7. CASE sin_addr = << >> /\ \A k \in 1 .. Len(t) : ~Assigned(t, k, SERVER_IP)
  BY <1>1, <1>3, <1>4, <1>5, <1>7, AssignmentNone DEF Address
<1>8. ASSUME NEW k \in 1 .. Len(t), NEW last \in k + 2 .. Len(t), AddressAt(t, k, last)
      PROVE  sin_addr = Address(t)
  <2>1. PICK q : q = Assignment(t, SERVER_IP)
    OBVIOUS
  <2>2. q \in 1 .. Len(t) /\ Assigned(t, q, SERVER_IP) /\ k <= q
    BY <1>2, <1>5, <1>8, <2>1, AssignmentIs DEF AddressAt
  <2>3. q = k /\ q # 0
    <3>1. ~(q \in k + 1 .. Len(t))
      BY <1>8, <2>2 DEF AddressAt
    <3> QED
      BY <1>4, <2>2, <3>1
  <2>4. PICK first \in Nat : first = k + 2
    OBVIOUS
  <2>5. last \in first .. Len(t) /\ first \in 1 .. Len(t) /\ last \in 1 .. Len(t)
    BY <1>4, <2>4
  <2>6. /\ \A j \in first .. last : t[j].kind \in {"num", "dot"}
        /\ KindAt(t, last + 1) \notin {"num", "dot"}
    BY <1>8, <2>4 DEF AddressAt, IsRun
  <2>7. ASSUME NEW i \in first .. Len(t),
               \A j \in first .. i : t[j].kind \in {"num", "dot"},
               KindAt(t, i + 1) \notin {"num", "dot"}
        PROVE  i = last
    <3>1. CASE i < last
      <4>1. i + 1 \in first .. last /\ i + 1 \in 1 .. Len(t)
        BY <1>4, <2>5, <3>1
      <4> QED
        BY <1>4, <2>6, <2>7, <4>1 DEF KindAt
    <3>2. CASE last < i
      <4>1. last + 1 \in first .. i /\ last + 1 \in 1 .. Len(t)
        BY <1>4, <2>5, <3>2
      <4> QED
        BY <1>4, <2>6, <2>7, <4>1 DEF KindAt
    <3> QED
      BY <1>4, <2>5, <3>1, <3>2
  <2>8. last = CHOOSE i \in first .. Len(t) :
                 /\ \A j \in first .. i : t[j].kind \in {"num", "dot"}
                 /\ KindAt(t, i + 1) \notin {"num", "dot"}
    BY <2>5, <2>6, <2>7
  <2>9. Address(t) = SubSeq(t, first, last)
    BY <2>1, <2>3, <2>4, <2>8 DEF Address
  <2>10. PICK a, b : a = sin_addr /\ b = SubSeq(t, first, last)
    OBVIOUS
  <2>11. /\ a \in Seq(Piece) /\ Len(a) = last - first + 1
         /\ \A i \in 1 .. last - first + 1 : a[i] = t[first + i - 1]
    BY <1>8, <2>4, <2>10 DEF AddressAt, IsRun
  <2>12. /\ b \in Seq(Piece) /\ Len(b) = last - first + 1
         /\ \A i \in 1 .. last - first + 1 : b[i] = t[first + i - 1]
    BY <1>2, <2>5, <2>10
  <2>13. a = b
    BY <2>11, <2>12, SeqEqual
  <2> QED
    BY <2>9, <2>10, <2>13
<1> QED
  BY <1>1, <1>3, <1>6, <1>7, <1>8 DEF AddressInv

(* load_config accepts every well-formed file, and has the address and the *)
(* numbers that the file assigns last, or default_config's.                *)
THEOREM ConfigurationIsAsWritten == Spec => []AsWritten
<1>1. Init => ConfInv /\ Written
  BY ConfInvInit, WrittenInit DEF Written
<1>2. (ConfInv /\ Written) /\ [Next]_vars => (ConfInv /\ Written)'
  BY ConfInvNext, WrittenStep
<1>3. ConfInv /\ Written => AsWritten
  BY ConfAsWritten
<1> QED
  BY <1>1, <1>2, <1>3, PTL DEF Spec
=============================================================================

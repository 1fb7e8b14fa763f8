-------------------------------- MODULE MCConf --------------------------------
(* Files of up to four fragments: assignments, comments and pieces that    *)
(* stand alone.                                                            *)
EXTENDS Conf

CONSTANTS Small, Large  (* numbers, one of more than 16 bits               *)

P(kind) == [kind |-> kind, val |-> 0]

Item(tag) == [kind |-> "item", val |-> tag]

Num(v) == [kind |-> "num", val |-> v]

Fragments ==
  { <<Item(tag), P("assign"), Num(v), P("newline")>> :
      tag \in {SERVER_PORT, THREAD_NUM}, v \in {Small, Large} }
  \cup { <<Item(SERVER_IP), P("assign"), Num(Small), P("dot"), Num(Large), P("newline")>>,
         <<P("comment"), Item(THREAD_NUM), P("assign"), P("newline")>>,
         <<P("junk"), P("newline")>>,
         <<P("word")>>, <<P("comment")>>, <<P("dot")>>, <<P("assign")>>,
         <<P("newline")>>, <<Num(Small)>>, <<Item(SERVER_IP)>>,
         <<Item(QUEUE_CAPACITY)>> }

Pieces == Fragments \cup {<< >>}

MCInputs ==
  {file \in {a \o b \o c \o d : a, b, c, d \in Pieces} : Runs(file)}
=============================================================================

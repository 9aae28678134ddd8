------------------------------- MODULE Stream --------------------------------
(***************************************************************************)
(* How the handlers of the storm sockets find messages in what recv        *)
(* returns: a buffer, split at ";", and strTmp, the text that a read which *)
(* filled the buffer left for the next.  The client's loop and the         *)
(* server's differ: the server's decides about strTmp after each message   *)
(* of a read, by a length that it has just changed.                        *)
(*                                                                         *)
(* Message i has the first lengths[i] characters of Texts[i] and a ";"; no *)
(* two characters are the same.                                            *)
(***************************************************************************)
EXTENDS Codec

CONSTANTS
  Capacity,   \* sizeof(buff) - 1
  Texts,      \* characters for the messages
  Lengths     \* the sequences of lengths considered

ASSUME StreamAssumption ==
  /\ Capacity \in Nat
  /\ \A l \in Lengths : l \in Seq(1 .. Capacity - 1)

VARIABLES
  role,          \* whose handler: "client" or "server"
  lengths, text, \* the messages sent
  taken,         \* characters received
  buff, strTmp,
  handled,       \* the messages recognised, in order
  reads,         \* the reads: where they ended, and how
  open           \* the connection

streamVars == <<role, lengths, text, taken, buff, strTmp, handled, reads, open>>

Separator == ";"
Message(i) == SubSeq(Texts[i], 1, lengths[i])
Joined == FlattenSeq([i \in DOMAIN lengths |-> Append(Message(i), Separator)])

\* The last character of message i with its ";" in the text, and the first.
RECURSIVE End(_)
End(i) == IF i = 0 THEN 0 ELSE End(i - 1) + lengths[i] + 1
Begin(i) == End(i) - lengths[i]

\* The messages among the first n fields: the rest is reported and dropped.
Recognised(fields, n) ==
  LET whole == {i \in DOMAIN lengths : \E k \in 1 .. n : fields[k] = Message(i)}
  IN SetToSortSeq(whole, <)

\* Mutant: the last field of a read that filled the buffer is handled too.
DataSizeMutant(fields, full) == Len(fields)

\* dataSize: the last field of a read that filled the buffer is left.
DataSize(fields, full) == IF full THEN Len(fields) - 1 ELSE Len(fields)

\* strTmp at the server after n messages of a read of len characters.
RECURSIVE StrTmpAfter(_, _, _, _)
StrTmpAfter(tmp, n, len, last) ==
  IF n = 0 THEN tmp
  ELSE StrTmpAfter(IF len = Capacity - Len(tmp) THEN last ELSE <<>>, n - 1,
                   len, last)

\* recv returns len characters, which go behind strTmp into the buffer, over
\* what may be there.
Read(len) ==
  LET chunk == SubSeq(text, taken + 1, taken + len)
      fresh == strTmp \o chunk
      content == fresh \o SubSeq(buff, Len(fresh) + 1, Len(buff))
      full == len = Capacity - Len(strTmp)
      fields == Split(content, Separator)
      size == DataSize(fields, full)
  IN
  /\ open /\ len <= Capacity - Len(strTmp) /\ taken + len <= Len(text)
  /\ taken' = taken + len
  /\ handled' = handled \o Recognised(fields, size)
  /\ IF role = "client"
     THEN /\ strTmp' = IF full THEN Last(fields) ELSE <<>>
          /\ buff' = strTmp'
     ELSE /\ strTmp' = StrTmpAfter(strTmp, size, len, Last(fields))
          /\ buff' = IF size = 0 THEN content ELSE strTmp'
  /\ reads' = Append(reads, [end |-> taken + len, full |-> full, late |-> FALSE])
  /\ UNCHANGED <<role, lengths, text, open>>

\* Nothing came for m_timeout: the handler returns, and starts again with an
\* empty buffer.
Timeout ==
  /\ open /\ buff # <<>> /\ Len(strTmp) < Capacity
  /\ buff' = <<>> /\ strTmp' = <<>>
  /\ reads' = [reads EXCEPT ![Len(reads)].late = TRUE]
  /\ UNCHANGED <<role, lengths, text, taken, handled, open>>

\* A receive of no characters returns 0, which is taken for the end of the
\* connection.
NoRoom ==
  /\ open /\ Len(strTmp) = Capacity
  /\ open' = FALSE
  /\ UNCHANGED <<role, lengths, text, taken, buff, strTmp, handled, reads>>

StreamInit ==
  /\ role \in {"client", "server"} /\ lengths \in Lengths /\ text = Joined
  /\ taken = 0 /\ buff = <<>> /\ strTmp = <<>> /\ handled = <<>>
  /\ reads = <<>> /\ open = TRUE

StreamNext == (\E len \in 1 .. Capacity : Read(len)) \/ Timeout \/ NoRoom

-----------------------------------------------------------------------------
\* A read k that filled the buffer with the end of message i and its ";".
HeldBack(i) == \E k \in DOMAIN reads : reads[k].full /\ reads[k].end = End(i)

\* Message i came whole in one read, not right behind a read that filled the
\* buffer, and did not itself fill it up to its last character.
CameWhole(i) ==
  \E k \in DOMAIN reads :
    /\ reads[k].end > End(i) \/ (reads[k].end = End(i) /\ ~reads[k].full)
    /\ k = 1 \/ reads[k - 1].end < Begin(i) - 1
         \/ (reads[k - 1].end = Begin(i) - 1 /\ ~reads[k - 1].full)

\* A read ended within message i, and the next did not carry on.
Severed(i) ==
  \E k \in DOMAIN reads :
    /\ reads[k].end >= Begin(i)
    /\ \/ ~reads[k].full /\ reads[k].end < End(i) - 1
       \/ reads[k].full /\ reads[k].late /\ reads[k].end <= End(i)

\* socketConnectHandler: messages are handled in order and at most once, and
\* one that came whole is.  The client also handles every message that a read
\* which filled the buffer cut; it loses one that another read cut, and
\* because a read that ends with a ";" is not told apart, one that fills the
\* buffer exactly, with the message behind it.
HandledExactly ==
  /\ \A j, k \in DOMAIN handled : j < k => handled[j] < handled[k]
  /\ \A i \in DOMAIN lengths : CameWhole(i) => Contains(handled, i)
  /\ role = "client" /\ open /\ buff = <<>> /\ taken = Len(text) =>
       \A i \in DOMAIN lengths :
         Contains(handled, i) \/ Severed(i) \/ HeldBack(i)
           \/ (i > 1 /\ HeldBack(i - 1))
  /\ ~open => \E i \in DOMAIN lengths : HeldBack(i)
=============================================================================

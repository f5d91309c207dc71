------------------------- MODULE MCConversationMemory -------------------------
(* Instances of ConversationMemory for TLC. *)
EXTENDS ConversationMemory

CONSTANTS t1, t2, c1, c2, r1, r2, r3

MCThread == {t1, t2}
MCConv == {c1, c2}
MCRegion == {r1, r2, r3}

GivesDate == [regions |-> {}, replace |-> <<>>, dated |-> TRUE]
NamesTwo == [regions |-> {r1, r2}, replace |-> <<>>, dated |-> TRUE]
Replaces == [regions |-> {r1, r3}, replace |-> <<r1, r3>>, dated |-> FALSE]
SaysNothing == [regions |-> {}, replace |-> <<>>, dated |-> FALSE]
MCText == {GivesDate, NamesTwo, Replaces, SaysNothing}

\* One thread serves every text in every mode; the other one meets it on its
\* conversation, or makes it evict another.
MCRequests ==
  [t \in MCThread |->
     IF t = t1 THEN [conv : {c1}, text : MCText, mode : MemoryMode]
     ELSE [conv : MCConv, text : {NamesTwo}, mode : {"structured_state"}]]

\* Two threads on two conversations, with one text.
PlainRequests ==
  [t \in MCThread |-> [conv : MCConv, text : {NamesTwo}, mode : {"structured_state"}]]
=============================================================================

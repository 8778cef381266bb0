---------------------------- MODULE MCBatchSplit -----------------------------
(* Small instances of BatchSplit for TLC.                                    *)
EXTENDS BatchSplit

CONSTANTS
  MaxTokens,   \* longest batch
  Lists        \* the sequence lists of a token

IdLists == UNION {[1 .. k -> Lists] : k \in 1 .. MaxTokens}

\* the positions are left to init()
AutoBatch(ids) ==
  LET pos == AutoPos(ids, [s \in Seqs |-> 0])
  IN  [i \in DOMAIN ids |-> [seq_id |-> ids[i], pos |-> pos[i]]]

AutoBatches == {AutoBatch(ids) : ids \in IdLists}

\* batches whose tokens that share a sequence have shrinking sequence sets
ShrinkingBatches ==
  {b \in AutoBatches :
     \A i, j \in DOMAIN b :
       i < j /\ SeqSet(b[i]) \cap SeqSet(b[j]) # {} => SeqSet(b[j]) \subseteq SeqSet(b[i])}

OneSeqLists == {<<0>>, <<1>>, <<2>>}
ManyLists   == OneSeqLists \cup {<<0, 1>>, <<2, 0>>, <<0, 1, 2>>}
==============================================================================

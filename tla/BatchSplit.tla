----------------------------- MODULE BatchSplit ------------------------------
(***************************************************************************)
(* A batch on its way through llama_batch_allocr: init() accepts it, and   *)
(* the memory module calls one of the split methods until it returns an    *)
(* empty ubatch (init_batch of the memory modules).                        *)
(***************************************************************************)
EXTENDS BatchOps

CONSTANTS
  NUbatch,   \* n_ubatch
  Modes,     \* the split methods used: "simple", "equal", "equal_seq", "seq"
  Batches    \* the batches submitted

ASSUME NUbatchAssumption == NUbatch \in Nat \ {0}

ASSUME ModesAssumption == Modes \subseteq {"simple", "equal", "equal_seq", "seq"}

\* a token belongs to a sequence at least: the splits read seq_id[i][0]
ASSUME BatchesAssumption ==
  /\ Seqs \subseteq Nat
  /\ \A b \in Batches : /\ b \in Seq([seq_id : Seq(Seqs), pos : Int])
                        /\ \A i \in DOMAIN b : b[i].seq_id # <<>>

VARIABLES batch, mode, used, out, done

splitVars == <<batch, mode, used, out, done>>

EmptyMemory == [s \in Seqs |-> -1]

\* the batches that init() accepts, in front of an empty memory
SplitInit ==
  /\ batch \in {b \in Batches : InitBatchOK(b, EmptyMemory, EmptyMemory)}
  /\ mode \in Modes
  /\ used = {}
  /\ out  = <<>>
  /\ done = FALSE

NextUbatch ==
  CASE mode = "simple"    -> SplitSimple(batch, used, NUbatch)
    [] mode = "equal"     -> SplitEqual(batch, used, NUbatch, FALSE)
    [] mode = "equal_seq" -> SplitEqual(batch, used, NUbatch, TRUE)
    [] mode = "seq"       -> SplitSeq(batch, used, NUbatch)

\* a call of the split method that finds a ubatch, and the one that does not
Split ==
  /\ ~ done
  /\ LET u == NextUbatch
     IN  /\ u # NoUbatch
         /\ used' = used \cup Range(u.idxs)
         /\ out'  = Append(out, u)
  /\ UNCHANGED <<batch, mode, done>>

SplitEnds ==
  /\ ~ done
  /\ NextUbatch = NoUbatch
  /\ done' = TRUE
  /\ UNCHANGED <<batch, mode, used, out>>

SplitNext == Split \/ SplitEnds

SplitSpec == SplitInit /\ [][SplitNext]_splitVars

-----------------------------------------------------------------------------
(* Properties.                                                             *)

\* Every token is decoded exactly once: no split repeats a token, and when the
\* split method returns an empty ubatch all tokens are used, or none when the
\* batch has coupled sequences and the split is sequential (the caller then
\* fails the batch, get_n_used() < get_n_tokens()).
EachTokenOnce ==
  /\ \A k, l \in DOMAIN out : \A x \in DOMAIN out[k].idxs, y \in DOMAIN out[l].idxs :
       out[k].idxs[x] = out[l].idxs[y] => k = l /\ x = y
  /\ done => \/ used = DOMAIN batch
             \/ used = {} /\ mode = "equal_seq" /\ HasCpl(batch)

\* Tokens of a sequence are decoded in batch order: a token is never in an
\* earlier ubatch than one before it in the batch that shares a sequence with
\* it, or it could not attend to it.  init() is to see to this: "disallow partial
\* sequence sub-sets".
SequenceOrderKept ==
  \A k, l \in DOMAIN out : \A x \in DOMAIN out[k].idxs, y \in DOMAIN out[l].idxs :
    LET i == out[k].idxs[x]
        j == out[l].idxs[y]
    IN  k < l \/ (k = l /\ x < y) =>
          SeqSet(batch[i]) \cap SeqSet(batch[j]) = {} \/ i < j

\* "the tokens in the ubatch will have increasing sequential sequence ids": with
\* a stream per sequence the streams of a ubatch are an interval, which the K, V
\* and page table views of the cache (s0 .. s1) rely on.
StreamsContiguous ==
  mode = "equal_seq" =>
    \A k \in DOMAIN out :
      LET u == out[k]
          m == Len(u.idxs) \div u.n_seqs
      IN  \A x \in DOMAIN u.idxs :
            batch[u.idxs[x]].seq_id = <<batch[u.idxs[1]].seq_id[1] + (x - 1) \div m>>
==============================================================================

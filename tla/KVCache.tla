------------------------------ MODULE KVCache ------------------------------
(***************************************************************************)
(* whisper.cpp: whisper_kv_cache, the memory of the text decoder.  Every    *)
(* token that was decoded has a cell with its position and the sequences    *)
(* (decoders) that attend to it, so that decoders share what they have in   *)
(* common.  A cache is a record; its cells are a function on the cells in   *)
(* use, those with pos >= 0.  "past" stands for the keys and values of a    *)
(* cell: the tokens they were computed from, after the prompt.              *)
(***************************************************************************)
EXTENDS Naturals, Sequences, FiniteSets, FiniteSetsExt

(* whisper_kv_cache_init and whisper_kv_cache_clear                         *)
EmptyCache(size) == [size |-> size, head |-> 0, cells |-> <<>>]

Used(kv) == DOMAIN kv.cells

(* whisper_kv_cache_find_slot: n free cells in a row, the first after head, *)
(* else the first of all.                                                   *)
Slots(kv, n) == {s \in 0..kv.size - n : (s..s + n - 1) \intersect Used(kv) = {}}
HasSlot(kv, n) == n <= kv.size /\ Slots(kv, n) # {}
Slot(kv, n) ==
  LET ahead == {s \in Slots(kv, n) : s >= kv.head} IN
  Min(IF ahead = {} THEN Slots(kv, n) ELSE ahead)

(* The cells of a batch of tokens, each of one sequence.                    *)
Place(kv, batch) ==
  LET s == Slot(kv, Len(batch))
      taken == s..s + Len(batch) - 1
      cell(b) == [pos |-> b.pos, seqs |-> {b.seq}, past |-> b.past]
  IN [kv EXCEPT !.head = s,
                !.cells = [c \in Used(kv) \union taken |->
                   IF c \in taken THEN cell(batch[c - s + 1]) ELSE kv.cells[c]]]

(* whisper_kv_cache_seq_rm of a whole sequence                              *)
SeqRm(kv, id) ==
  LET freed == {c \in Used(kv) : kv.cells[c].seqs = {id}} IN
  [kv EXCEPT !.head  = IF freed = {} THEN @ ELSE Min(freed),
             !.cells = [c \in Used(kv) \ freed |->
                          [kv.cells[c] EXCEPT !.seqs = @ \ {id}]]]

(* whisper_kv_cache_seq_rm and seq_cp of several sequences, a copy last:    *)
(* each cell c in use has the sequences ids[c] now, or is free.             *)
SeqMap(kv, ids) ==
  [kv EXCEPT !.head  = 0,
             !.cells = [c \in {d \in Used(kv) : ids[d] # {}} |->
                          [kv.cells[c] EXCEPT !.seqs = ids[c]]]]

(* whisper_kv_cache_cell_max; without padding it is the number of cells the *)
(* attention reads.                                                         *)
CellMax(kv) == Max({0} \union Used(kv)) + 1

(* KQ_mask: what a token of sequence id at position pos attends to.         *)
Visible(kv, id, pos) ==
  {c \in Used(kv) : /\ c < CellMax(kv)
                    /\ id \in kv.cells[c].seqs
                    /\ kv.cells[c].pos <= pos}
=============================================================================

-------------------------------- MODULE List --------------------------------
(***************************************************************************)
(* The singly linked list (list.c) that holds generated instructions: the  *)
(* items reachable from head, in order, and the position tail points to,   *)
(* which need not be the last item's.                                      *)
(***************************************************************************)
EXTENDS Naturals, Sequences, SequencesExt

Lists(Items) == [items : Seq(Items), tail : Nat]

(* Append overwrites tail->next: what tail does not reach is lost.         *)
LAppend(l, x) == [items |-> Append(SubSeq(l.items, 1, l.tail), x),
                  tail  |-> l.tail + 1]

(* Insert_after never moves tail, not even when the new item follows it.   *)
LInsert_after(l, p, x) == [items |-> InsertAt(l.items, p + 1, x),
                           tail  |-> IF p < l.tail THEN l.tail + 1 ELSE l.tail]
=============================================================================

----------------------------- MODULE NeighborQueue -----------------------------
(***************************************************************************)
(* vamana_exp/DiskANN/include/neighbor.h: NeighborPriorityQueue, the       *)
(* bounded sorted array from which a search of Vamana takes its next node. *)
(* A queue is a record [data, cur]: the entries in use, and the position   *)
(* of the cursor, counted from 1.                                          *)
(***************************************************************************)
EXTENDS Integers, Sequences

(* Neighbor::operator<                                                     *)
Less(a, b) == a.distance < b.distance \/ (a.distance = b.distance /\ a.id < b.id)

EmptyQueue == [data |-> << >>, cur |-> 1]

(* The binary search of insert between two bounds: how many entries stay   *)
(* before the new one, or -1 if it meets the id.                           *)
Place(data, nbr) ==
  LET lo[s \in (0 .. Len(data)) \X (0 .. Len(data))] ==
        IF s[1] >= s[2] THEN s[1]
        ELSE LET mid == (s[1] + s[2]) \div 2 IN
             IF Less(nbr, data[mid + 1]) THEN lo[<<s[1], mid>>]
             ELSE IF data[mid + 1].id = nbr.id THEN -1
             ELSE lo[<<mid + 1, s[2]>>]
  IN lo[<<0, Len(data)>>]

Inserted(q, capacity, nbr) ==
  LET size == Len(q.data)
      lo   == Place(q.data, nbr)
  IN IF (size = capacity /\ Less(q.data[size], nbr)) \/ lo = -1
     THEN q
     ELSE [data |-> [i \in 1 .. IF size < capacity THEN size + 1 ELSE size |->
                       IF i <= lo THEN q.data[i]
                       ELSE IF i = lo + 1 THEN nbr ELSE q.data[i - 1]],
           cur  |-> IF lo + 1 < q.cur THEN lo + 1 ELSE q.cur]

(* A faulty form: the cursor is not moved back.                            *)
InsertedBehind(q, capacity, nbr) ==
  [Inserted(q, capacity, nbr) EXCEPT !.cur = q.cur]

Insert(q, capacity, nbr) == Inserted(q, capacity, nbr)

HasUnexpanded(q) == q.cur <= Len(q.data)

(* A faulty form: the cursor does not move.                                *)
PoppedStays(q) == [q EXCEPT !.data[q.cur].expanded = TRUE]

(* closest_unexpanded: the entry at the cursor is marked and the cursor    *)
(* moves on to the next one that is not.                                   *)
Popped(q) ==
  LET data == [q.data EXCEPT ![q.cur].expanded = TRUE]
  IN [data |-> data,
      cur  |-> CHOOSE i \in q.cur .. Len(data) + 1 :
                 /\ i = Len(data) + 1 \/ ~ data[i].expanded
                 /\ \A j \in q.cur .. i - 1 : data[j].expanded]

Ids(q) == {q.data[i].id : i \in DOMAIN q.data}

(* "after every insert and closest_unexpanded(), _cur points to the first  *)
(* Neighbor which is unexpanded": the comment above the class.             *)
CursorAtFirst(q) ==
  /\ q.cur \in 1 .. Len(q.data) + 1
  /\ \A i \in 1 .. q.cur - 1 : q.data[i].expanded
  /\ HasUnexpanded(q) => ~ q.data[q.cur].expanded

Sorted(q) == \A i, j \in DOMAIN q.data : i < j => Less(q.data[i], q.data[j])
================================================================================

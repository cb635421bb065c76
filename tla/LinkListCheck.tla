----------------------------- MODULE LinkListCheck -----------------------------
(***************************************************************************)
(* LinkList against sequences: whatever is inserted and removed, anywhere  *)
(* and in any order, the list enumerates what a sequence would hold, and   *)
(* has one reference for each place that an item has in it.                *)
(***************************************************************************)
EXTENDS LinkList

LOCAL INSTANCE SequencesExt

ListItems == {"a", "b"}
MaxCalls == 4

\* A call names a place and an item where the method takes one.
Calls == [method : {"InsertPos", "InsertFront"}, place : 0..2, item : ListItems]
           \union [method : {"Remove"}, place : 0..2, item : {"a"}]
           \union [method : {"RemoveFront", "RemoveBack", "Clear"}, place : {0}, item : {"a"}]

\* The allocator gives the lowest address that is free, also one given before.
NewNode(list) ==
  CHOOSE n \in 1..MaxCalls :
    n \notin Nodes(list) /\ \A k \in 1 .. n - 1 : k \in Nodes(list)

\* Places count from 0; the place behind the last is the null position.
OnList(list, call) ==
  LET pos == IF call.place < list.m_count THEN Position(list, call.place) ELSE Anchor
  IN  CASE call.method = "InsertPos" -> InsertPos(list, pos, call.item, NewNode(list))
        [] call.method = "InsertFront" -> InsertFront(list, call.item, NewNode(list))
        [] call.method = "Remove" -> RemovePos(list, pos)
        [] call.method = "RemoveFront" -> RemoveFront(list)
        [] call.method = "RemoveBack" -> RemoveBack(list)
        [] call.method = "Clear" -> Clear(list)

\* The reference definition.
OnSequence(s, call) ==
  CASE call.method = "InsertPos" ->
         IF call.place < Len(s) THEN InsertAt(s, call.place + 1, call.item)
                                ELSE Append(s, call.item)
    [] call.method = "InsertFront" -> <<call.item>> \o s
    [] call.method = "Remove" ->
         IF call.place < Len(s) THEN RemoveAt(s, call.place + 1) ELSE s
    [] call.method = "RemoveFront" -> IF s = <<>> THEN s ELSE Tail(s)
    [] call.method = "RemoveBack" -> IF s = <<>> THEN s ELSE SubSeq(s, 1, Len(s) - 1)
    [] call.method = "Clear" -> <<>>

IsList(list, s) ==
  /\ Enumerated(list) = s
  /\ Runs(list, [i \in 1..Len(s) |-> Position(list, i - 1)])
  /\ Counted(list)
  /\ DOMAIN list.refs = ListItems
  /\ s # <<>> => FrontItem(list) = s[1] /\ BackItem(list) = s[Len(s)]

ASSUME ListIsSequence ==
  \A calls \in [1..MaxCalls -> Calls] :
    IsList(FoldLeft(OnList, EmptyList(ListItems), calls),
           FoldLeft(OnSequence, <<>>, calls))
=============================================================================

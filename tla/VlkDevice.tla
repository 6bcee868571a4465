----------------------------- MODULE VlkDevice -----------------------------
(***************************************************************************)
(* How VlkDevice (vulkan/VlkDevice.cpp) chooses a queue family for each of *)
(* its four types of queue, and which queues, command pools and locks the  *)
(* types come to share.                                                    *)
(*                                                                         *)
(* A machine is the sequence of its queue families; a family is the set of *)
(* what it can do.  Families are numbered from 1 here, and NoFamily stands *)
(* for the index -1 of a type that has no queue.                           *)
(***************************************************************************)
EXTENDS Integers, Sequences, FiniteSetsExt

QueueTypes == <<"Graphic", "Compute", "Transfer", "Present">>
Types == {"Graphic", "Compute", "Transfer", "Present"}

NoFamily == 0

(* The least member of the first of the sets that has one: the loops over  *)
(* the families, each tried when those before it found nothing.            *)
FirstOf(sets) ==
    LET found == {i \in DOMAIN sets : sets[i] # {}}
    IN  IF found = {} THEN NoFamily ELSE Min(sets[Min(found)])

Having(qfp, what) == {i \in DOMAIN qfp : qfp[i] \cap what # {}}

GraphicIdx(flags, qfp) ==
    LET graphic == Having(qfp, {"graphics"})
        alone == graphic \ Having(qfp, {"compute"})
        present == Having(qfp, {"present"})
        when(flag, set) == IF flag \in flags THEN set ELSE {}
    IN  IF "Graphic" \notin flags
          THEN NoFamily
          ELSE FirstOf(<<when("Present", when("Compute", alone \cap present)),
                         when("Present", graphic \cap present),
                         when("Compute", alone),
                         graphic>>)

ComputeIdx(flags, qfp) ==
    LET compute == Having(qfp, {"compute"})
    IN  IF "Compute" \notin flags
          THEN NoFamily
          ELSE FirstOf(<<compute \ {GraphicIdx(flags, qfp)}, compute>>)

TransferIdx(flags, qfp) ==
    LET transfer == Having(qfp, {"graphics", "compute", "transfer"})
    IN  FirstOf(<<transfer \ {GraphicIdx(flags, qfp), ComputeIdx(flags, qfp)}, transfer>>)

PresentIdx(flags, qfp) ==
    LET present == Having(qfp, {"present"})
        graphic == GraphicIdx(flags, qfp)
        others == {ComputeIdx(flags, qfp), TransferIdx(flags, qfp)}
    IN  IF "Present" \notin flags
          THEN NoFamily
          ELSE FirstOf(<<present \cap {graphic}, present \ others, present>>)

QueueIdx(flags, qfp) ==
    [t \in Types |->
        CASE t = "Graphic"  -> GraphicIdx(flags, qfp)
          [] t = "Compute"  -> ComputeIdx(flags, qfp)
          [] t = "Transfer" -> TransferIdx(flags, qfp)
          [] t = "Present"  -> PresentIdx(flags, qfp)]

(* m_queueInfo[t].share...: whether types t and u share their family.      *)
Share(idx, t, u) == idx[t] # NoFamily /\ idx[t] = idx[u]

CreatedTwice(idx) ==
    {t \in Types : idx[t] # NoFamily /\ (t = "Graphic" \/ ~Share(idx, t, "Graphic"))}

(* The types that a family is created for, a family that is shared for the *)
(* first of them only.                                                     *)
Created(idx) ==
    {QueueTypes[i] : i \in {j \in 1 .. 4 :
        /\ idx[QueueTypes[j]] # NoFamily
        /\ \A k \in 1 .. j - 1 : ~Share(idx, QueueTypes[j], QueueTypes[k])}}

(* A shared object is known by the first of the types that share it.       *)
FirstSharing(idx, t, Sharing(_)) ==
    IF idx[t] = NoFamily
      THEN "None"
      ELSE LET first == FirstOf([i \in 1 .. 4 |->
                           IF QueueTypes[i] = t \/ Sharing(QueueTypes[i]) THEN {i} ELSE {}])
           IN  QueueTypes[first]

(* vkGetDeviceQueue gives two types the same queue if the family is one.   *)
QueueOf(idx, t) == FirstSharing(idx, t, LAMBDA u : idx[u] = idx[t])

LockOf(idx, t) == FirstSharing(idx, t, LAMBDA u : Share(idx, t, u))

(* Presenting needs no commands and has no pool.                           *)
PoolOf(idx, t) == IF t = "Present" THEN "None" ELSE LockOf(idx, t)

UsesHostImageCopy(idx, supported) ==
    supported /\ (Share(idx, "Transfer", "Compute") \/ Share(idx, "Transfer", "Graphic"))
=============================================================================

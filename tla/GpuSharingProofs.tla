-------------------------- MODULE GpuSharingProofs --------------------------
(***************************************************************************)
(* For machines with any number of queue families: what VlkDevice's        *)
(* constructor chooses is sound; and however often the three threads run,  *)
(* queues and pools are touched under their locks only, nobody waits, in a *)
(* circle, for itself, and the texture shown was uploaded.                 *)
(*                                                                         *)
(* The constructor's choices follow from DeviceInv alone.  For the rest a  *)
(* thread's state is a point: the locks it holds, the parts of its upload  *)
(* that it submitted, and those it has waited for.  Runs says that a       *)
(* program leads, instruction by instruction, from one point to another;   *)
(* every handler leads from rest to rest, and the invariant is that what   *)
(* each thread has still to do leads from where it is to rest.             *)
(***************************************************************************)
EXTENDS GpuSharing, FiniteSetTheorems, TLAPS

\* A set of numbers has a least one.
LEMMA LeastOf ==
    ASSUME NEW S \in SUBSET Nat, S # {}
    PROVE  Min(S) \in S /\ \A y \in S : Min(S) <= y
<1>1. PICK R : IsWellFoundedOn(R, Nat) /\ \A x, y \in Nat : y < x => <<y, x>> \in R
  <2>1. \A x, y \in Nat : y < x => <<y, x>> \in OpToRel(<, Nat)
    BY DEF OpToRel
  <2> QED
    BY <2>1, NatLessThanWellFounded
<1>2. PICK x \in S : \A y \in S : <<y, x>> \notin R
  BY <1>1, WFMin
<1>3. \A y \in S : x <= y
  <2> TAKE y \in S
  <2>1. x \in Nat /\ y \in Nat
    OBVIOUS
  <2>2. ~(y < x)
    BY <1>1, <1>2, <2>1
  <2> QED
    BY <2>1, <2>2
<1> QED
  BY <1>2, <1>3 DEF Min

\* FirstOf is in one of its sets, if any of them has a member.
LEMMA FirstOfSome ==
    ASSUME NEW n \in Nat, NEW sets, DOMAIN sets = 1 .. n, \A i \in 1 .. n : sets[i] \subseteq Nat,
           NEW k \in 1 .. n, sets[k] # {}
    PROVE  \E i \in 1 .. n : FirstOf(sets) \in sets[i]
<1> DEFINE found == {i \in DOMAIN sets : sets[i] # {}}
<1>1. found \in SUBSET Nat /\ found # {} /\ found \subseteq 1 .. n
  OBVIOUS
<1>2. Min(found) \in found
  BY <1>1, LeastOf
<1>3. sets[Min(found)] \in SUBSET Nat /\ sets[Min(found)] # {}
  BY <1>1, <1>2
<1>4. Min(sets[Min(found)]) \in sets[Min(found)]
  BY <1>3, LeastOf
<1>5. FirstOf(sets) = Min(sets[Min(found)])
  BY <1>1 DEF FirstOf
<1> QED
  BY <1>1, <1>2, <1>4, <1>5

-----------------------------------------------------------------------------
(* The choices of the constructor.                                         *)

\* What a type needs of its family.
Ability == [Graphic |-> {"graphics"}, Compute |-> {"compute"},
            Transfer |-> {"graphics", "compute", "transfer"}, Present |-> {"present"}]

LEMMA MachineFacts ==
    ASSUME NEW q \in Machines
    PROVE  /\ q # <<>>
           /\ \E n \in Nat : DOMAIN q = 1 .. n
           /\ \A w : Having(q, w) \subseteq Nat \ {0}
           /\ \A t \in Types : Having(q, Ability[t]) # {}
<1>1. PICK n \in 1 .. MaxFamilies : q \in [1 .. n -> Families]
  BY DEF Machines
<1>2. n \in Nat /\ DOMAIN q = 1 .. n /\ 1 \in DOMAIN q
  BY <1>1, MaxFamiliesAssumption
<1>3. q # <<>>
  BY <1>2
<1>4. \A w : Having(q, w) \subseteq Nat \ {0}
  BY <1>2 DEF Having
<1>5. PICK f \in DOMAIN q : {"graphics", "compute"} \subseteq q[f]
  BY DEF Machines
<1>6. Having(q, {"present"}) # {}
  BY DEF Machines
<1>7. f \in Having(q, {"graphics"}) /\ f \in Having(q, {"compute"}) /\ f \in Having(q, {"graphics", "compute", "transfer"})
  BY <1>5 DEF Having
<1>8. \A t \in Types : Having(q, Ability[t]) # {}
  BY <1>6, <1>7 DEF Types, Ability
<1> QED
  BY <1>2, <1>3, <1>4, <1>8

LEMMA GraphicChoice ==
    ASSUME NEW q \in Machines, NEW f
    PROVE  GraphicIdx(f, q) \in IF "Graphic" \in f THEN Having(q, {"graphics"}) ELSE {NoFamily}
<1> DEFINE graphic == Having(q, {"graphics"})
           alone == graphic \ Having(q, {"compute"})
           present == Having(q, {"present"})
           sets == <<IF "Present" \in f THEN IF "Compute" \in f THEN alone \cap present ELSE {} ELSE {},
                     IF "Present" \in f THEN graphic \cap present ELSE {},
                     IF "Compute" \in f THEN alone ELSE {},
                     graphic>>
<1>1. DOMAIN sets = 1 .. 4 /\ sets[4] = graphic
  OBVIOUS
<1>2. \A i \in 1 .. 4 : sets[i] \subseteq graphic
  <2>1. \A i \in 1 .. 4 : i \in {1, 2, 3, 4}
    OBVIOUS
  <2> QED
    BY <2>1
<1>3. graphic \subseteq Nat /\ graphic # {}
  <2>1. "Graphic" \in Types /\ Ability["Graphic"] = {"graphics"}
    BY DEF Types, Ability
  <2> QED
    BY <2>1, MachineFacts
<1>4. "Graphic" \in f => GraphicIdx(f, q) = FirstOf(sets)
  BY DEF GraphicIdx
<1> HIDE DEF sets, graphic
<1>5. FirstOf(sets) \in graphic
  <2>1. 4 \in 1 .. 4 /\ 4 \in Nat
    OBVIOUS
  <2>2. \E i \in 1 .. 4 : FirstOf(sets) \in sets[i]
    BY <1>1, <1>2, <1>3, <2>1, FirstOfSome
  <2> QED
    BY <1>2, <2>2
<1> QED
  BY <1>4, <1>5 DEF GraphicIdx, graphic

LEMMA ComputeChoice ==
    ASSUME NEW q \in Machines, NEW f
    PROVE  ComputeIdx(f, q) \in IF "Compute" \in f THEN Having(q, {"compute"}) ELSE {NoFamily}
<1> DEFINE compute == Having(q, {"compute"})
           sets == <<compute \ {GraphicIdx(f, q)}, compute>>
<1>1. DOMAIN sets = 1 .. 2 /\ sets[2] = compute
  OBVIOUS
<1>2. \A i \in 1 .. 2 : sets[i] \subseteq compute
  <2>1. \A i \in 1 .. 2 : i \in {1, 2}
    OBVIOUS
  <2> QED
    BY <2>1
<1>3. compute \subseteq Nat /\ compute # {}
  <2>1. "Compute" \in Types /\ Ability["Compute"] = {"compute"}
    BY DEF Types, Ability
  <2> QED
    BY <2>1, MachineFacts
<1>4. "Compute" \in f => ComputeIdx(f, q) = FirstOf(sets)
  BY DEF ComputeIdx
<1> HIDE DEF sets, compute
<1>5. FirstOf(sets) \in compute
  <2>1. 2 \in 1 .. 2 /\ 2 \in Nat
    OBVIOUS
  <2>2. \E i \in 1 .. 2 : FirstOf(sets) \in sets[i]
    BY <1>1, <1>2, <1>3, <2>1, FirstOfSome
  <2> QED
    BY <1>2, <2>2
<1> QED
  BY <1>4, <1>5 DEF ComputeIdx, compute

LEMMA TransferChoice ==
    ASSUME NEW q \in Machines, NEW f
    PROVE  TransferIdx(f, q) \in Having(q, {"graphics", "compute", "transfer"})
<1> DEFINE transfer == Having(q, {"graphics", "compute", "transfer"})
           sets == <<transfer \ {GraphicIdx(f, q), ComputeIdx(f, q)}, transfer>>
<1>1. DOMAIN sets = 1 .. 2 /\ sets[2] = transfer
  OBVIOUS
<1>2. \A i \in 1 .. 2 : sets[i] \subseteq transfer
  <2>1. \A i \in 1 .. 2 : i \in {1, 2}
    OBVIOUS
  <2> QED
    BY <2>1
<1>3. transfer \subseteq Nat /\ transfer # {}
  <2>1. "Transfer" \in Types /\ Ability["Transfer"] = {"graphics", "compute", "transfer"}
    BY DEF Types, Ability
  <2> QED
    BY <2>1, MachineFacts
<1>4. TransferIdx(f, q) = FirstOf(sets)
  BY DEF TransferIdx
<1> HIDE DEF sets, transfer
<1>5. FirstOf(sets) \in transfer
  <2>1. 2 \in 1 .. 2 /\ 2 \in Nat
    OBVIOUS
  <2>2. \E i \in 1 .. 2 : FirstOf(sets) \in sets[i]
    BY <1>1, <1>2, <1>3, <2>1, FirstOfSome
  <2> QED
    BY <1>2, <2>2
<1> QED
  BY <1>4, <1>5 DEF transfer

LEMMA PresentChoice ==
    ASSUME NEW q \in Machines, NEW f
    PROVE  PresentIdx(f, q) \in IF "Present" \in f THEN Having(q, {"present"}) ELSE {NoFamily}
<1> DEFINE present == Having(q, {"present"})
           sets == <<present \cap {GraphicIdx(f, q)}, present \ {ComputeIdx(f, q), TransferIdx(f, q)}, present>>
<1>1. DOMAIN sets = 1 .. 3 /\ sets[3] = present
  OBVIOUS
<1>2. \A i \in 1 .. 3 : sets[i] \subseteq present
  <2>1. \A i \in 1 .. 3 : i \in {1, 2, 3}
    OBVIOUS
  <2> QED
    BY <2>1
<1>3. present \subseteq Nat /\ present # {}
  <2>1. "Present" \in Types /\ Ability["Present"] = {"present"}
    BY DEF Types, Ability
  <2> QED
    BY <2>1, MachineFacts
<1>4. "Present" \in f => PresentIdx(f, q) = FirstOf(sets)
  BY DEF PresentIdx
<1> HIDE DEF sets, present
<1>5. FirstOf(sets) \in present
  <2>1. 3 \in 1 .. 3 /\ 3 \in Nat
    OBVIOUS
  <2>2. \E i \in 1 .. 3 : FirstOf(sets) \in sets[i]
    BY <1>1, <1>2, <1>3, <2>1, FirstOfSome
  <2> QED
    BY <1>2, <2>2
<1> QED
  BY <1>4, <1>5 DEF PresentIdx, present

\* A type has a family that can do what it is for, if it is wanted, and else none.
LEMMA FamilyChoice ==
    ASSUME NEW q \in Machines, NEW f \in SUBSET Types
    PROVE  /\ DOMAIN QueueIdx(f, q) = Types
           /\ \A t \in Types :
                QueueIdx(f, q)[t] \in IF t \in f \cup {"Transfer"} THEN Having(q, Ability[t]) ELSE {NoFamily}
<1>1. /\ QueueIdx(f, q)["Graphic"] = GraphicIdx(f, q) /\ QueueIdx(f, q)["Compute"] = ComputeIdx(f, q)
      /\ QueueIdx(f, q)["Transfer"] = TransferIdx(f, q) /\ QueueIdx(f, q)["Present"] = PresentIdx(f, q)
      /\ DOMAIN QueueIdx(f, q) = Types
  BY DEF QueueIdx, Types
<1>2. /\ Ability["Graphic"] = {"graphics"} /\ Ability["Compute"] = {"compute"}
      /\ Ability["Transfer"] = {"graphics", "compute", "transfer"} /\ Ability["Present"] = {"present"}
  BY DEF Ability
<1> SUFFICES ASSUME NEW t \in Types
             PROVE  QueueIdx(f, q)[t] \in IF t \in f \cup {"Transfer"} THEN Having(q, Ability[t]) ELSE {NoFamily}
  BY <1>1
<1>3. CASE t = "Graphic"
  BY <1>1, <1>2, <1>3, GraphicChoice
<1>4. CASE t = "Compute"
  BY <1>1, <1>2, <1>4, ComputeChoice
<1>5. CASE t = "Transfer"
  BY <1>1, <1>2, <1>5, TransferChoice
<1>6. CASE t = "Present"
  BY <1>1, <1>2, <1>6, PresentChoice
<1> QED
  BY <1>3, <1>4, <1>5, <1>6 DEF Types

\* The first of four sets that has a member, each of them being about one type.
LEMMA FirstSharingIs ==
    ASSUME NEW i \in [Types -> Nat], NEW t \in Types, i[t] # NoFamily
    PROVE  /\ LockOf(i, t) \in Types /\ i[LockOf(i, t)] = i[t]
           /\ QueueOf(i, t) = LockOf(i, t)
           /\ \A u \in Types : i[u] = i[t] => LockOf(i, u) = LockOf(i, t)
<1> DEFINE sets(u) == [k \in 1 .. 4 |-> IF i[QueueTypes[k]] = i[u] THEN {k} ELSE {}]
<1>1. /\ \A k \in 1 .. 4 : QueueTypes[k] \in Types
      /\ \A u \in Types : \E k \in 1 .. 4 : QueueTypes[k] = u
  <2>1. /\ QueueTypes[1] = "Graphic" /\ QueueTypes[2] = "Compute"
        /\ QueueTypes[3] = "Transfer" /\ QueueTypes[4] = "Present"
    BY DEF QueueTypes
  <2>2. \A k \in 1 .. 4 : k \in {1, 2, 3, 4}
    OBVIOUS
  <2>3. 1 \in 1 .. 4 /\ 2 \in 1 .. 4 /\ 3 \in 1 .. 4 /\ 4 \in 1 .. 4
    OBVIOUS
  <2> QED
    BY <2>1, <2>2, <2>3 DEF Types
<1>2. \A u \in Types : i[u] # NoFamily =>
         /\ [k \in 1 .. 4 |-> IF QueueTypes[k] = u \/ Share(i, u, QueueTypes[k]) THEN {k} ELSE {}] = sets(u)
         /\ [k \in 1 .. 4 |-> IF QueueTypes[k] = u \/ i[QueueTypes[k]] = i[u] THEN {k} ELSE {}] = sets(u)
  BY DEF Share
<1>3. \A u \in Types : i[u] # NoFamily =>
         LockOf(i, u) = QueueTypes[FirstOf(sets(u))] /\ QueueOf(i, u) = QueueTypes[FirstOf(sets(u))]
  BY <1>2 DEF LockOf, QueueOf, FirstSharing
<1>4. \E k \in 1 .. 4 : FirstOf(sets(t)) \in sets(t)[k]
  <2>1. DOMAIN sets(t) = 1 .. 4 /\ \A k \in 1 .. 4 : sets(t)[k] \subseteq Nat
    OBVIOUS
  <2>2. PICK k \in 1 .. 4 : sets(t)[k] # {}
    BY <1>1
  <2> HIDE DEF sets
  <2> QED
    BY <2>1, <2>2, FirstOfSome
<1>5. FirstOf(sets(t)) \in 1 .. 4 /\ i[QueueTypes[FirstOf(sets(t))]] = i[t]
  BY <1>4
<1>6. \A u \in Types : i[u] = i[t] => sets(u) = sets(t)
  OBVIOUS
<1> QED
  BY <1>1, <1>3, <1>5, <1>6

\* A family is created for the first of the types that have it.
LEMMA CreatedOnce ==
    ASSUME NEW i \in [Types -> Nat], NEW t \in Types, i[t] # NoFamily
    PROVE  Cardinality({u \in Created(i) : i[u] = i[t]}) = 1
<1> DEFINE same == {j \in 1 .. 4 : i[QueueTypes[j]] = i[t]}
           j == Min(same)
<1>1. \E k \in 1 .. 4 : QueueTypes[k] = t
  <2>1. /\ QueueTypes[1] = "Graphic" /\ QueueTypes[2] = "Compute"
        /\ QueueTypes[3] = "Transfer" /\ QueueTypes[4] = "Present"
    BY DEF QueueTypes
  <2>2. 1 \in 1 .. 4 /\ 2 \in 1 .. 4 /\ 3 \in 1 .. 4 /\ 4 \in 1 .. 4
    OBVIOUS
  <2> QED
    BY <2>1, <2>2 DEF Types
<1>2. j \in same /\ \A k \in same : j <= k
  <2>1. same \in SUBSET Nat /\ same # {}
    BY <1>1
  <2> HIDE DEF same
  <2> QED
    BY <2>1, LeastOf
<1>3. QueueTypes[j] \in Created(i)
  <2>1. j \in 1 .. 4 /\ i[QueueTypes[j]] # NoFamily
    BY <1>2
  <2>2. \A k \in 1 .. j - 1 : ~Share(i, QueueTypes[j], QueueTypes[k])
    <3> SUFFICES ASSUME NEW k \in 1 .. j - 1, i[QueueTypes[j]] = i[QueueTypes[k]]
                 PROVE  FALSE
      BY DEF Share
    <3>1. k \in 1 .. 4 /\ k < j
      BY <2>1
    <3>2. k \in same
      BY <1>2, <3>1
    <3> QED
      BY <1>2, <2>1, <3>1, <3>2
  <2> QED
    BY <2>1, <2>2 DEF Created
<1>4. ASSUME NEW u \in Created(i), i[u] = i[t]
      PROVE  u = QueueTypes[j]
  <2>1. PICK k \in 1 .. 4 : u = QueueTypes[k] /\ \A l \in 1 .. k - 1 : ~Share(i, QueueTypes[k], QueueTypes[l])
    BY <1>4 DEF Created
  <2>2. k \in same /\ j \in 1 .. 4 /\ i[QueueTypes[j]] = i[t] /\ j <= k
    BY <1>2, <1>4, <2>1
  <2>3. j \notin 1 .. k - 1
    BY <1>4, <2>1, <2>2 DEF Share
  <2> QED
    BY <2>1, <2>2, <2>3
<1>5. {u \in Created(i) : i[u] = i[t]} = {QueueTypes[j]}
  BY <1>2, <1>3, <1>4
<1> QED
  BY <1>5, FS_Singleton

\* What the constructor has made of the machine, and what the threads rely on when
\* the machine is forgotten.
NoFamilies == [t \in Types |-> NoFamily]

Made ==
    /\ qfp \in Machines
    /\ idx = QueueIdx(flags, qfp)
    /\ m_queue = [t \in Types |-> QueueOf(idx, t)]
    /\ m_queueLock = [t \in Types |-> LockOf(idx, t)]
    /\ m_commandPool = [t \in Types |-> PoolOf(idx, t)]

DeviceInv ==
    /\ flags \in FlagSets
    /\ qfp = <<>> \/ qfp \in Machines
    /\ idx # NoFamilies => Made
    /\ m_queue = m_queueLock
    /\ m_queueLock \in [Types -> Types \cup {"None"}] /\ m_commandPool \in [Types -> Types \cup {"None"}]
    /\ qfp = <<>> => \A t \in {"Graphic", "Transfer", "Present"} : m_queue[t] \in Types

LEMMA FlagSetsAreTypes == \A f \in FlagSets : f \in SUBSET Types
BY DEF FlagSets, Types

LEMMA IdxType ==
    ASSUME NEW q \in Machines, NEW f \in FlagSets
    PROVE  /\ QueueIdx(f, q) \in [Types -> Nat]
           /\ \A t \in Types : (t \in f \cup {"Transfer"}) <=> (QueueIdx(f, q)[t] # NoFamily)
<1> DEFINE i == QueueIdx(f, q)
<1>1. DOMAIN i = Types /\ \A t \in Types : i[t] \in IF t \in f \cup {"Transfer"} THEN Having(q, Ability[t]) ELSE {NoFamily}
  BY FamilyChoice, FlagSetsAreTypes
<1>2. \A w : Having(q, w) \subseteq Nat \ {0}
  BY MachineFacts
<1>3. i \in [Types -> {i[t] : t \in Types}]
  BY Zenon DEF QueueIdx
<1> HIDE DEF i
<1>4. \A t \in Types : /\ i[t] \in Nat
                       /\ (t \in f \cup {"Transfer"}) <=> (i[t] # NoFamily)
  BY <1>1, <1>2 DEF NoFamily
<1>5. i \in [Types -> Nat]
  <2>1. {i[t] : t \in Types} \subseteq Nat
    BY <1>4
  <2> QED
    BY <1>3, <2>1
<1> QED
  BY <1>4, <1>5 DEF i

LEMMA SharingType ==
    ASSUME NEW i \in [Types -> Nat], NEW t \in Types
    PROVE  /\ LockOf(i, t) \in Types \cup {"None"} /\ QueueOf(i, t) = LockOf(i, t)
           /\ PoolOf(i, t) \in Types \cup {"None"}
<1>1. i[t] = NoFamily => LockOf(i, t) = "None" /\ QueueOf(i, t) = "None"
  BY DEF LockOf, QueueOf, FirstSharing
<1>2. LockOf(i, t) \in Types \cup {"None"} /\ QueueOf(i, t) = LockOf(i, t)
  BY <1>1, FirstSharingIs
<1> QED
  BY <1>2 DEF PoolOf

LEMMA DeviceInit == Init => DeviceInv
BY MachineFacts DEF Init, DeviceInv, NoDevice, NoFamilies

LEMMA DeviceStep == DeviceInv /\ [Next]_vars => DeviceInv'
<1> SUFFICES ASSUME DeviceInv, [Next]_vars
             PROVE  DeviceInv'
  OBVIOUS
<1>1. CASE Construct
  <2>1. qfp \in Machines /\ flags \in FlagSets /\ UNCHANGED <<qfp, flags>> /\ idx' = QueueIdx(flags, qfp)
    BY <1>1 DEF Construct, DeviceInv
  <2>2. idx' \in [Types -> Nat]
    BY <2>1, IdxType
  <2>3. /\ m_queue' = [t \in Types |-> QueueOf(idx', t)]
        /\ m_queueLock' = [t \in Types |-> LockOf(idx', t)]
        /\ m_commandPool' = [t \in Types |-> PoolOf(idx', t)]
    BY <1>1 DEF Construct
  <2>4. Made'
    BY <2>1, <2>3 DEF Made
  <2>5. /\ m_queue' = m_queueLock'
        /\ m_queueLock' \in [Types -> Types \cup {"None"}] /\ m_commandPool' \in [Types -> Types \cup {"None"}]
    BY <2>2, <2>3, SharingType
  <2>6. qfp' # <<>>
    BY <2>1, MachineFacts
  <2> QED
    BY <2>1, <2>4, <2>5, <2>6 DEF DeviceInv
<1>2. CASE Forget
  <2>1. /\ flags = {"Graphic", "Present"} /\ Made /\ idx' = NoFamilies /\ qfp' = <<>>
        /\ UNCHANGED <<flags, m_queue, m_queueLock, m_commandPool>>
    BY <1>2 DEF Forget, DeviceInv, NoFamilies
  <2>2. \A t \in {"Graphic", "Transfer", "Present"} : m_queue[t] \in Types
    <3> SUFFICES ASSUME NEW t \in {"Graphic", "Transfer", "Present"}
                 PROVE  m_queue[t] \in Types
      OBVIOUS
    <3>1. t \in Types /\ t \in flags \cup {"Transfer"} /\ flags \in FlagSets
      BY <2>1 DEF Types, DeviceInv
    <3>2. idx \in [Types -> Nat] /\ idx[t] # NoFamily
      BY <2>1, <3>1, IdxType DEF Made
    <3>3. m_queue[t] = QueueOf(idx, t)
      BY <2>1, <3>1 DEF Made
    <3> QED
      BY <3>1, <3>2, <3>3, FirstSharingIs
  <2> QED
    BY <2>1, <2>2 DEF DeviceInv
<1>3. CASE UNCHANGED deviceVars
  BY <1>3 DEF deviceVars, DeviceInv, Made
<1>4. CASE Unused \/ UNCHANGED vars
  BY <1>3, <1>4 DEF Unused, vars
<1>5. ASSUME NEW th \in Threads, Enqueue(th) \/ Step(th)
      PROVE  UNCHANGED deviceVars
  BY <1>5 DEF Enqueue, Step, Lock, Unlock, TouchLocked, PoolCall, QueueCall, HostCopy, WaitFence, SetTexture,
              PutGarbage, ReapGarbage
<1>6. ASSUME NEW t \in Types, GpuDone(t)
      PROVE  UNCHANGED deviceVars
  BY <1>6 DEF GpuDone
<1> QED
  BY <1>1, <1>2, <1>3, <1>4, <1>5, <1>6 DEF Next

\* On every machine whose window can be presented, however many families it has, the
\* families, queues, locks and pools that the constructor chooses are sound.
THEOREM ConstructorChoosesSoundly == Spec => []ChoicesAreSound
<1>1. DeviceInv => ChoicesAreSound
  <2> SUFFICES ASSUME DeviceInv, idx # NoFamilies
               PROVE  LET has == {t \in Types : idx[t] # NoFamily}
                      IN  /\ flags \cup {"Transfer"} = has
                          /\ \A t \in has : qfp[idx[t]] \cap Ability[t] # {}
                          /\ \A t, u \in has : (m_queueLock[t] = m_queueLock[u]) <=> (idx[t] = idx[u])
                          /\ \A t \in has : Cardinality({u \in Created(idx) : idx[u] = idx[t]}) = 1
                          /\ \A t \in has \ {"Present"} : m_commandPool[t] # "None"
    BY DEF ChoicesAreSound, NoFamilies, Ability
  <2> DEFINE has == {t \in Types : idx[t] # NoFamily}
  <2>1. Made /\ flags \in FlagSets /\ flags \cup {"Transfer"} \subseteq Types
    BY FlagSetsAreTypes DEF DeviceInv, Types
  <2>2. idx \in [Types -> Nat] /\ \A t \in Types : (t \in flags \cup {"Transfer"}) <=> (idx[t] # NoFamily)
    BY <2>1, IdxType DEF Made
  <2>3. flags \cup {"Transfer"} = has
    BY <2>1, <2>2
  <2>4. \A t \in has : qfp[idx[t]] \cap Ability[t] # {}
    <3> SUFFICES ASSUME NEW t \in has
                 PROVE  qfp[idx[t]] \cap Ability[t] # {}
      OBVIOUS
    <3>1. idx[t] \in Having(qfp, Ability[t])
      BY <2>1, <2>3, FamilyChoice, FlagSetsAreTypes DEF Made
    <3> QED
      BY <3>1 DEF Having
  <2>5. \A t, u \in has : (m_queueLock[t] = m_queueLock[u]) <=> (idx[t] = idx[u])
    <3>1. \A t \in has : m_queueLock[t] = LockOf(idx, t) /\ idx[LockOf(idx, t)] = idx[t]
      BY <2>1, <2>2, FirstSharingIs DEF Made
    <3>2. \A t, u \in has : idx[t] = idx[u] => LockOf(idx, t) = LockOf(idx, u)
      BY <2>2, FirstSharingIs
    <3> QED
      BY <3>1, <3>2
  <2>6. \A t \in has : Cardinality({u \in Created(idx) : idx[u] = idx[t]}) = 1
    BY <2>2, CreatedOnce
  <2>7. \A t \in has \ {"Present"} : m_commandPool[t] # "None"
    <3> SUFFICES ASSUME NEW t \in has \ {"Present"}
                 PROVE  m_commandPool[t] # "None"
      OBVIOUS
    <3>1. m_commandPool[t] = LockOf(idx, t)
      BY <2>1 DEF Made, PoolOf
    <3>2. LockOf(idx, t) \in Types
      BY <2>2, FirstSharingIs
    <3> QED
      BY <3>1, <3>2 DEF Types
  <2> QED
    BY <2>3, <2>4, <2>5, <2>6, <2>7
<1> QED
  BY <1>1, DeviceInit, DeviceStep, PTL DEF Spec
-----------------------------------------------------------------------------
(* Programs.  What a thread holds, what of its upload it has submitted and *)
(* what of that it has waited for lead from one instruction to the next.   *)

Parts == {"copy", "release", "acquire"}
Works == (Parts \cup {"frame", "readback"}) \X Threads

\* Locks are taken in the order of these ranks.
Rank == [view |-> 1, window |-> 2, pool |-> 3, viewport |-> 4, queue |-> 5, selection |-> 5, provider |-> 5, garbage |-> 5]
RankOf(l) == Rank[l[1]]

Locks == {<<"view">>, <<"window">>, <<"viewport">>, <<"selection">>, <<"provider">>, <<"garbage">>}
           \cup ({"pool", "queue"} \X (Types \cup {"None"}))

At(held, sent, seen) == [held |-> held, sent |-> sent, seen |-> seen]
Points == [held : SUBSET Locks, sent : SUBSET Parts, seen : SUBSET Parts]
Rest == At({}, {}, {})

Free(l, held) == l \in Locks /\ \A k \in held : RankOf(k) < RankOf(l)

\* The locks of a type's pool and queue, on a device with these pools and locks.
Device == [pools |-> m_commandPool, locks |-> m_queueLock]
Pool(d, t) == <<"pool", d.pools[t]>>
Queue(d, t) == <<"queue", d.locks[t]>>

\* Whether the instruction e of thread th may lead from point a to point b.
Allowed(d, th, e, a, b) ==
    \/ e[1] = "lock" /\ Free(e[2], a.held) /\ b = At(a.held \cup {e[2]}, a.sent, a.seen)
    \/ e[1] = "touch" /\ Free(e[2], a.held) /\ b = a
    \/ e[1] = "unlock" /\ e[2] \in a.held /\ b = At(a.held \ {e[2]}, a.sent, a.seen)
    \/ e[1] = "begin" /\ Pool(d, e[2]) \in a.held /\ b = a
    \/ e[1] = "commands" /\ Pool(d, e[2]) \in a.held /\ b = At(a.held \ {Pool(d, e[2])}, a.sent, a.seen)
    \/ e[1] = "present" /\ Queue(d, e[2]) \in a.held /\ b = At(a.held \ {Queue(d, e[2])}, a.sent, a.seen)
    \/ /\ e[1] = "submit" /\ Queue(d, e[2]) \in a.held
       /\ e[2] \in {"Graphic", "Transfer"} /\ e[3] \in Works /\ e[3][2] = th /\ e[3][1] \notin a.sent
       /\ b = At(a.held \ {Queue(d, e[2])}, a.sent \cup ({e[3][1]} \cap Parts), a.seen)
    \/ /\ e[1] = "wait" /\ e[2] \in Works /\ e[2][2] = th /\ {e[2][1]} \cap Parts \subseteq a.sent
       /\ b = At(a.held, a.sent, a.seen \cup ({e[2][1]} \cap Parts))
    \/ e[1] = "recycle" /\ e[2] \in {"Graphic", "Transfer"} /\ e[3] \in Works /\ b = a
    \/ e[1] = "hostCopy" /\ a.sent = {} /\ a.seen = {} /\ b = At(a.held, {"copy"}, {"copy"})
    \/ /\ e[1] = "setTexture" /\ e[2] = th /\ a.seen = a.sent /\ a.sent \in {{"copy"}, {"release", "acquire"}}
       /\ b = At(a.held, {}, {})
    \/ e[1] = "reap" /\ a = Rest /\ b = Rest

Instructions ==
    ({"lock", "unlock", "touch"} \X Locks)
      \cup ({"begin", "commands", "present"} \X Types)
      \cup ({"submit", "recycle"} \X Types \X Works)
      \cup ({"wait"} \X Works)
      \cup ({"setTexture"} \X Threads)
      \cup {<<"hostCopy">>, <<"reap">>}

\* On the device d, the program p of thread th leads from point a to point b.
Runs(d, th, p, a, b) ==
    /\ p \in Seq(Instructions)
    /\ \E h \in [1 .. Len(p) + 1 -> Points] :
        /\ h[1] = a /\ h[Len(p) + 1] = b
        /\ \A i \in 1 .. Len(p) : Allowed(d, th, p[i], h[i], h[i + 1])

LEMMA RunsNone ==
    ASSUME NEW d, NEW th, NEW a \in Points
    PROVE  Runs(d, th, <<>>, a, a)
<1> DEFINE h == [i \in 1 .. 1 |-> a]
<1>1. <<>> \in Seq(Instructions) /\ Len(<<>>) = 0
  OBVIOUS
<1>2. h \in [1 .. 0 + 1 -> Points] /\ h[1] = a /\ h[0 + 1] = a /\ \A i \in 1 .. 0 : FALSE
  OBVIOUS
<1> QED
  BY <1>1, <1>2 DEF Runs

LEMMA RunsOne ==
    ASSUME NEW d, NEW th, NEW e \in Instructions, NEW a \in Points, NEW b \in Points, Allowed(d, th, e, a, b)
    PROVE  Runs(d, th, <<e>>, a, b)
<1> DEFINE h == [i \in 1 .. 2 |-> IF i = 1 THEN a ELSE b]
           p == <<e>>
<1>1. p \in Seq(Instructions) /\ Len(p) = 1 /\ p[1] = e
  OBVIOUS
<1>2. h \in [1 .. 1 + 1 -> Points] /\ h[1] = a /\ h[1 + 1] = b
  OBVIOUS
<1> HIDE DEF p, h
<1>3. \A i \in 1 .. 1 : Allowed(d, th, p[i], h[i], h[i + 1])
  BY <1>1, <1>2
<1>4. Runs(d, th, p, a, b)
  BY <1>1, <1>2, <1>3 DEF Runs
<1> QED
  BY <1>4 DEF p

LEMMA RunsJoin ==
    ASSUME NEW d, NEW th, NEW p, NEW q, NEW a, NEW b, NEW c, Runs(d, th, p, a, b), Runs(d, th, q, b, c)
    PROVE  Runs(d, th, p \o q, a, c)
<1>1. p \in Seq(Instructions) /\ q \in Seq(Instructions)
  BY DEF Runs
<1>2. PICK g \in [1 .. Len(p) + 1 -> Points] :
        /\ g[1] = a /\ g[Len(p) + 1] = b
        /\ \A i \in 1 .. Len(p) : Allowed(d, th, p[i], g[i], g[i + 1])
  BY DEF Runs
<1>3. PICK h \in [1 .. Len(q) + 1 -> Points] :
        /\ h[1] = b /\ h[Len(q) + 1] = c
        /\ \A i \in 1 .. Len(q) : Allowed(d, th, q[i], h[i], h[i + 1])
  BY DEF Runs
<1> DEFINE r == p \o q
           m == Len(p)
           n == Len(q)
           f == [i \in 1 .. m + n + 1 |-> IF i <= m + 1 THEN g[i] ELSE h[i - m]]
<1>4. /\ r \in Seq(Instructions) /\ m \in Nat /\ n \in Nat /\ Len(r) = m + n
      /\ \A i \in 1 .. m + n : r[i] = IF i <= m THEN p[i] ELSE q[i - m]
  BY <1>1
<1> HIDE DEF r, m, n
<1>5. f \in [1 .. m + n + 1 -> Points]
  <2> SUFFICES ASSUME NEW i \in 1 .. m + n + 1
               PROVE  (IF i <= m + 1 THEN g[i] ELSE h[i - m]) \in Points
    OBVIOUS
  <2>1. i <= m + 1 => i \in 1 .. m + 1
    BY <1>4
  <2>2. ~(i <= m + 1) => i - m \in 1 .. n + 1
    BY <1>4
  <2> QED
    BY <1>2, <1>3, <2>1, <2>2 DEF m, n
<1>6. f[1] = a /\ f[m + n + 1] = c
  <2>1. f[1] = a
    BY <1>2, <1>4
  <2>2. n = 0 => f[m + n + 1] = c
    BY <1>2, <1>3, <1>4 DEF m, n
  <2>3. n # 0 => f[m + n + 1] = h[n + 1]
    BY <1>4
  <2> QED
    BY <1>3, <2>1, <2>2, <2>3 DEF n
<1>7. ASSUME NEW i \in 1 .. m + n
      PROVE  Allowed(d, th, r[i], f[i], f[i + 1])
  <2>1. CASE i <= m
    <3>1. i \in 1 .. m /\ r[i] = p[i] /\ f[i] = g[i] /\ f[i + 1] = g[i + 1]
      BY <1>4, <2>1
    <3> QED
      BY <1>2, <3>1 DEF m
  <2>2. CASE i = m + 1
    <3>1. 1 \in 1 .. n /\ r[i] = q[1] /\ f[i] = g[m + 1]
      BY <1>4, <2>2
    <3>2. f[i + 1] = h[1 + 1]
      BY <1>4, <2>2
    <3> QED
      BY <1>2, <1>3, <3>1, <3>2 DEF m, n
  <2>3. CASE i > m + 1
    <3>1. i - m \in 1 .. n /\ r[i] = q[i - m] /\ f[i] = h[i - m]
      BY <1>4, <2>3
    <3>2. f[i + 1] = h[(i - m) + 1]
      <4>1. ~(i + 1 <= m + 1) /\ i + 1 \in 1 .. m + n + 1
        BY <1>4, <2>3
      <4>2. f[i + 1] = h[(i + 1) - m]
        BY <4>1
      <4>3. (i + 1) - m = (i - m) + 1
        BY <1>4
      <4> QED
        BY <4>2, <4>3
    <3> QED
      BY <1>3, <3>1, <3>2 DEF n
  <2> QED
    BY <1>4, <2>1, <2>2, <2>3
<1> HIDE DEF f
<1>8. Runs(d, th, r, a, c)
  BY <1>4, <1>5, <1>6, <1>7 DEF Runs
<1> QED
  BY <1>8 DEF r

LEMMA RunsTail ==
    ASSUME NEW d, NEW th, NEW p, NEW a, NEW b, Runs(d, th, p, a, b), p # <<>>
    PROVE  /\ Head(p) \in Instructions /\ a \in Points
           /\ \E c \in Points : Allowed(d, th, Head(p), a, c) /\ Runs(d, th, Tail(p), c, b)
<1>1. p \in Seq(Instructions)
  BY DEF Runs
<1>2. PICK g \in [1 .. Len(p) + 1 -> Points] :
        /\ g[1] = a /\ g[Len(p) + 1] = b
        /\ \A i \in 1 .. Len(p) : Allowed(d, th, p[i], g[i], g[i + 1])
  BY DEF Runs
<1> DEFINE q == Tail(p)
           n == Len(p)
           h == [i \in 1 .. n |-> g[i + 1]]
<1>3. /\ q \in Seq(Instructions) /\ n \in Nat \ {0} /\ Len(q) = n - 1 /\ Head(p) = p[1] /\ p[1] \in Instructions
      /\ \A i \in 1 .. n - 1 : q[i] = p[i + 1]
  BY <1>1
<1> HIDE DEF q, n
<1>4. g[1] = a /\ 1 \in 1 .. n + 1 /\ 1 + 1 \in 1 .. n + 1 /\ 1 \in 1 .. n
  BY <1>2, <1>3
<1>5. a \in Points /\ g[1 + 1] \in Points /\ Allowed(d, th, Head(p), a, g[1 + 1])
  BY <1>2, <1>3, <1>4 DEF n
<1>6. h \in [1 .. (n - 1) + 1 -> Points] /\ h[1] = g[1 + 1] /\ h[(n - 1) + 1] = b
  <2>1. \A i \in 1 .. n : i + 1 \in 1 .. n + 1
    BY <1>3
  <2>2. (n - 1) + 1 = n /\ n \in 1 .. n
    BY <1>3
  <2>3. h \in [1 .. n -> Points]
    BY <1>2, <2>1 DEF n
  <2> QED
    BY <1>2, <1>4, <2>2, <2>3 DEF n
<1>7. ASSUME NEW i \in 1 .. n - 1
      PROVE  Allowed(d, th, q[i], h[i], h[i + 1])
  <2>1. i \in 1 .. n /\ i + 1 \in 1 .. n /\ q[i] = p[i + 1] /\ h[i] = g[i + 1]
    BY <1>3
  <2>2. h[i + 1] = g[(i + 1) + 1]
    BY <2>1
  <2> QED
    BY <1>2, <2>1, <2>2 DEF n
<1> HIDE DEF h
<1>8. Runs(d, th, q, g[1 + 1], b)
  BY <1>3, <1>6, <1>7 DEF Runs
<1> QED
  BY <1>3, <1>5, <1>8 DEF q
-----------------------------------------------------------------------------
(* The parts that programs are made of.                                    *)

LEMMA DeviceLocks == \A t : Pool(Device, t) = PoolLock(t) /\ Queue(Device, t) = QueueLock(t)
BY DEF Pool, Queue, Device, PoolLock, QueueLock

LEMMA AtFacts ==
    ASSUME NEW A, NEW s, NEW w
    PROVE  /\ At(A, s, w).held = A /\ At(A, s, w).sent = s /\ At(A, s, w).seen = w
           /\ A \in SUBSET Locks /\ s \in SUBSET Parts /\ w \in SUBSET Parts => At(A, s, w) \in Points
BY DEF At, Points

LEMMA LockFacts ==
    /\ \A l \in Locks : RankOf(l) \in 1 .. 5
    /\ /\ RankOf(<<"view">>) = 1 /\ RankOf(<<"window">>) = 2 /\ RankOf(<<"viewport">>) = 4
       /\ RankOf(<<"selection">>) = 5 /\ RankOf(<<"provider">>) = 5 /\ RankOf(<<"garbage">>) = 5
    /\ \A x : RankOf(<<"pool", x>>) = 3 /\ RankOf(<<"queue", x>>) = 5
    /\ {<<"view">>, <<"window">>, <<"viewport">>, <<"selection">>, <<"provider">>, <<"garbage">>} \subseteq Locks
    /\ DeviceInv => \A t \in Types : PoolLock(t) \in Locks /\ QueueLock(t) \in Locks
                                  /\ RankOf(PoolLock(t)) = 3 /\ RankOf(QueueLock(t)) = 5
<1>1. /\ RankOf(<<"view">>) = 1 /\ RankOf(<<"window">>) = 2 /\ RankOf(<<"viewport">>) = 4
      /\ RankOf(<<"selection">>) = 5 /\ RankOf(<<"provider">>) = 5 /\ RankOf(<<"garbage">>) = 5
  BY DEF RankOf, Rank
<1>2. \A x : RankOf(<<"pool", x>>) = 3 /\ RankOf(<<"queue", x>>) = 5
  BY DEF RankOf, Rank
<1>3. \A l \in Locks : RankOf(l) \in 1 .. 5
  <2> SUFFICES ASSUME NEW l \in Locks
               PROVE  RankOf(l) \in {1, 2, 3, 4, 5}
    OBVIOUS
  <2>1. CASE l \in {"pool", "queue"} \X (Types \cup {"None"})
    <3>1. l[1] = "pool" \/ l[1] = "queue"
      BY <2>1
    <3> QED
      BY <3>1 DEF RankOf, Rank
  <2>2. CASE l \in {<<"view">>, <<"window">>, <<"viewport">>, <<"selection">>, <<"provider">>, <<"garbage">>}
    BY <1>1, <2>2
  <2> QED
    BY <2>1, <2>2 DEF Locks
<1>4. ASSUME DeviceInv, NEW t \in Types
      PROVE  /\ PoolLock(t) \in Locks /\ QueueLock(t) \in Locks
             /\ RankOf(PoolLock(t)) = 3 /\ RankOf(QueueLock(t)) = 5
  <2>1. m_commandPool[t] \in Types \cup {"None"} /\ m_queueLock[t] \in Types \cup {"None"}
    BY <1>4 DEF DeviceInv
  <2> QED
    BY <1>2, <2>1 DEF PoolLock, QueueLock, Locks
<1>5. {<<"view">>, <<"window">>, <<"viewport">>, <<"selection">>, <<"provider">>, <<"garbage">>} \subseteq Locks
  BY DEF Locks
<1> QED
  BY <1>1, <1>2, <1>3, <1>4, <1>5

LEMMA FreeIsNew ==
    ASSUME NEW A, NEW l, Free(l, A)
    PROVE  l \in Locks /\ l \notin A /\ (A \cup {l}) \ {l} = A
<1>1. l \in Locks /\ \A k \in A : RankOf(k) < RankOf(l)
  BY DEF Free
<1>2. ~(RankOf(l) < RankOf(l))
  BY <1>1, LockFacts
<1> QED
  BY <1>1, <1>2

LEMMA LockRuns ==
    ASSUME NEW th, NEW A \in SUBSET Locks, NEW s \in SUBSET Parts, NEW w \in SUBSET Parts, NEW l, Free(l, A)
    PROVE  /\ Runs(Device, th, <<<<"lock", l>>>>, At(A, s, w), At(A \cup {l}, s, w))
           /\ Runs(Device, th, <<<<"unlock", l>>>>, At(A \cup {l}, s, w), At(A, s, w))
           /\ Runs(Device, th, Touch(l), At(A, s, w), At(A, s, w))
<1>1. l \in Locks /\ (A \cup {l}) \ {l} = A /\ A \cup {l} \in SUBSET Locks
  BY FreeIsNew
<1>2. At(A, s, w) \in Points /\ At(A \cup {l}, s, w) \in Points
  BY <1>1, AtFacts
<1>3. <<"lock", l>> \in Instructions /\ <<"unlock", l>> \in Instructions /\ <<"touch", l>> \in Instructions
  BY <1>1 DEF Instructions
<1> DEFINE a == At(A, s, w)
           b == At(A \cup {l}, s, w)
           take == <<"lock", l>>
           give == <<"unlock", l>>
           touch == <<"touch", l>>
<1>4. /\ a.held = A /\ b = At(a.held \cup {l}, a.sent, a.seen)
      /\ b.held = A \cup {l} /\ a = At(b.held \ {l}, b.sent, b.seen) /\ l \in b.held
  <2>1. a.held = A /\ a.sent = s /\ a.seen = w
    BY AtFacts
  <2>2. b.held = A \cup {l} /\ b.sent = s /\ b.seen = w
    BY AtFacts
  <2>3. b.held \ {l} = A
    BY <1>1, <2>2
  <2> QED
    BY <2>1, <2>2, <2>3
<1>5. /\ take[1] = "lock" /\ take[2] = l /\ give[1] = "unlock" /\ give[2] = l
      /\ touch[1] = "touch" /\ touch[2] = l
  OBVIOUS
<1> HIDE DEF a, b, take, give, touch
<1>6. Allowed(Device, th, take, a, b) /\ Allowed(Device, th, touch, a, a)
  BY <1>4, <1>5 DEF Allowed
<1>7. Allowed(Device, th, give, b, a)
  BY <1>4, <1>5 DEF Allowed
<1>8. Runs(Device, th, <<take>>, a, b) /\ Runs(Device, th, <<touch>>, a, a) /\ Runs(Device, th, <<give>>, b, a)
  BY <1>2, <1>3, <1>6, <1>7, RunsOne DEF a, b, take, give, touch
<1> QED
  BY <1>8 DEF Touch, a, b, take, give, touch

\* What is done under a lock.
LEMMA LockedRuns ==
    ASSUME NEW th, NEW A \in SUBSET Locks, NEW s \in SUBSET Parts, NEW w \in SUBSET Parts,
           NEW s2 \in SUBSET Parts, NEW w2 \in SUBSET Parts, NEW l, Free(l, A), NEW body,
           Runs(Device, th, body, At(A \cup {l}, s, w), At(A \cup {l}, s2, w2))
    PROVE  Runs(Device, th, Locked(l, body), At(A, s, w), At(A, s2, w2))
<1>1. /\ Runs(Device, th, <<<<"lock", l>>>>, At(A, s, w), At(A \cup {l}, s, w))
      /\ Runs(Device, th, <<<<"unlock", l>>>>, At(A \cup {l}, s2, w2), At(A, s2, w2))
  BY LockRuns
<1>2. Runs(Device, th, <<<<"lock", l>>>> \o body, At(A, s, w), At(A \cup {l}, s2, w2))
  BY <1>1, RunsJoin
<1> QED
  BY <1>1, <1>2, RunsJoin DEF Locked

\* What holds no lock that comes after the pools.
BeforePools(A) == A \in SUBSET Locks /\ \A k \in A : RankOf(k) < 3

LEMMA PoolIsFree ==
    ASSUME DeviceInv, NEW A, BeforePools(A), NEW t \in Types
    PROVE  Free(PoolLock(t), A) /\ A \in SUBSET Locks /\ PoolLock(t) \in Locks
BY LockFacts DEF Free, BeforePools

LEMMA QueueIsFree ==
    ASSUME DeviceInv, NEW A, BeforePools(A), NEW t \in Types
    PROVE  Free(QueueLock(t), A) /\ A \in SUBSET Locks /\ QueueLock(t) \in Locks
<1>1. \A k \in A : RankOf(k) \in 1 .. 5 /\ RankOf(k) < 3 /\ RankOf(k) < 5
  BY LockFacts DEF BeforePools
<1> QED
  BY <1>1, LockFacts DEF Free, BeforePools

LEMMA CommandsRun ==
    ASSUME DeviceInv, NEW th, NEW A, BeforePools(A), NEW s \in SUBSET Parts, NEW w \in SUBSET Parts, NEW t \in Types
    PROVE  Runs(Device, th, CommandBuffer(t), At(A, s, w), At(A, s, w))
<1> DEFINE l == PoolLock(t)
           e == <<"commands", t>>
<1>1. Free(l, A) /\ A \in SUBSET Locks /\ l \in Locks /\ A \cup {l} \in SUBSET Locks
  BY PoolIsFree
<1>2. (A \cup {l}) \ {l} = A
  BY <1>1, FreeIsNew
<1>3. Runs(Device, th, <<<<"lock", l>>>>, At(A, s, w), At(A \cup {l}, s, w))
  BY <1>1, LockRuns
<1>4. e \in Instructions /\ e[1] = "commands" /\ e[2] = t
  BY DEF Instructions
<1> HIDE DEF e
<1>5. Allowed(Device, th, e, At(A \cup {l}, s, w), At(A, s, w))
  <2> DEFINE a == At(A \cup {l}, s, w)
             b == At(A, s, w)
  <2>1. a.held = A \cup {l} /\ a.sent = s /\ a.seen = w
    BY AtFacts
  <2>2. a.held \ {PoolLock(e[2])} = A /\ PoolLock(e[2]) \in a.held
    BY <1>2, <1>4, <2>1
  <2>3. b = At(a.held \ {PoolLock(e[2])}, a.sent, a.seen)
    BY <2>1, <2>2
  <2> HIDE DEF a, b
  <2>4. Allowed(Device, th, e, a, b)
    BY <1>4, <2>2, <2>3, DeviceLocks DEF Allowed
  <2> QED
    BY <2>4 DEF a, b
<1>6. Runs(Device, th, <<e>>, At(A \cup {l}, s, w), At(A, s, w))
  BY <1>1, <1>4, <1>5, AtFacts, RunsOne
<1>7. Runs(Device, th, <<<<"lock", l>>>> \o <<e>>, At(A, s, w), At(A, s, w))
  BY <1>3, <1>6, RunsJoin
<1>8. CommandBuffer(t) = <<<<"lock", l>>>> \o <<e>>
  BY DEF CommandBuffer, e
<1> QED
  BY <1>7, <1>8

LEMMA RecordRuns ==
    ASSUME DeviceInv, NEW th, NEW A, BeforePools(A), NEW s \in SUBSET Parts, NEW w \in SUBSET Parts, NEW t \in Types,
           NEW body, Runs(Device, th, body, At(A \cup {PoolLock(t)}, s, w), At(A \cup {PoolLock(t)}, s, w))
    PROVE  Runs(Device, th, Record(t, body), At(A, s, w), At(A, s, w))
<1> DEFINE l == PoolLock(t)
           e == <<"begin", t>>
<1>1. Free(l, A) /\ A \in SUBSET Locks /\ l \in Locks /\ A \cup {l} \in SUBSET Locks
  BY PoolIsFree
<1>2. e \in Instructions /\ e[1] = "begin" /\ e[2] = t
  BY DEF Instructions
<1> HIDE DEF e
<1>3. Allowed(Device, th, e, At(A \cup {l}, s, w), At(A \cup {l}, s, w))
  BY <1>2, AtFacts, DeviceLocks DEF Allowed
<1>4. Runs(Device, th, <<e>>, At(A \cup {l}, s, w), At(A \cup {l}, s, w))
  BY <1>1, <1>2, <1>3, AtFacts, RunsOne
<1>5. Runs(Device, th, <<e>> \o body, At(A \cup {l}, s, w), At(A \cup {l}, s, w))
  BY <1>4, RunsJoin
<1>6. Runs(Device, th, Locked(l, <<e>> \o body), At(A, s, w), At(A, s, w))
  BY <1>1, <1>5, LockedRuns
<1> QED
  BY <1>6 DEF Record, e
\* A submission to a queue, under its lock.
LEMMA SubmitRuns ==
    ASSUME DeviceInv, NEW th, NEW A, BeforePools(A), NEW s \in SUBSET Parts, NEW w \in SUBSET Parts,
           NEW t \in {"Graphic", "Transfer"}, NEW work \in Works, work[2] = th, work[1] \notin s
    PROVE  Runs(Device, th, Submit(t, work), At(A, s, w), At(A, s \cup ({work[1]} \cap Parts), w))
<1> DEFINE l == QueueLock(t)
           e == <<"submit", t, work>>
           a == At(A \cup {l}, s, w)
           b == At(A, s \cup ({work[1]} \cap Parts), w)
<1>1. t \in Types
  BY DEF Types
<1>2. Free(l, A) /\ A \in SUBSET Locks /\ l \in Locks /\ A \cup {l} \in SUBSET Locks
  BY <1>1, QueueIsFree
<1>3. (A \cup {l}) \ {l} = A
  BY <1>2, FreeIsNew
<1>4. Runs(Device, th, <<<<"lock", l>>>>, At(A, s, w), a)
  BY <1>2, LockRuns
<1>5. e \in Instructions /\ e[1] = "submit" /\ e[2] = t /\ e[3] = work
  BY <1>1 DEF Instructions
<1>6. a.held = A \cup {l} /\ a.sent = s /\ a.seen = w /\ a \in Points /\ b \in Points
  <2>1. s \cup ({work[1]} \cap Parts) \in SUBSET Parts
    OBVIOUS
  <2> QED
    BY <1>2, <2>1, AtFacts
<1>7. a.held \ {QueueLock(t)} = A /\ QueueLock(t) \in a.held
  BY <1>3, <1>6
<1>8. b = At(a.held \ {QueueLock(t)}, a.sent \cup ({work[1]} \cap Parts), a.seen)
  BY <1>6, <1>7
<1> HIDE DEF a, b, e
<1>9. Allowed(Device, th, e, a, b)
  BY <1>5, <1>6, <1>7, <1>8, DeviceLocks DEF Allowed
<1>10. Runs(Device, th, <<e>>, a, b)
  BY <1>5, <1>6, <1>9, RunsOne
<1>11. Runs(Device, th, <<<<"lock", l>>>> \o <<e>>, At(A, s, w), b)
  BY <1>4, <1>10, RunsJoin
<1>12. Submit(t, work) = <<<<"lock", l>>>> \o <<e>>
  BY DEF Submit, e
<1> QED
  BY <1>11, <1>12 DEF b

LEMMA PresentRuns ==
    ASSUME DeviceInv, NEW th, NEW A, BeforePools(A), NEW s \in SUBSET Parts, NEW w \in SUBSET Parts
    PROVE  Runs(Device, th, Present, At(A, s, w), At(A, s, w))
<1> DEFINE l == QueueLock("Present")
           e == <<"present", "Present">>
           a == At(A \cup {l}, s, w)
           b == At(A, s, w)
<1>1. "Present" \in Types
  BY DEF Types
<1>2. Free(l, A) /\ A \in SUBSET Locks /\ l \in Locks /\ A \cup {l} \in SUBSET Locks
  BY <1>1, QueueIsFree
<1>3. (A \cup {l}) \ {l} = A
  BY <1>2, FreeIsNew
<1>4. Runs(Device, th, <<<<"lock", l>>>>, At(A, s, w), a)
  BY <1>2, LockRuns
<1>5. e \in Instructions /\ e[1] = "present" /\ e[2] = "Present"
  BY <1>1 DEF Instructions
<1>6. a.held = A \cup {l} /\ a.sent = s /\ a.seen = w /\ a \in Points /\ b \in Points
  BY <1>2, AtFacts
<1>7. a.held \ {l} = A /\ l \in a.held
  BY <1>3, <1>6
<1>8. b = At(a.held \ {l}, a.sent, a.seen)
  BY <1>6, <1>7
<1> HIDE DEF a, b, e
<1>9. Allowed(Device, th, e, a, b)
  BY <1>5, <1>7, <1>8, DeviceLocks DEF Allowed
<1>10. Runs(Device, th, <<e>>, a, b)
  BY <1>5, <1>6, <1>9, RunsOne
<1>11. Runs(Device, th, <<<<"lock", l>>>> \o <<e>>, At(A, s, w), b)
  BY <1>4, <1>10, RunsJoin
<1>12. Present = <<<<"lock", l>>>> \o <<e>>
  BY DEF Present, e
<1> QED
  BY <1>11, <1>12 DEF b

LEMMA WaitRuns ==
    ASSUME NEW th, NEW A \in SUBSET Locks, NEW s \in SUBSET Parts, NEW w \in SUBSET Parts,
           NEW work \in Works, work[2] = th, {work[1]} \cap Parts \subseteq s
    PROVE  Runs(Device, th, Wait(work), At(A, s, w), At(A, s, w \cup ({work[1]} \cap Parts)))
<1> DEFINE e == <<"wait", work>>
           a == At(A, s, w)
           b == At(A, s, w \cup ({work[1]} \cap Parts))
<1>1. e \in Instructions /\ e[1] = "wait" /\ e[2] = work
  BY DEF Instructions
<1>2. a.held = A /\ a.sent = s /\ a.seen = w /\ a \in Points /\ b \in Points
  <2>1. w \cup ({work[1]} \cap Parts) \in SUBSET Parts
    OBVIOUS
  <2> QED
    BY <2>1, AtFacts
<1>3. b = At(a.held, a.sent, a.seen \cup ({work[1]} \cap Parts))
  BY <1>2
<1> HIDE DEF a, b, e
<1>4. Allowed(Device, th, e, a, b)
  BY <1>1, <1>2, <1>3 DEF Allowed
<1>5. Runs(Device, th, <<e>>, a, b)
  BY <1>1, <1>2, <1>4, RunsOne
<1> QED
  BY <1>5 DEF a, b, e, Wait

LEMMA RecycleRuns ==
    ASSUME NEW th, NEW A \in SUBSET Locks, NEW s \in SUBSET Parts, NEW w \in SUBSET Parts,
           NEW t \in {"Graphic", "Transfer"}, NEW work \in Works
    PROVE  Runs(Device, th, Recycle(t, work), At(A, s, w), At(A, s, w))
<1> DEFINE e == <<"recycle", t, work>>
           a == At(A, s, w)
<1>1. e \in Instructions /\ e[1] = "recycle" /\ e[2] = t /\ e[3] = work
  BY DEF Instructions, Types
<1>2. a \in Points
  BY AtFacts
<1> HIDE DEF a, e
<1>3. Allowed(Device, th, e, a, a)
  BY <1>1 DEF Allowed
<1>4. Runs(Device, th, <<e>>, a, a)
  BY <1>1, <1>2, <1>3, RunsOne
<1> QED
  BY <1>4 DEF a, e, Recycle

LEMMA HostCopyRuns ==
    ASSUME NEW th, NEW A \in SUBSET Locks
    PROVE  Runs(Device, th, <<<<"hostCopy">>>>, At(A, {}, {}), At(A, {"copy"}, {"copy"}))
<1> DEFINE e == <<"hostCopy">>
           a == At(A, {}, {})
           b == At(A, {"copy"}, {"copy"})
<1>1. e \in Instructions /\ e[1] = "hostCopy"
  BY DEF Instructions
<1>2. a.held = A /\ a.sent = {} /\ a.seen = {} /\ a \in Points /\ b \in Points
  <2>1. {} \in SUBSET Parts /\ {"copy"} \in SUBSET Parts
    BY DEF Parts
  <2> QED
    BY <2>1, AtFacts
<1>3. b = At(a.held, {"copy"}, {"copy"})
  BY <1>2
<1> HIDE DEF a, b, e
<1>4. Allowed(Device, th, e, a, b)
  BY <1>1, <1>2, <1>3 DEF Allowed
<1>5. Runs(Device, th, <<e>>, a, b)
  BY <1>1, <1>2, <1>4, RunsOne
<1> QED
  BY <1>5 DEF a, b, e

\* The parts of an upload, when all of it was submitted.
Uploads == {{"copy"}, {"release", "acquire"}}

LEMMA SetTextureRuns ==
    ASSUME NEW th \in Threads, NEW A \in SUBSET Locks, NEW u \in Uploads
    PROVE  Runs(Device, th, <<<<"setTexture", th>>>>, At(A, u, u), At(A, {}, {}))
<1> DEFINE e == <<"setTexture", th>>
           a == At(A, u, u)
           b == At(A, {}, {})
<1>1. e \in Instructions /\ e[1] = "setTexture" /\ e[2] = th
  BY DEF Instructions
<1>2. a.held = A /\ a.sent = u /\ a.seen = u /\ a \in Points /\ b \in Points
  <2>1. {} \in SUBSET Parts /\ u \in SUBSET Parts
    BY DEF Parts, Uploads
  <2> QED
    BY <2>1, AtFacts
<1>3. b = At(a.held, {}, {})
  BY <1>2
<1> HIDE DEF a, b, e
<1>4. Allowed(Device, th, e, a, b)
  BY <1>1, <1>2, <1>3 DEF Allowed, Uploads
<1>5. Runs(Device, th, <<e>>, a, b)
  BY <1>1, <1>2, <1>4, RunsOne
<1> QED
  BY <1>5 DEF a, b, e
-----------------------------------------------------------------------------
(* The programs.                                                           *)

\* Commands are allocated, recorded and submitted on a queue.
LEMMA WorkRuns ==
    ASSUME DeviceInv, NEW th, NEW A, BeforePools(A), NEW s \in SUBSET Parts, NEW w \in SUBSET Parts,
           NEW t \in {"Graphic", "Transfer"}, NEW work \in Works, work[2] = th, work[1] \notin s
    PROVE  Runs(Device, th, CommandBuffer(t) \o Record(t, <<>>) \o Submit(t, work),
                At(A, s, w), At(A, s \cup ({work[1]} \cap Parts), w))
<1>1. t \in Types /\ A \in SUBSET Locks
  BY DEF Types, BeforePools
<1>2. Runs(Device, th, CommandBuffer(t), At(A, s, w), At(A, s, w))
  BY <1>1, CommandsRun
<1>3. Runs(Device, th, Record(t, <<>>), At(A, s, w), At(A, s, w))
  <2>1. PoolLock(t) \in Locks /\ A \cup {PoolLock(t)} \in SUBSET Locks
    BY <1>1, LockFacts
  <2>2. Runs(Device, th, <<>>, At(A \cup {PoolLock(t)}, s, w), At(A \cup {PoolLock(t)}, s, w))
    BY <2>1, AtFacts, RunsNone
  <2> QED
    BY <1>1, <2>2, RecordRuns
<1>4. Runs(Device, th, Submit(t, work), At(A, s, w), At(A, s \cup ({work[1]} \cap Parts), w))
  BY SubmitRuns
<1>5. Runs(Device, th, CommandBuffer(t) \o Record(t, <<>>), At(A, s, w), At(A, s, w))
  BY <1>2, <1>3, RunsJoin
<1> QED
  BY <1>4, <1>5, RunsJoin

LEMMA NothingBeforePools == BeforePools({}) /\ {} \in SUBSET Locks /\ {} \in SUBSET Parts
BY DEF BeforePools

LEMMA UploadRuns ==
    ASSUME DeviceInv, NEW th \in Threads
    PROVE  \E u \in Uploads : Runs(Device, th, Upload(th), Rest, At({}, u, u))
<1>1. BeforePools({}) /\ {} \in SUBSET Locks /\ {} \in SUBSET Parts
  BY NothingBeforePools
<1>2. CASE m_hostImageCopy
  <2>1. Upload(th) = <<<<"hostCopy">>>>
    BY <1>2 DEF Upload
  <2>2. Runs(Device, th, <<<<"hostCopy">>>>, At({}, {}, {}), At({}, {"copy"}, {"copy"}))
    BY <1>1, HostCopyRuns
  <2> QED
    BY <2>1, <2>2 DEF Uploads, Rest
<1>3. CASE ~m_hostImageCopy /\ SharesTransfer
  <2> DEFINE copy == <<"copy", th>>
             work == CommandBuffer("Transfer") \o Record("Transfer", <<>>) \o Submit("Transfer", copy)
  <2>1. copy \in Works /\ copy[1] = "copy" /\ copy[2] = th
    BY DEF Works, Parts
  <2>2. Upload(th) = (work \o Recycle("Transfer", copy)) \o Wait(copy)
    BY <1>3 DEF Upload
  <2>3. {} \cup ({copy[1]} \cap Parts) = {"copy"} /\ {"copy"} \in SUBSET Parts /\ {copy[1]} \cap Parts \subseteq {"copy"}
    BY DEF Parts
  <2> HIDE DEF copy
  <2>4. Runs(Device, th, work, At({}, {}, {}), At({}, {"copy"}, {}))
    <3>1. Runs(Device, th, work, At({}, {}, {}), At({}, {} \cup ({copy[1]} \cap Parts), {}))
      BY <1>1, <2>1, WorkRuns
    <3> QED
      BY <2>3, <3>1
  <2> HIDE DEF work
  <2>5. Runs(Device, th, Recycle("Transfer", copy), At({}, {"copy"}, {}), At({}, {"copy"}, {}))
    BY <1>1, <2>1, <2>3, RecycleRuns
  <2>6. Runs(Device, th, Wait(copy), At({}, {"copy"}, {}), At({}, {"copy"}, {"copy"}))
    <3>1. Runs(Device, th, Wait(copy), At({}, {"copy"}, {}), At({}, {"copy"}, {} \cup ({copy[1]} \cap Parts)))
      BY <1>1, <2>1, <2>3, WaitRuns
    <3> QED
      BY <2>3, <3>1
  <2>7. Runs(Device, th, work \o Recycle("Transfer", copy), At({}, {}, {}), At({}, {"copy"}, {}))
    BY <2>4, <2>5, RunsJoin
  <2>8. Runs(Device, th, Upload(th), At({}, {}, {}), At({}, {"copy"}, {"copy"}))
    BY <2>2, <2>6, <2>7, RunsJoin
  <2> QED
    BY <2>8 DEF Uploads, Rest
<1>4. CASE ~m_hostImageCopy /\ ~SharesTransfer
  <2> DEFINE release == <<"release", th>>
             acquire == <<"acquire", th>>
             transfer == CommandBuffer("Transfer") \o Record("Transfer", <<>>) \o Submit("Transfer", release)
             graphic == CommandBuffer("Graphic") \o Record("Graphic", <<>>) \o Submit("Graphic", acquire)
             both == {"release", "acquire"}
  <2>1. /\ release \in Works /\ release[1] = "release" /\ release[2] = th
        /\ acquire \in Works /\ acquire[1] = "acquire" /\ acquire[2] = th
    BY DEF Works, Parts
  <2>2. Upload(th) = (((transfer \o Recycle("Transfer", release)) \o (graphic \o Recycle("Graphic", acquire)))
                        \o Wait(release)) \o Wait(acquire)
    BY <1>4 DEF Upload
  <2>3. /\ {} \cup ({release[1]} \cap Parts) = {"release"} /\ {"release"} \in SUBSET Parts
        /\ {"release"} \cup ({acquire[1]} \cap Parts) = both /\ both \in SUBSET Parts
        /\ {release[1]} \cap Parts \subseteq both /\ {acquire[1]} \cap Parts \subseteq both
        /\ acquire[1] \notin {"release"}
    BY DEF Parts
  <2> HIDE DEF release, acquire, both
  <2>4. Runs(Device, th, transfer, At({}, {}, {}), At({}, {"release"}, {}))
    <3>1. Runs(Device, th, transfer, At({}, {}, {}), At({}, {} \cup ({release[1]} \cap Parts), {}))
      BY <1>1, <2>1, WorkRuns
    <3> QED
      BY <2>3, <3>1
  <2>5. Runs(Device, th, graphic, At({}, {"release"}, {}), At({}, both, {}))
    <3>1. Runs(Device, th, graphic, At({}, {"release"}, {}), At({}, {"release"} \cup ({acquire[1]} \cap Parts), {}))
      BY <1>1, <2>1, <2>3, WorkRuns
    <3> QED
      BY <2>3, <3>1
  <2> HIDE DEF transfer, graphic
  <2>6. Runs(Device, th, Recycle("Transfer", release), At({}, {"release"}, {}), At({}, {"release"}, {}))
    BY <1>1, <2>1, <2>3, RecycleRuns
  <2>7. Runs(Device, th, Recycle("Graphic", acquire), At({}, both, {}), At({}, both, {}))
    BY <1>1, <2>1, <2>3, RecycleRuns
  <2>8. Runs(Device, th, Wait(release), At({}, both, {}), At({}, both, {"release"}))
    <3>1. Runs(Device, th, Wait(release), At({}, both, {}), At({}, both, {} \cup ({release[1]} \cap Parts)))
      BY <1>1, <2>1, <2>3, WaitRuns
    <3> QED
      BY <2>3, <3>1
  <2>9. Runs(Device, th, Wait(acquire), At({}, both, {"release"}), At({}, both, both))
    <3>1. Runs(Device, th, Wait(acquire), At({}, both, {"release"}), At({}, both, {"release"} \cup ({acquire[1]} \cap Parts)))
      BY <1>1, <2>1, <2>3, WaitRuns
    <3> QED
      BY <2>3, <3>1
  <2>10. Runs(Device, th, transfer \o Recycle("Transfer", release), At({}, {}, {}), At({}, {"release"}, {}))
    BY <2>4, <2>6, RunsJoin
  <2>11. Runs(Device, th, graphic \o Recycle("Graphic", acquire), At({}, {"release"}, {}), At({}, both, {}))
    BY <2>5, <2>7, RunsJoin
  <2>12. Runs(Device, th, (transfer \o Recycle("Transfer", release)) \o (graphic \o Recycle("Graphic", acquire)),
              At({}, {}, {}), At({}, both, {}))
    BY <2>10, <2>11, RunsJoin
  <2>13. Runs(Device, th, ((transfer \o Recycle("Transfer", release)) \o (graphic \o Recycle("Graphic", acquire)))
                    \o Wait(release), At({}, {}, {}), At({}, both, {"release"}))
    BY <2>8, <2>12, RunsJoin
  <2>14. Runs(Device, th, Upload(th), At({}, {}, {}), At({}, both, both))
    BY <2>2, <2>9, <2>13, RunsJoin
  <2> QED
    BY <2>14 DEF Uploads, Rest, both
<1> QED
  BY <1>2, <1>3, <1>4

\* What holds locks of ranks below that of another may take it.
LEMMA Nested ==
    /\ \A l \in Locks : Free(l, {})
    /\ \A l, k \in Locks : RankOf(k) < RankOf(l) => Free(l, {k})
    /\ \A l, k, j \in Locks : RankOf(k) < RankOf(l) /\ RankOf(j) < RankOf(l) => Free(l, {k, j})
    /\ \A l, k, j, i \in Locks :
          RankOf(k) < RankOf(l) /\ RankOf(j) < RankOf(l) /\ RankOf(i) < RankOf(l) => Free(l, {k, j, i})
BY DEF Free

LEMMA SetBitmapRuns ==
    ASSUME DeviceInv, NEW th \in Threads
    PROVE  Runs(Device, th, SetBitmap(th), Rest, Rest)
<1>1. PICK u \in Uploads : Runs(Device, th, Upload(th), Rest, At({}, u, u))
  BY UploadRuns
<1> DEFINE view == <<"view">>
           body == Touch(<<"garbage">>) \o <<<<"setTexture", th>>>>
<1>2. u \in SUBSET Parts /\ {} \in SUBSET Parts /\ {view} \in SUBSET Locks /\ {} \in SUBSET Locks /\ {} \cup {view} = {view}
  BY LockFacts DEF Uploads, Parts
<1>3. Free(view, {}) /\ Free(<<"garbage">>, {view})
  <2>1. RankOf(view) < RankOf(<<"garbage">>) /\ view \in Locks /\ <<"garbage">> \in Locks
    BY LockFacts
  <2> QED
    BY <2>1, Nested
<1>4. Runs(Device, th, Touch(<<"garbage">>), At({view}, u, u), At({view}, u, u))
  BY <1>2, <1>3, LockRuns
<1>5. Runs(Device, th, <<<<"setTexture", th>>>>, At({view}, u, u), At({view}, {}, {}))
  BY <1>2, SetTextureRuns
<1>6. Runs(Device, th, body, At({view}, u, u), At({view}, {}, {}))
  BY <1>4, <1>5, RunsJoin
<1>7. Runs(Device, th, Locked(view, body), At({}, u, u), At({}, {}, {}))
  BY <1>2, <1>3, <1>6, LockedRuns
<1> QED
  BY <1>1, <1>7, RunsJoin DEF SetBitmap, Rest
\* A lock that is taken for a moment when no other is held.
LEMMA TouchRuns ==
    ASSUME NEW th, NEW l \in Locks
    PROVE  Runs(Device, th, Touch(l), Rest, Rest)
BY NothingBeforePools, Nested, LockRuns DEF Rest

LEMMA RenderRuns ==
    ASSUME DeviceInv
    PROVE  Runs(Device, "main", Render, Rest, Rest)
<1> DEFINE frame == <<"frame", "main">>
           view == <<"view">>
           viewport == <<"viewport">>
           selection == <<"selection">>
           pool == PoolLock("Graphic")
           drawing == Locked(viewport, Touch(selection))
           framed == drawing \o Wait(frame) \o Record("Graphic", drawing) \o Submit("Graphic", frame) \o Present
<1>1. frame \in Works /\ frame[1] = "frame" /\ frame[2] = "main"
  BY DEF Works, Threads
<1>2. {frame[1]} \cap Parts = {} /\ frame[1] \notin {} /\ {} \in SUBSET Parts /\ "Graphic" \in Types
  BY <1>1 DEF Parts, Types
<1>3. /\ view \in Locks /\ viewport \in Locks /\ selection \in Locks /\ pool \in Locks /\ <<"window">> \in Locks
      /\ RankOf(view) = 1 /\ RankOf(viewport) = 4 /\ RankOf(selection) = 5 /\ RankOf(pool) = 3
  BY <1>2, LockFacts
<1>4. /\ {view} \in SUBSET Locks /\ {view, pool} \in SUBSET Locks /\ {view, viewport} \in SUBSET Locks
      /\ {view, pool, viewport} \in SUBSET Locks /\ {} \in SUBSET Locks
      /\ {} \cup {view} = {view} /\ {view} \cup {pool} = {view, pool} /\ {view} \cup {viewport} = {view, viewport}
      /\ {view, pool} \cup {viewport} = {view, pool, viewport}
  BY <1>3
<1>5. BeforePools({view})
  BY <1>3 DEF BeforePools
<1>6. /\ Free(view, {}) /\ Free(viewport, {view}) /\ Free(viewport, {view, pool})
      /\ Free(selection, {view, viewport}) /\ Free(selection, {view, pool, viewport})
  <2>1. /\ RankOf(view) < RankOf(viewport) /\ RankOf(pool) < RankOf(viewport)
        /\ RankOf(view) < RankOf(selection) /\ RankOf(pool) < RankOf(selection) /\ RankOf(viewport) < RankOf(selection)
    BY <1>3
  <2> QED
    BY <1>3, <2>1, Nested
<1> HIDE DEF frame, view, viewport, selection, pool
<1>7. Runs(Device, "main", drawing, At({view}, {}, {}), At({view}, {}, {}))
  <2>1. Runs(Device, "main", Touch(selection), At({view, viewport}, {}, {}), At({view, viewport}, {}, {}))
    BY <1>2, <1>4, <1>6, LockRuns
  <2> QED
    BY <1>2, <1>4, <1>6, <2>1, LockedRuns
<1>8. Runs(Device, "main", drawing, At({view, pool}, {}, {}), At({view, pool}, {}, {}))
  <2>1. Runs(Device, "main", Touch(selection), At({view, pool, viewport}, {}, {}), At({view, pool, viewport}, {}, {}))
    BY <1>2, <1>4, <1>6, LockRuns
  <2> QED
    BY <1>2, <1>4, <1>6, <2>1, LockedRuns
<1> HIDE DEF drawing
<1>9. Runs(Device, "main", Wait(frame), At({view}, {}, {}), At({view}, {}, {}))
  <2>1. {frame[1]} \cap Parts \subseteq {} /\ {} \cup ({frame[1]} \cap Parts) = {}
    BY <1>2
  <2>2. Runs(Device, "main", Wait(frame), At({view}, {}, {}), At({view}, {}, {} \cup ({frame[1]} \cap Parts)))
    BY <1>1, <1>2, <1>4, <2>1, WaitRuns
  <2> QED
    BY <2>1, <2>2
<1>10. Runs(Device, "main", Record("Graphic", drawing), At({view}, {}, {}), At({view}, {}, {}))
  BY <1>2, <1>4, <1>5, <1>8, RecordRuns DEF pool
<1>11. Runs(Device, "main", Submit("Graphic", frame), At({view}, {}, {}), At({view}, {}, {}))
  <2>1. {} \cup ({frame[1]} \cap Parts) = {}
    BY <1>2
  <2>2. Runs(Device, "main", Submit("Graphic", frame), At({view}, {}, {}), At({view}, {} \cup ({frame[1]} \cap Parts), {}))
    BY <1>1, <1>2, <1>5, SubmitRuns
  <2> QED
    BY <2>1, <2>2
<1>12. Runs(Device, "main", Present, At({view}, {}, {}), At({view}, {}, {}))
  BY <1>2, <1>5, PresentRuns
<1>13. Runs(Device, "main", drawing \o Wait(frame), At({view}, {}, {}), At({view}, {}, {}))
  BY <1>7, <1>9, RunsJoin
<1>14. Runs(Device, "main", drawing \o Wait(frame) \o Record("Graphic", drawing), At({view}, {}, {}), At({view}, {}, {}))
  BY <1>10, <1>13, RunsJoin
<1>15. Runs(Device, "main", drawing \o Wait(frame) \o Record("Graphic", drawing) \o Submit("Graphic", frame),
            At({view}, {}, {}), At({view}, {}, {}))
  BY <1>11, <1>14, RunsJoin
<1>16. Runs(Device, "main", framed, At({view}, {}, {}), At({view}, {}, {}))
  BY <1>12, <1>15, RunsJoin
<1> HIDE DEF framed
<1>17. Runs(Device, "main", Locked(view, framed), Rest, Rest)
  BY <1>2, <1>4, <1>6, <1>16, LockedRuns DEF Rest
<1>18. Runs(Device, "main", Touch(viewport) \o Touch(<<"window">>), Rest, Rest)
  BY <1>3, TouchRuns, RunsJoin
<1>19. Runs(Device, "main", Touch(viewport) \o Touch(<<"window">>) \o Locked(view, framed), Rest, Rest)
  BY <1>17, <1>18, RunsJoin
<1>20. Render = Touch(viewport) \o Touch(<<"window">>) \o Locked(view, framed)
  BY DEF Render, frame, view, viewport, selection, drawing, framed
<1> QED
  BY <1>19, <1>20

LEMMA LoadImageRuns == Runs(Device, "main", LoadImage, Rest, Rest)
<1> DEFINE viewport == <<"viewport">>
           provider == <<"provider">>
<1>1. viewport \in Locks /\ provider \in Locks /\ RankOf(viewport) < RankOf(provider)
  BY LockFacts
<1>2. {} \in SUBSET Locks /\ {viewport} \in SUBSET Locks /\ {} \cup {viewport} = {viewport} /\ {} \in SUBSET Parts
  BY <1>1
<1>3. Free(viewport, {}) /\ Free(provider, {viewport})
  BY <1>1, Nested
<1>4. Runs(Device, "main", Touch(provider), At({viewport}, {}, {}), At({viewport}, {}, {}))
  BY <1>2, <1>3, LockRuns
<1> QED
  BY <1>2, <1>3, <1>4, LockedRuns DEF LoadImage, Rest

LEMMA FitWindowRuns == Runs(Device, "main", FitWindow, Rest, Rest)
<1> DEFINE view == <<"view">>
           window == <<"window">>
           viewport == <<"viewport">>
<1>1. /\ view \in Locks /\ window \in Locks /\ viewport \in Locks
      /\ RankOf(view) < RankOf(window) /\ RankOf(view) < RankOf(viewport) /\ RankOf(window) < RankOf(viewport)
  BY LockFacts
<1>2. /\ {} \in SUBSET Locks /\ {view} \in SUBSET Locks /\ {view, window} \in SUBSET Locks /\ {} \in SUBSET Parts
      /\ {} \cup {view} = {view} /\ {view} \cup {window} = {view, window}
  BY <1>1
<1>3. Free(view, {}) /\ Free(window, {view}) /\ Free(viewport, {view, window})
  BY <1>1, Nested
<1> HIDE DEF view, window, viewport
<1>4. Runs(Device, "main", Touch(viewport), At({view, window}, {}, {}), At({view, window}, {}, {}))
  BY <1>2, <1>3, LockRuns
<1>5. Runs(Device, "main", Locked(window, Touch(viewport)), At({view}, {}, {}), At({view}, {}, {}))
  BY <1>2, <1>3, <1>4, LockedRuns
<1>6. Runs(Device, "main", Locked(view, Locked(window, Touch(viewport))), At({}, {}, {}), At({}, {}, {}))
  BY <1>2, <1>3, <1>5, LockedRuns
<1> QED
  BY <1>6 DEF FitWindow, Rest, view, window, viewport

LEMMA ReadbackRuns ==
    ASSUME DeviceInv, NEW th \in Threads
    PROVE  Runs(Device, th, Readback(th), Rest, Rest)
<1> DEFINE work == <<"readback", th>>
<1>1. BeforePools({}) /\ {} \in SUBSET Locks /\ {} \in SUBSET Parts /\ Rest \in Points
  BY NothingBeforePools, AtFacts DEF Rest
<1>2. CASE m_hostImageCopy
  BY <1>1, <1>2, RunsNone DEF Readback
<1>3. CASE ~m_hostImageCopy
  <2>1. Readback(th) = (CommandBuffer("Graphic") \o Record("Graphic", <<>>) \o Submit("Graphic", work))
                          \o Wait(work) \o CommandBuffer("Graphic")
    BY <1>3 DEF Readback
  <2>2. work \in Works /\ work[1] = "readback" /\ work[2] = th
    BY DEF Works
  <2>3. {work[1]} \cap Parts = {} /\ "Graphic" \in Types
    BY <2>2 DEF Parts, Types
  <2> HIDE DEF work
  <2>4. {work[1]} \cap Parts \subseteq {} /\ {} \cup ({work[1]} \cap Parts) = {} /\ work[1] \notin {}
    BY <2>3
  <2>5. Runs(Device, th, CommandBuffer("Graphic") \o Record("Graphic", <<>>) \o Submit("Graphic", work), Rest, Rest)
    <3>1. Runs(Device, th, CommandBuffer("Graphic") \o Record("Graphic", <<>>) \o Submit("Graphic", work),
               At({}, {}, {}), At({}, {} \cup ({work[1]} \cap Parts), {}))
      BY <1>1, <2>2, <2>4, WorkRuns
    <3> QED
      BY <2>4, <3>1 DEF Rest
  <2>6. Runs(Device, th, Wait(work), Rest, Rest)
    <3>1. Runs(Device, th, Wait(work), At({}, {}, {}), At({}, {}, {} \cup ({work[1]} \cap Parts)))
      BY <1>1, <2>2, <2>4, WaitRuns
    <3> QED
      BY <2>4, <3>1 DEF Rest
  <2>7. Runs(Device, th, CommandBuffer("Graphic"), Rest, Rest)
    BY <1>1, <2>3, CommandsRun DEF Rest
  <2>8. Runs(Device, th, (CommandBuffer("Graphic") \o Record("Graphic", <<>>) \o Submit("Graphic", work)) \o Wait(work), Rest, Rest)
    BY <2>5, <2>6, RunsJoin
  <2> QED
    BY <2>1, <2>7, <2>8, RunsJoin
<1> QED
  BY <1>2, <1>3

LEMMA CutSelectionRuns ==
    ASSUME DeviceInv
    PROVE  Runs(Device, "main", CutSelection, Rest, Rest)
<1> DEFINE view == <<"view">>
           selection == <<"selection">>
           locked == Locked(view, Touch(selection))
<1>1. view \in Locks /\ selection \in Locks /\ RankOf(view) < RankOf(selection) /\ <<"viewport">> \in Locks /\ "main" \in Threads
  BY LockFacts DEF Threads
<1>2. {} \in SUBSET Locks /\ {view} \in SUBSET Locks /\ {} \cup {view} = {view} /\ {} \in SUBSET Parts
  BY <1>1
<1>3. Free(view, {}) /\ Free(selection, {view})
  BY <1>1, Nested
<1>4. Runs(Device, "main", Touch(selection), At({view}, {}, {}), At({view}, {}, {}))
  BY <1>2, <1>3, LockRuns
<1>5. Runs(Device, "main", locked, Rest, Rest)
  BY <1>2, <1>3, <1>4, LockedRuns DEF Rest
<1> HIDE DEF locked
<1>6. Runs(Device, "main", Touch(view) \o locked, Rest, Rest)
  BY <1>1, <1>5, TouchRuns, RunsJoin
<1>7. Runs(Device, "main", Touch(view) \o locked \o Readback("main"), Rest, Rest)
  BY <1>1, <1>6, ReadbackRuns, RunsJoin
<1>8. Runs(Device, "main", Touch(view) \o locked \o Readback("main") \o SetBitmap("main"), Rest, Rest)
  BY <1>1, <1>7, SetBitmapRuns, RunsJoin
<1>9. Runs(Device, "main", Touch(view) \o locked \o Readback("main") \o SetBitmap("main") \o Touch(<<"viewport">>), Rest, Rest)
  BY <1>1, <1>8, TouchRuns, RunsJoin
<1> QED
  BY <1>9 DEF CutSelection, locked

LEMMA ImageHandlerRuns ==
    ASSUME DeviceInv
    PROVE  Runs(Device, "provider", ImageHandler, Rest, Rest)
<1>1. <<"provider">> \in Locks /\ <<"selection">> \in Locks /\ <<"viewport">> \in Locks /\ "provider" \in Threads
  BY LockFacts DEF Threads
<1>2. Runs(Device, "provider", Touch(<<"provider">>) \o Touch(<<"selection">>), Rest, Rest)
  BY <1>1, TouchRuns, RunsJoin
<1>3. Runs(Device, "provider", Touch(<<"provider">>) \o Touch(<<"selection">>) \o SetBitmap("provider"), Rest, Rest)
  BY <1>1, <1>2, SetBitmapRuns, RunsJoin
<1>4. Runs(Device, "provider", Touch(<<"provider">>) \o Touch(<<"selection">>) \o SetBitmap("provider") \o Touch(<<"viewport">>),
           Rest, Rest)
  BY <1>1, <1>3, TouchRuns, RunsJoin
<1> QED
  BY <1>4 DEF ImageHandler

LEMMA ReapRuns == \A th : Runs(Device, th, Reap, Rest, Rest)
<1> TAKE th
<1> DEFINE e == <<"reap">>
<1>1. e \in Instructions /\ e[1] = "reap"
  BY DEF Instructions
<1>2. Rest \in Points
  BY NothingBeforePools, AtFacts DEF Rest
<1> HIDE DEF e
<1>3. Allowed(Device, th, e, Rest, Rest)
  BY <1>1 DEF Allowed
<1>4. Runs(Device, th, <<e>>, Rest, Rest)
  BY <1>1, <1>2, <1>3, RunsOne
<1> QED
  BY <1>4 DEF e, Reap

\* Whatever a thread begins, it begins and ends at rest.
LEMMA HandlersRun ==
    ASSUME DeviceInv, NEW th \in Threads, NEW p \in Handlers(th)
    PROVE  Runs(Device, th, p, Rest, Rest)
<1>1. CASE th = "main"
  BY <1>1, RenderRuns, LoadImageRuns, FitWindowRuns, CutSelectionRuns DEF Handlers
<1>2. CASE th = "provider"
  BY <1>2, ImageHandlerRuns DEF Handlers
<1>3. CASE th = "reaper"
  BY <1>3, ReapRuns DEF Handlers
<1> QED
  BY <1>1, <1>2, <1>3 DEF Threads

\* What the reaper does with the command buffers it took out.
LEMMA FreeingRuns ==
    ASSUME DeviceInv, NEW th, NEW f \in Seq({"Graphic", "Transfer"} \X Works)
    PROVE  Runs(Device, th, [i \in 1 .. 2 * Len(f) |-> CommandBuffer(f[(i + 1) \div 2][1])[2 - (i % 2)]], Rest, Rest)
<1> DEFINE n == Len(f)
           t(k) == f[k][1]
           p == [i \in 1 .. 2 * n |-> CommandBuffer(t((i + 1) \div 2))[2 - (i % 2)]]
           holding(k) == At({PoolLock(t(k))}, {}, {})
           h == [i \in 1 .. 2 * n + 1 |-> IF (i % 2) = 1 THEN Rest ELSE holding(i \div 2)]
<1>1. n \in Nat /\ 2 * n \in Nat
  OBVIOUS
<1>2. \A k \in 1 .. n : t(k) \in {"Graphic", "Transfer"} /\ t(k) \in Types
  BY DEF Types
<1>3. \A k \in 1 .. n : PoolLock(t(k)) \in Locks
  BY <1>2, LockFacts
<1>4. Rest \in Points /\ Rest.held = {} /\ Rest.sent = {} /\ Rest.seen = {}
  BY NothingBeforePools, AtFacts DEF Rest
<1>5. \A k \in 1 .. n : holding(k) \in Points /\ holding(k).held = {PoolLock(t(k))} /\ holding(k).sent = {} /\ holding(k).seen = {}
  BY <1>3, NothingBeforePools, AtFacts
<1> HIDE DEF n, t
<1>6. \A i \in 1 .. 2 * n :
         \/ /\ (i % 2) = 1 /\ ((i + 1) % 2) = 0 /\ (i + 1) \div 2 \in 1 .. n
            /\ p[i] = <<"lock", PoolLock(t((i + 1) \div 2))>>
            /\ h[i] = Rest /\ h[i + 1] = holding((i + 1) \div 2)
         \/ /\ (i % 2) = 0 /\ (i + 1) \div 2 = i \div 2 /\ i \div 2 \in 1 .. n
            /\ p[i] = <<"commands", t(i \div 2)>>
            /\ h[i] = holding(i \div 2) /\ h[i + 1] = Rest
  <2> SUFFICES ASSUME NEW i \in 1 .. 2 * n
               PROVE  \/ /\ (i % 2) = 1 /\ ((i + 1) % 2) = 0 /\ (i + 1) \div 2 \in 1 .. n
                         /\ p[i] = <<"lock", PoolLock(t((i + 1) \div 2))>>
                         /\ h[i] = Rest /\ h[i + 1] = holding((i + 1) \div 2)
                      \/ /\ (i % 2) = 0 /\ (i + 1) \div 2 = i \div 2 /\ i \div 2 \in 1 .. n
                         /\ p[i] = <<"commands", t(i \div 2)>>
                         /\ h[i] = holding(i \div 2) /\ h[i + 1] = Rest
    OBVIOUS
  <2>1. i \in 1 .. 2 * n + 1 /\ i + 1 \in 1 .. 2 * n + 1
    BY <1>1
  <2>2. CASE (i % 2) = 1
    <3>1. ((i + 1) % 2) = 0 /\ (i + 1) \div 2 \in 1 .. n /\ 2 - (i % 2) = 1
      BY <1>1, <2>2
    <3>2. CommandBuffer(t((i + 1) \div 2))[1] = <<"lock", PoolLock(t((i + 1) \div 2))>>
      BY DEF CommandBuffer
    <3>3. h[i] = Rest /\ h[i + 1] = holding((i + 1) \div 2)
      BY <2>1, <2>2, <3>1
    <3> QED
      BY <2>2, <3>1, <3>2, <3>3
  <2>3. CASE (i % 2) = 0
    <3>1. ((i + 1) % 2) = 1 /\ (i + 1) \div 2 = i \div 2 /\ i \div 2 \in 1 .. n /\ 2 - (i % 2) = 2
      BY <1>1, <2>3
    <3>2. CommandBuffer(t(i \div 2))[2] = <<"commands", t(i \div 2)>>
      BY DEF CommandBuffer
    <3>3. h[i] = holding(i \div 2) /\ h[i + 1] = Rest
      BY <2>1, <2>3, <3>1
    <3> QED
      BY <2>3, <3>1, <3>2, <3>3
  <2>4. (i % 2) \in {0, 1}
    OBVIOUS
  <2> QED
    BY <2>2, <2>3, <2>4
<1>7. p \in Seq(Instructions) /\ Len(p) = 2 * n
  <2>1. \A i \in 1 .. 2 * n : p[i] \in Instructions
    <3> SUFFICES ASSUME NEW i \in 1 .. 2 * n
                 PROVE  p[i] \in Instructions
      OBVIOUS
    <3>1. \A k \in 1 .. n : <<"lock", PoolLock(t(k))>> \in Instructions /\ <<"commands", t(k)>> \in Instructions
      BY <1>2, <1>3 DEF Instructions
    <3> HIDE DEF p, h, holding
    <3> QED
      BY <1>6, <3>1
  <2>2. p \in [1 .. 2 * n -> Instructions]
    BY <2>1
  <2> HIDE DEF p
  <2> QED
    BY <1>1, <2>2
<1>8. h \in [1 .. 2 * n + 1 -> Points]
  <2> SUFFICES ASSUME NEW i \in 1 .. 2 * n + 1
               PROVE  (IF (i % 2) = 1 THEN Rest ELSE holding(i \div 2)) \in Points
    OBVIOUS
  <2>1. (i % 2) # 1 => i \div 2 \in 1 .. n
    BY <1>1
  <2> HIDE DEF holding
  <2> QED
    BY <1>4, <1>5, <2>1
<1>9. h[1] = Rest /\ h[2 * n + 1] = Rest
  <2>1. 1 \in 1 .. 2 * n + 1 /\ 2 * n + 1 \in 1 .. 2 * n + 1 /\ (1 % 2) = 1 /\ ((2 * n + 1) % 2) = 1
    BY <1>1
  <2> QED
    BY <2>1
<1> HIDE DEF p, h
<1>10. ASSUME NEW i \in 1 .. 2 * n
       PROVE  Allowed(Device, th, p[i], h[i], h[i + 1])
  <2> DEFINE e == p[i]
             a == h[i]
             b == h[i + 1]
  <2>1. CASE (i % 2) = 1
    <3> DEFINE k == (i + 1) \div 2
               l == PoolLock(t(k))
    <3>1. k \in 1 .. n /\ p[i] = <<"lock", PoolLock(t(k))>> /\ h[i] = Rest /\ h[i + 1] = holding(k)
      <4> HIDE DEF holding
      <4>1. ~((i % 2) = 0)
        BY <2>1
      <4> QED
        BY <1>6, <4>1
    <3> HIDE DEF k
    <3>2. l \in Locks /\ Free(l, {})
      BY <1>3, <3>1, Nested
    <3>3. b = At({} \cup {l}, {}, {}) /\ e[1] = "lock" /\ e[2] = l
      BY <3>1
    <3>4. b = At(a.held \cup {e[2]}, a.sent, a.seen) /\ Free(e[2], a.held)
      BY <1>4, <3>1, <3>2, <3>3
    <3> HIDE DEF e, a, b
    <3> QED
      BY <3>3, <3>4 DEF Allowed, e, a, b
  <2>2. CASE (i % 2) # 1
    <3> DEFINE l == PoolLock(t(i \div 2))
    <3>1. e = <<"commands", t(i \div 2)>> /\ b = Rest /\ a = holding(i \div 2) /\ i \div 2 \in 1 .. n
      BY <1>6, <2>2
    <3>2. a.held = {l} /\ a.sent = {} /\ a.seen = {}
      BY <1>5, <3>1
    <3>3. e[1] = "commands" /\ e[2] = t(i \div 2) /\ Pool(Device, e[2]) = l
      BY <3>1, DeviceLocks
    <3>4. b = At(a.held \ {l}, a.sent, a.seen)
      <4>1. {l} \ {l} = {}
        OBVIOUS
      <4> QED
        BY <3>1, <3>2, <4>1 DEF Rest
    <3> HIDE DEF e, a, b
    <3> QED
      BY <3>2, <3>3, <3>4 DEF Allowed, e, a, b
  <2> QED
    BY <2>1, <2>2
<1> HIDE DEF p, h
<1>11. Runs(Device, th, p, Rest, Rest)
  BY <1>7, <1>8, <1>9, <1>10 DEF Runs
<1> QED
  BY <1>11 DEF p, n, t
-----------------------------------------------------------------------------
(* The inductive invariant.                                                *)

HeldBy(th) == {l \in DOMAIN holder : holder[l] = th}

\* The parts of a thread's upload that were submitted: some are done, some under way.
Under(th) == {k \in Parts : Pending(<<k, th>>)}
Sent(th) == executed[th] \cup Under(th)

\* From what it holds and has submitted, a thread's program leads to rest; what it
\* has waited for is no longer under way.
ThreadInv(th) ==
    \E seen \in SUBSET Parts :
        /\ seen \subseteq Sent(th) /\ seen \cap Under(th) = {}
        /\ Runs(Device, th, todo[th], At(HeldBy(th), Sent(th), seen), Rest)

TypeInv ==
    /\ todo \in [Threads -> Seq(Instructions)]
    /\ gpu \in [Types -> Seq(Works)]
    /\ executed \in [Threads -> SUBSET Parts]
    /\ m_texture \in {{"none"}} \cup Uploads
    /\ m_garbage \subseteq {"Graphic", "Transfer"} \X Works

\* The threads run when the device is there and the machine is forgotten.
IdleInv == qfp # <<>> => \A th \in Threads : todo[th] = <<>>

Inv == DeviceInv /\ TypeInv /\ IdleInv /\ \A th \in Threads : ThreadInv(th)

LEMMA RunsEmpty ==
    ASSUME NEW d, NEW th, NEW a, NEW b, Runs(d, th, <<>>, a, b)
    PROVE  a = b
<1>1. PICK h \in [1 .. Len(<<>>) + 1 -> Points] : h[1] = a /\ h[Len(<<>>) + 1] = b
  BY DEF Runs
<1>2. Len(<<>>) + 1 = 1
  OBVIOUS
<1> QED
  BY <1>1, <1>2

\* A thread that has nothing to do holds nothing.
LEMMA IdleThread ==
    ASSUME NEW th \in Threads, ThreadInv(th), todo[th] = <<>>
    PROVE  HeldBy(th) = {} /\ Sent(th) = {} /\ Under(th) = {}
<1>1. PICK seen \in SUBSET Parts : Runs(Device, th, <<>>, At(HeldBy(th), Sent(th), seen), Rest)
  BY DEF ThreadInv
<1>2. At(HeldBy(th), Sent(th), seen) = Rest
  BY <1>1, RunsEmpty
<1>3. HeldBy(th) = {} /\ Sent(th) = {}
  BY <1>2, AtFacts DEF Rest
<1> QED
  BY <1>3 DEF Sent

\* What a thread that has something to do may do next.
LEMMA NextIsAllowed ==
    ASSUME NEW th \in Threads, ThreadInv(th), todo[th] # <<>>
    PROVE  /\ Next1(th) \in Instructions
           /\ \E seen \in SUBSET Parts, c \in Points :
                /\ seen \subseteq Sent(th) /\ seen \cap Under(th) = {}
                /\ Allowed(Device, th, Next1(th), At(HeldBy(th), Sent(th), seen), c)
                /\ Runs(Device, th, Tail(todo[th]), c, Rest)
<1>1. PICK seen \in SUBSET Parts :
        /\ seen \subseteq Sent(th) /\ seen \cap Under(th) = {}
        /\ Runs(Device, th, todo[th], At(HeldBy(th), Sent(th), seen), Rest)
  BY DEF ThreadInv
<1> QED
  BY <1>1, RunsTail DEF Next1

LEMMA ThreadAdvances ==
    ASSUME NEW th \in Threads, NEW w \in SUBSET Parts, w \subseteq Sent(th)', w \cap Under(th)' = {},
           Device' = Device, Runs(Device, th, todo'[th], At(HeldBy(th)', Sent(th)', w), Rest)
    PROVE  ThreadInv(th)'
BY DEF ThreadInv

LEMMA ThreadStays ==
    ASSUME NEW th \in Threads, ThreadInv(th), Device' = Device, todo'[th] = todo[th],
           HeldBy(th)' = HeldBy(th), executed'[th] = executed[th], Under(th)' = Under(th)
    PROVE  ThreadInv(th)'
<1>1. Sent(th)' = Sent(th)
  BY DEF Sent
<1>2. PICK seen \in SUBSET Parts :
        /\ seen \subseteq Sent(th) /\ seen \cap Under(th) = {}
        /\ Runs(Device, th, todo[th], At(HeldBy(th), Sent(th), seen), Rest)
  BY DEF ThreadInv
<1>3. Runs(Device, th, todo'[th], At(HeldBy(th)', Sent(th)', seen), Rest)
  BY <1>1, <1>2
<1> QED
  BY <1>1, <1>2, <1>3, ThreadAdvances

\* Taking and releasing a lock.
LEMMA TakesLock ==
    ASSUME NEW th, NEW k, k \notin DOMAIN holder,
           holder' = [l \in (DOMAIN holder) \cup {k} |-> IF l = k THEN th ELSE holder[l]]
    PROVE  HeldBy(th)' = HeldBy(th) \cup {k} /\ \A u : u # th => HeldBy(u)' = HeldBy(u)
BY DEF HeldBy

LEMMA ReleasesLock ==
    ASSUME NEW th, NEW k, k \in HeldBy(th), Release(k)
    PROVE  HeldBy(th)' = HeldBy(th) \ {k} /\ \A u : u # th => HeldBy(u)' = HeldBy(u)
BY DEF HeldBy, Release

LEMMA KeepsLocks ==
    ASSUME UNCHANGED holder
    PROVE  \A u : HeldBy(u)' = HeldBy(u)
BY DEF HeldBy

\* Work that is submitted is pending, and is done in order.
LEMMA KeepsWork ==
    ASSUME UNCHANGED gpu
    PROVE  \A u : Under(u)' = Under(u)
BY DEF Under, Pending

LEMMA SubmitsWork ==
    ASSUME TypeInv, NEW q \in Types, NEW work \in Works, gpu' = [gpu EXCEPT ![q] = Append(@, work)]
    PROVE  /\ gpu' \in [Types -> Seq(Works)]
           /\ \A u \in Threads : Under(u)' = Under(u) \cup {k \in Parts : work = <<k, u>>}
<1>1. gpu \in [Types -> Seq(Works)] /\ gpu[q] \in Seq(Works)
  BY DEF TypeInv
<1>2. Append(gpu[q], work) \in Seq(Works) /\ Range(Append(gpu[q], work)) = Range(gpu[q]) \cup {work}
  <2> DEFINE s == gpu[q]
             r == Append(s, work)
  <2>1. /\ r \in Seq(Works) /\ Len(s) \in Nat /\ Len(r) = Len(s) + 1 /\ DOMAIN s = 1 .. Len(s) /\ DOMAIN r = 1 .. Len(r)
        /\ r[Len(s) + 1] = work /\ \A i \in 1 .. Len(s) : r[i] = s[i]
    BY <1>1
  <2> HIDE DEF s, r
  <2>2. \A i \in 1 .. Len(s) + 1 : i \in 1 .. Len(s) \/ i = Len(s) + 1
    BY <2>1
  <2>3. Len(s) + 1 \in 1 .. Len(s) + 1 /\ \A i \in 1 .. Len(s) : i \in 1 .. Len(s) + 1
    BY <2>1
  <2>4. Range(r) = Range(s) \cup {work}
    BY <2>1, <2>2, <2>3 DEF Range
  <2> QED
    BY <2>1, <2>4 DEF r, s
<1>3. gpu' \in [Types -> Seq(Works)] /\ gpu'[q] = Append(gpu[q], work) /\ \A t \in Types : t # q => gpu'[t] = gpu[t]
  BY <1>1, <1>2
<1>4. \A x : Pending(x)' <=> Pending(x) \/ x = work
  BY <1>2, <1>3 DEF Pending
<1> QED
  BY <1>3, <1>4 DEF Under

LEMMA FinishesWork ==
    ASSUME TypeInv, NEW q \in Types, gpu[q] # <<>>, gpu' = [gpu EXCEPT ![q] = Tail(@)]
    PROVE  /\ gpu' \in [Types -> Seq(Works)] /\ Head(gpu[q]) \in Works
           /\ \A u : Under(u)' \subseteq Under(u) /\ \A k \in Under(u) : k \in Under(u)' \/ Head(gpu[q]) = <<k, u>>
           /\ \A u : \A k \in Parts : Head(gpu[q]) = <<k, u>> => k \in Under(u)
<1>1. gpu \in [Types -> Seq(Works)] /\ gpu[q] \in Seq(Works)
  BY DEF TypeInv
<1>2. /\ Tail(gpu[q]) \in Seq(Works) /\ Head(gpu[q]) \in Works
      /\ Range(gpu[q]) = Range(Tail(gpu[q])) \cup {Head(gpu[q])}
  <2> DEFINE s == gpu[q]
             r == Tail(s)
             n == Len(s)
  <2>1. /\ r \in Seq(Works) /\ n \in Nat \ {0} /\ Len(r) = n - 1 /\ DOMAIN s = 1 .. n /\ DOMAIN r = 1 .. n - 1
        /\ Head(s) = s[1] /\ \A i \in 1 .. n - 1 : r[i] = s[i + 1]
    BY <1>1
  <2>2. Head(s) \in Works
    BY <1>1
  <2> HIDE DEF s, r, n
  <2>3. \A i \in 1 .. n : i = 1 \/ (i - 1 \in 1 .. n - 1 /\ (i - 1) + 1 = i)
    BY <2>1
  <2>4. 1 \in 1 .. n /\ \A i \in 1 .. n - 1 : i + 1 \in 1 .. n
    BY <2>1
  <2>5. \A i \in 1 .. n : s[i] = Head(s) \/ \E j \in 1 .. n - 1 : s[i] = r[j]
    BY <2>1, <2>3
  <2>6. Range(s) = Range(r) \cup {Head(s)}
    <3>1. Range(s) = {s[i] : i \in 1 .. n} /\ Range(r) = {r[i] : i \in 1 .. n - 1}
      BY <2>1 DEF Range
    <3>2. \A i \in 1 .. n - 1 : r[i] \in {s[j] : j \in 1 .. n}
      BY <2>1, <2>4
    <3>3. Head(s) \in {s[j] : j \in 1 .. n}
      BY <2>1, <2>4
    <3>4. \A i \in 1 .. n : s[i] \in {r[j] : j \in 1 .. n - 1} \cup {Head(s)}
      BY <2>5
    <3> QED
      BY <3>1, <3>2, <3>3, <3>4
  <2> QED
    BY <2>1, <2>2, <2>6 DEF r, s
<1>3. gpu' \in [Types -> Seq(Works)] /\ gpu'[q] = Tail(gpu[q]) /\ \A t \in Types : t # q => gpu'[t] = gpu[t]
  BY <1>1, <1>2
<1>4. \A x : Pending(x)' => Pending(x)
  BY <1>2, <1>3 DEF Pending
<1>5. \A x : Pending(x) => Pending(x)' \/ x = Head(gpu[q])
  BY <1>2, <1>3 DEF Pending
<1>6. Pending(Head(gpu[q]))
  BY <1>2 DEF Pending
<1> QED
  BY <1>2, <1>3, <1>4, <1>5, <1>6 DEF Under
-----------------------------------------------------------------------------
(* Every step keeps it.                                                    *)

\* The same, instruction by instruction.
Means(d, th, e, a, b) ==
    /\ e[1] = "lock" => Free(e[2], a.held) /\ b = At(a.held \cup {e[2]}, a.sent, a.seen)
    /\ e[1] = "touch" => Free(e[2], a.held) /\ b = a
    /\ e[1] = "unlock" => e[2] \in a.held /\ b = At(a.held \ {e[2]}, a.sent, a.seen)
    /\ e[1] = "begin" => Pool(d, e[2]) \in a.held /\ b = a
    /\ e[1] = "commands" => Pool(d, e[2]) \in a.held /\ b = At(a.held \ {Pool(d, e[2])}, a.sent, a.seen)
    /\ e[1] = "present" => Queue(d, e[2]) \in a.held /\ b = At(a.held \ {Queue(d, e[2])}, a.sent, a.seen)
    /\ e[1] = "submit" =>
             /\ Queue(d, e[2]) \in a.held /\ e[2] \in {"Graphic", "Transfer"}
             /\ e[3] \in Works /\ e[3][2] = th /\ e[3][1] \notin a.sent
             /\ b = At(a.held \ {Queue(d, e[2])}, a.sent \cup ({e[3][1]} \cap Parts), a.seen)
    /\ e[1] = "wait" =>
             /\ e[2] \in Works /\ e[2][2] = th /\ {e[2][1]} \cap Parts \subseteq a.sent
             /\ b = At(a.held, a.sent, a.seen \cup ({e[2][1]} \cap Parts))
    /\ e[1] = "recycle" => e[2] \in {"Graphic", "Transfer"} /\ e[3] \in Works /\ b = a
    /\ e[1] = "hostCopy" => a.sent = {} /\ a.seen = {} /\ b = At(a.held, {"copy"}, {"copy"})
    /\ e[1] = "setTexture" =>
             e[2] = th /\ a.seen = a.sent /\ a.sent \in {{"copy"}, {"release", "acquire"}} /\ b = At(a.held, {}, {})
    /\ e[1] = "reap" => a = Rest /\ b = Rest

LEMMA AllowedIs ==
    ASSUME NEW d, NEW th, NEW e, NEW a, NEW b, Allowed(d, th, e, a, b)
    PROVE  Means(d, th, e, a, b)
BY DEF Allowed, Means

LEMMA OneAdvances ==
    ASSUME TypeInv, \A u \in Threads : ThreadInv(u), NEW th \in Threads, todo[th] # <<>>, Continue(th),
           UNCHANGED deviceVars,
           NEW w \in SUBSET Parts, w \subseteq Sent(th)', w \cap Under(th)' = {},
           Runs(Device, th, Tail(todo[th]), At(HeldBy(th)', Sent(th)', w), Rest),
           \A u \in Threads : u # th => HeldBy(u)' = HeldBy(u) /\ executed'[u] = executed[u] /\ Under(u)' = Under(u)
    PROVE  todo' \in [Threads -> Seq(Instructions)] /\ \A u \in Threads : ThreadInv(u)'
<1>1. todo \in [Threads -> Seq(Instructions)] /\ todo' = [todo EXCEPT ![th] = Tail(todo[th])]
  BY DEF TypeInv, Continue
<1>2. Tail(todo[th]) \in Seq(Instructions)
  BY <1>1
<1>3. /\ todo' \in [Threads -> Seq(Instructions)] /\ todo'[th] = Tail(todo[th])
      /\ \A u \in Threads : u # th => todo'[u] = todo[u]
  BY <1>1, <1>2
<1>4. Device' = Device
  BY DEF Device, deviceVars
<1>5. ThreadInv(th)'
  BY <1>3, <1>4, ThreadAdvances
<1>6. \A u \in Threads : u # th => ThreadInv(u)'
  BY <1>3, <1>4, ThreadStays
<1> QED
  BY <1>3, <1>5, <1>6

\* The steps that change neither what is executed nor what is submitted.
LEMMA OneLocks ==
    ASSUME TypeInv, \A u \in Threads : ThreadInv(u), NEW th \in Threads, todo[th] # <<>>, Continue(th),
           UNCHANGED <<deviceVars, gpu, executed>>,
           NEW seen \in SUBSET Parts, seen \subseteq Sent(th), seen \cap Under(th) = {},
           Runs(Device, th, Tail(todo[th]), At(HeldBy(th)', Sent(th), seen), Rest),
           \A u : u # th => HeldBy(u)' = HeldBy(u)
    PROVE  todo' \in [Threads -> Seq(Instructions)] /\ \A u \in Threads : ThreadInv(u)'
<1>1. \A u : Under(u)' = Under(u) /\ Sent(u)' = Sent(u)
  BY KeepsWork DEF Sent
<1>2. /\ seen \subseteq Sent(th)' /\ seen \cap Under(th)' = {} /\ UNCHANGED deviceVars
      /\ Runs(Device, th, Tail(todo[th]), At(HeldBy(th)', Sent(th)', seen), Rest)
  BY <1>1
<1>3. \A u \in Threads : u # th => HeldBy(u)' = HeldBy(u) /\ executed'[u] = executed[u] /\ Under(u)' = Under(u)
  BY <1>1
<1> QED
  BY <1>2, <1>3, OneAdvances

LEMMA LocksStep ==
    ASSUME TypeInv, DeviceInv, \A u \in Threads : ThreadInv(u), NEW th \in Threads,
           Lock(th) \/ TouchLocked(th) \/ Unlock(th) \/ PoolCall(th)
             \/ (QueueCall(th) /\ Does(th, "present")) \/ PutGarbage(th)
    PROVE  /\ todo' \in [Threads -> Seq(Instructions)] /\ \A u \in Threads : ThreadInv(u)'
           /\ UNCHANGED <<deviceVars, gpu, executed, m_texture>>
           /\ m_garbage' \subseteq {"Graphic", "Transfer"} \X Works
<1> DEFINE e == Next1(th)
           A == HeldBy(th)
<1>1. todo[th] # <<>> /\ Continue(th)
  BY DEF Lock, TouchLocked, Unlock, PoolCall, QueueCall, PutGarbage, Does
<1>2. PICK seen \in SUBSET Parts, c \in Points :
        /\ e \in Instructions /\ seen \subseteq Sent(th) /\ seen \cap Under(th) = {}
        /\ Allowed(Device, th, e, At(A, Sent(th), seen), c)
        /\ Runs(Device, th, Tail(todo[th]), c, Rest)
  BY <1>1, NextIsAllowed
<1> DEFINE a == At(A, Sent(th), seen)
<1>3. a.held = A /\ a.sent = Sent(th) /\ a.seen = seen /\ a = At(a.held, a.sent, a.seen)
  BY AtFacts
<1> HIDE DEF a, A, e
<1>4. Means(Device, th, e, a, c)
  BY <1>2, AllowedIs DEF a
<1>5. c = At(HeldBy(th)', Sent(th), seen) /\ \A u : u # th => HeldBy(u)' = HeldBy(u)
  <2>1. CASE Lock(th)
    <3>1. /\ e[1] = "lock" /\ e[2] \notin DOMAIN holder
          /\ holder' = [l \in (DOMAIN holder) \cup {e[2]} |-> IF l = e[2] THEN th ELSE holder[l]]
      BY <2>1 DEF Lock, Does, e
    <3>2. c = At(A \cup {e[2]}, Sent(th), seen)
      BY <1>3, <1>4, <3>1 DEF Means
    <3> QED
      BY <3>1, <3>2, TakesLock DEF A
  <2>2. CASE TouchLocked(th)
    <3>1. e[1] = "touch" /\ UNCHANGED holder
      BY <2>2 DEF TouchLocked, Does, e
    <3>2. c = a
      BY <1>4, <3>1 DEF Means
    <3> QED
      BY <3>1, <3>2, KeepsLocks DEF a, A
  <2>3. CASE Unlock(th)
    <3>1. e[1] = "unlock" /\ Release(e[2])
      BY <2>3 DEF Unlock, Does, e
    <3>2. c = At(A \ {e[2]}, Sent(th), seen) /\ e[2] \in A
      BY <1>3, <1>4, <3>1 DEF Means
    <3> QED
      BY <3>1, <3>2, ReleasesLock DEF A
  <2>4. CASE PoolCall(th) /\ Does(th, "begin")
    <3>1. e[1] = "begin" /\ UNCHANGED holder
      BY <2>4 DEF PoolCall, Does, e
    <3>2. c = a
      BY <1>4, <3>1 DEF Means
    <3> QED
      BY <3>1, <3>2, KeepsLocks DEF a, A
  <2>5. CASE PoolCall(th) /\ Does(th, "commands")
    <3>1. e[1] = "commands" /\ Release(PoolLock(e[2])) /\ Pool(Device, e[2]) = PoolLock(e[2])
      BY <2>5, DeviceLocks DEF PoolCall, Does, e
    <3>2. c = At(A \ {PoolLock(e[2])}, Sent(th), seen) /\ PoolLock(e[2]) \in A
      BY <1>3, <1>4, <3>1 DEF Means
    <3> QED
      BY <3>1, <3>2, ReleasesLock DEF A
  <2>6. CASE QueueCall(th) /\ Does(th, "present")
    <3>1. e[1] = "present" /\ Release(QueueLock(e[2])) /\ Queue(Device, e[2]) = QueueLock(e[2])
      BY <2>6, DeviceLocks DEF QueueCall, Does, e
    <3>2. c = At(A \ {QueueLock(e[2])}, Sent(th), seen) /\ QueueLock(e[2]) \in A
      BY <1>3, <1>4, <3>1 DEF Means
    <3> QED
      BY <3>1, <3>2, ReleasesLock DEF A
  <2>7. CASE PutGarbage(th)
    <3>1. e[1] = "recycle" /\ UNCHANGED holder
      BY <2>7 DEF PutGarbage, Does, e
    <3>2. c = a
      BY <1>4, <3>1 DEF Means
    <3> QED
      BY <3>1, <3>2, KeepsLocks DEF a, A
  <2>8. PoolCall(th) => Does(th, "begin") \/ Does(th, "commands")
    BY DEF PoolCall
  <2> QED
    BY <2>1, <2>2, <2>3, <2>4, <2>5, <2>6, <2>7, <2>8
<1>6. UNCHANGED <<deviceVars, gpu, executed, m_texture>>
  <2>1. CASE Lock(th)
    BY <2>1 DEF Lock
  <2>2. CASE TouchLocked(th)
    BY <2>2 DEF TouchLocked
  <2>3. CASE Unlock(th)
    BY <2>3 DEF Unlock
  <2>4. CASE PoolCall(th)
    BY <2>4 DEF PoolCall
  <2>5. CASE QueueCall(th) /\ Does(th, "present")
    BY <2>5 DEF QueueCall, Does
  <2>6. CASE PutGarbage(th)
    BY <2>6 DEF PutGarbage
  <2> QED
    BY <2>1, <2>2, <2>3, <2>4, <2>5, <2>6
<1>7. m_garbage' \subseteq {"Graphic", "Transfer"} \X Works
  <2>1. CASE PutGarbage(th)
    <3>1. e[1] = "recycle" /\ m_garbage' = m_garbage \cup {<<e[2], e[3]>>}
      BY <2>1 DEF PutGarbage, Does, e
    <3>2. e[2] \in {"Graphic", "Transfer"} /\ e[3] \in Works
      BY <1>4, <3>1 DEF Means
    <3> QED
      BY <3>1, <3>2 DEF TypeInv
  <2>2. CASE UNCHANGED m_garbage
    BY <2>2 DEF TypeInv
  <2> QED
    BY <2>1, <2>2 DEF Lock, TouchLocked, Unlock, PoolCall, QueueCall
<1>8. Runs(Device, th, Tail(todo[th]), At(HeldBy(th)', Sent(th), seen), Rest)
  BY <1>2, <1>5
<1> QED
  BY <1>1, <1>2, <1>5, <1>6, <1>7, <1>8, OneLocks
LEMMA SubmitStep ==
    ASSUME TypeInv, DeviceInv, \A u \in Threads : ThreadInv(u), qfp = <<>>, NEW th \in Threads,
           QueueCall(th), Does(th, "submit")
    PROVE  /\ todo' \in [Threads -> Seq(Instructions)] /\ \A u \in Threads : ThreadInv(u)'
           /\ gpu' \in [Types -> Seq(Works)]
           /\ UNCHANGED <<deviceVars, executed, m_texture, m_garbage>>
<1> DEFINE e == Next1(th)
           A == HeldBy(th)
<1>1. todo[th] # <<>> /\ Continue(th) /\ e[1] = "submit" /\ UNCHANGED <<deviceVars, executed, m_texture, m_garbage>>
  BY DEF QueueCall, Does
<1>2. PICK seen \in SUBSET Parts, c \in Points :
        /\ e \in Instructions /\ seen \subseteq Sent(th) /\ seen \cap Under(th) = {}
        /\ Allowed(Device, th, e, At(A, Sent(th), seen), c)
        /\ Runs(Device, th, Tail(todo[th]), c, Rest)
  BY <1>1, NextIsAllowed
<1> DEFINE a == At(A, Sent(th), seen)
<1>3. a.held = A /\ a.sent = Sent(th) /\ a.seen = seen
  BY AtFacts
<1>4. /\ gpu' = [gpu EXCEPT ![m_queue[e[2]]] = Append(@, e[3])]
      /\ Release(QueueLock(e[2])) /\ Queue(Device, e[2]) = QueueLock(e[2])
  BY <1>1, DeviceLocks DEF QueueCall, Does
<1> HIDE DEF a, A, e
<1>5. Means(Device, th, e, a, c)
  BY <1>2, AllowedIs DEF a
<1>6. /\ QueueLock(e[2]) \in A /\ e[2] \in {"Graphic", "Transfer"}
      /\ e[3] \in Works /\ e[3][2] = th /\ e[3][1] \notin Sent(th)
      /\ c = At(A \ {QueueLock(e[2])}, Sent(th) \cup ({e[3][1]} \cap Parts), seen)
  BY <1>1, <1>3, <1>4, <1>5 DEF Means
<1>7. HeldBy(th)' = A \ {QueueLock(e[2])} /\ \A u : u # th => HeldBy(u)' = HeldBy(u)
  BY <1>4, <1>6, ReleasesLock DEF A
<1>8. m_queue[e[2]] \in Types
  BY <1>6 DEF DeviceInv
<1>9. /\ gpu' \in [Types -> Seq(Works)]
      /\ \A u \in Threads : Under(u)' = Under(u) \cup {k \in Parts : e[3] = <<k, u>>}
  BY <1>4, <1>6, <1>8, SubmitsWork
<1>10. e[3] = <<e[3][1], th>>
  BY <1>6 DEF Works
<1>11. Under(th)' = Under(th) \cup ({e[3][1]} \cap Parts)
  BY <1>9, <1>10
<1>12. ASSUME NEW u \in Threads, u # th
       PROVE  Under(u)' = Under(u)
  <2>1. {k \in Parts : e[3] = <<k, u>>} = {}
    BY <1>6, <1>12
  <2> QED
    BY <1>9, <2>1
<1>13. Sent(th)' = Sent(th) \cup ({e[3][1]} \cap Parts)
  BY <1>1, <1>11 DEF Sent
<1>14. seen \subseteq Sent(th)' /\ seen \cap Under(th)' = {}
  BY <1>2, <1>6, <1>11, <1>13
<1>15. Runs(Device, th, Tail(todo[th]), At(HeldBy(th)', Sent(th)', seen), Rest)
  BY <1>2, <1>6, <1>7, <1>13
<1>16. \A u \in Threads : u # th => HeldBy(u)' = HeldBy(u) /\ executed'[u] = executed[u] /\ Under(u)' = Under(u)
  BY <1>1, <1>7, <1>12
<1>17. UNCHANGED deviceVars
  BY <1>1
<1>18. todo' \in [Threads -> Seq(Instructions)] /\ \A u \in Threads : ThreadInv(u)'
  BY <1>1, <1>14, <1>15, <1>16, <1>17, OneAdvances
<1> QED
  BY <1>1, <1>9, <1>18

\* What was waited for is no longer under way.
LEMMA WaitStep ==
    ASSUME TypeInv, \A u \in Threads : ThreadInv(u), NEW th \in Threads, WaitFence(th)
    PROVE  /\ todo' \in [Threads -> Seq(Instructions)] /\ \A u \in Threads : ThreadInv(u)'
           /\ UNCHANGED <<deviceVars, gpu, executed, m_texture, m_garbage>>
<1> DEFINE e == Next1(th)
           A == HeldBy(th)
<1>1. /\ todo[th] # <<>> /\ Continue(th) /\ e[1] = "wait" /\ ~Pending(e[2])
      /\ UNCHANGED <<deviceVars, holder, gpu, executed, m_texture, m_garbage>>
  BY DEF WaitFence, Does
<1>2. PICK seen \in SUBSET Parts, c \in Points :
        /\ e \in Instructions /\ seen \subseteq Sent(th) /\ seen \cap Under(th) = {}
        /\ Allowed(Device, th, e, At(A, Sent(th), seen), c)
        /\ Runs(Device, th, Tail(todo[th]), c, Rest)
  BY <1>1, NextIsAllowed
<1> DEFINE a == At(A, Sent(th), seen)
           w == seen \cup ({e[2][1]} \cap Parts)
<1>3. a.held = A /\ a.sent = Sent(th) /\ a.seen = seen
  BY AtFacts
<1> HIDE DEF a, A, e
<1>4. Means(Device, th, e, a, c)
  BY <1>2, AllowedIs DEF a
<1>5. e[2] \in Works /\ e[2][2] = th /\ {e[2][1]} \cap Parts \subseteq Sent(th) /\ c = At(A, Sent(th), w)
  BY <1>1, <1>3, <1>4 DEF Means
<1>6. e[2] = <<e[2][1], th>>
  BY <1>5 DEF Works
<1>7. e[2][1] \notin Under(th)
  BY <1>1, <1>6 DEF Under
<1>8. w \in SUBSET Parts /\ w \subseteq Sent(th) /\ w \cap Under(th) = {}
  BY <1>2, <1>5, <1>7
<1>9. \A u : HeldBy(u)' = HeldBy(u)
  BY <1>1, KeepsLocks
<1>10. Runs(Device, th, Tail(todo[th]), At(HeldBy(th)', Sent(th), w), Rest)
  BY <1>2, <1>5, <1>9 DEF A
<1> HIDE DEF w
<1>11. UNCHANGED <<deviceVars, gpu, executed>>
  BY <1>1
<1>12. todo' \in [Threads -> Seq(Instructions)] /\ \A u \in Threads : ThreadInv(u)'
  BY <1>1, <1>8, <1>9, <1>10, <1>11, OneLocks
<1> QED
  BY <1>1, <1>12

LEMMA HostCopyStep ==
    ASSUME TypeInv, \A u \in Threads : ThreadInv(u), NEW th \in Threads, HostCopy(th)
    PROVE  /\ todo' \in [Threads -> Seq(Instructions)] /\ \A u \in Threads : ThreadInv(u)'
           /\ executed' \in [Threads -> SUBSET Parts]
           /\ UNCHANGED <<deviceVars, gpu, m_texture, m_garbage>>
<1> DEFINE e == Next1(th)
           A == HeldBy(th)
           one == {"copy"}
<1>1. /\ todo[th] # <<>> /\ Continue(th) /\ e[1] = "hostCopy" /\ executed' = [executed EXCEPT ![th] = one]
      /\ UNCHANGED <<deviceVars, holder, gpu, m_texture, m_garbage>>
  BY DEF HostCopy, Does
<1>2. PICK seen \in SUBSET Parts, c \in Points :
        /\ e \in Instructions /\ seen \subseteq Sent(th) /\ seen \cap Under(th) = {}
        /\ Allowed(Device, th, e, At(A, Sent(th), seen), c)
        /\ Runs(Device, th, Tail(todo[th]), c, Rest)
  BY <1>1, NextIsAllowed
<1> DEFINE a == At(A, Sent(th), seen)
<1>3. a.held = A /\ a.sent = Sent(th) /\ a.seen = seen
  BY AtFacts
<1> HIDE DEF a, A, e
<1>4. Means(Device, th, e, a, c)
  BY <1>2, AllowedIs DEF a
<1>5. Sent(th) = {} /\ c = At(A, one, one)
  BY <1>1, <1>3, <1>4 DEF Means
<1>6. \A u : HeldBy(u)' = HeldBy(u) /\ Under(u)' = Under(u)
  BY <1>1, KeepsLocks, KeepsWork
<1>7. one \in SUBSET Parts
  BY DEF Parts
<1> HIDE DEF one
<1>8. /\ executed' \in [Threads -> SUBSET Parts] /\ executed'[th] = one
      /\ \A u \in Threads : u # th => executed'[u] = executed[u]
  BY <1>1, <1>7 DEF TypeInv
<1>9. Under(th)' = {} /\ Sent(th)' = one
  BY <1>5, <1>6, <1>8 DEF Sent
<1>10. Runs(Device, th, Tail(todo[th]), At(HeldBy(th)', Sent(th)', one), Rest)
  BY <1>2, <1>5, <1>6, <1>9 DEF A
<1>11. one \subseteq Sent(th)' /\ one \cap Under(th)' = {} /\ UNCHANGED deviceVars
  BY <1>1, <1>9
<1>12. todo' \in [Threads -> Seq(Instructions)] /\ \A u \in Threads : ThreadInv(u)'
  BY <1>1, <1>6, <1>7, <1>8, <1>10, <1>11, OneAdvances
<1> QED
  BY <1>1, <1>8, <1>12

\* All of the upload that was submitted was waited for, and is executed.
LEMMA SetTextureStep ==
    ASSUME TypeInv, \A u \in Threads : ThreadInv(u), NEW th \in Threads, SetTexture(th)
    PROVE  /\ todo' \in [Threads -> Seq(Instructions)] /\ \A u \in Threads : ThreadInv(u)'
           /\ executed' \in [Threads -> SUBSET Parts] /\ m_texture' \in Uploads
           /\ UNCHANGED <<deviceVars, gpu, m_garbage>>
<1> DEFINE e == Next1(th)
           A == HeldBy(th)
<1>1. /\ todo[th] # <<>> /\ Continue(th) /\ e[1] = "setTexture" /\ m_texture' = executed[th]
      /\ executed' = [executed EXCEPT ![th] = {}] /\ UNCHANGED <<deviceVars, holder, gpu, m_garbage>>
  BY DEF SetTexture, Does
<1>2. PICK seen \in SUBSET Parts, c \in Points :
        /\ e \in Instructions /\ seen \subseteq Sent(th) /\ seen \cap Under(th) = {}
        /\ Allowed(Device, th, e, At(A, Sent(th), seen), c)
        /\ Runs(Device, th, Tail(todo[th]), c, Rest)
  BY <1>1, NextIsAllowed
<1> DEFINE a == At(A, Sent(th), seen)
<1>3. a.held = A /\ a.sent = Sent(th) /\ a.seen = seen
  BY AtFacts
<1> HIDE DEF a, A, e
<1>4. Means(Device, th, e, a, c)
  BY <1>2, AllowedIs DEF a
<1>5. seen = Sent(th) /\ Sent(th) \in Uploads /\ c = At(A, {}, {})
  BY <1>1, <1>3, <1>4 DEF Means, Uploads
<1>6. Under(th) = {} /\ executed[th] = Sent(th)
  BY <1>2, <1>5 DEF Sent
<1>7. \A u : HeldBy(u)' = HeldBy(u) /\ Under(u)' = Under(u)
  BY <1>1, KeepsLocks, KeepsWork
<1>8. /\ executed' \in [Threads -> SUBSET Parts] /\ executed'[th] = {}
      /\ \A u \in Threads : u # th => executed'[u] = executed[u]
  BY <1>1 DEF TypeInv
<1>9. Under(th)' = {} /\ Sent(th)' = {}
  BY <1>6, <1>7, <1>8 DEF Sent
<1>10. Runs(Device, th, Tail(todo[th]), At(HeldBy(th)', Sent(th)', {}), Rest)
  BY <1>2, <1>5, <1>7, <1>9 DEF A
<1>11. {} \in SUBSET Parts /\ {} \subseteq Sent(th)' /\ {} \cap Under(th)' = {} /\ UNCHANGED deviceVars
  BY <1>1
<1>12. todo' \in [Threads -> Seq(Instructions)] /\ \A u \in Threads : ThreadInv(u)'
  BY <1>1, <1>7, <1>8, <1>10, <1>11, OneAdvances
<1> QED
  BY <1>1, <1>5, <1>6, <1>8, <1>12
\* A finite set is listed by some sequence, each of its members once.
LEMMA FinishedIsListed ==
    ASSUME NEW S, IsFiniteSet(S)
    PROVE  Cardinality(S) \in Nat /\ \E f : f \in [1 .. Cardinality(S) -> S] /\ IsInjective(f)
<1>1. Cardinality(S) \in Nat /\ ExistsBijection(1 .. Cardinality(S), S)
  BY FS_CardinalityType
<1>2. PICK f : f \in Bijection(1 .. Cardinality(S), S)
  BY <1>1 DEF ExistsBijection
<1>3. f \in [1 .. Cardinality(S) -> S] /\ IsInjective(f)
  BY <1>2 DEF Bijection, Injection
<1> QED
  BY <1>1, <1>3

LEMMA ReapStep ==
    ASSUME TypeInv, DeviceInv, \A u \in Threads : ThreadInv(u), NEW th \in Threads, ReapGarbage(th)
    PROVE  /\ todo' \in [Threads -> Seq(Instructions)] /\ \A u \in Threads : ThreadInv(u)'
           /\ m_garbage' \subseteq {"Graphic", "Transfer"} \X Works
           /\ UNCHANGED <<deviceVars, gpu, executed, m_texture>>
<1> DEFINE e == Next1(th)
           A == HeldBy(th)
           done == {g \in m_garbage : ~Pending(g[2])}
           freed == SetToSeq(done)
           program == [i \in 1 .. 2 * Len(freed) |-> CommandBuffer(freed[(i + 1) \div 2][1])[2 - (i % 2)]]
<1>1. /\ todo[th] # <<>> /\ e[1] = "reap" /\ UNCHANGED <<deviceVars, holder, gpu, executed, m_texture>>
      /\ m_garbage' = m_garbage \ done /\ todo' = [todo EXCEPT ![th] = program]
  BY DEF ReapGarbage, Does
<1>2. PICK seen \in SUBSET Parts, c \in Points :
        /\ e \in Instructions /\ seen \subseteq Sent(th) /\ seen \cap Under(th) = {}
        /\ Allowed(Device, th, e, At(A, Sent(th), seen), c)
  BY <1>1, NextIsAllowed
<1> DEFINE a == At(A, Sent(th), seen)
<1>3. a.held = A /\ a.sent = Sent(th) /\ a.seen = seen
  BY AtFacts
<1> HIDE DEF a, A, e
<1>4. Means(Device, th, e, a, c)
  BY <1>2, AllowedIs DEF a
<1>5. a = Rest
  BY <1>1, <1>4 DEF Means
<1>6. done \in SUBSET ({"Graphic", "Transfer"} \X Works)
  BY DEF TypeInv
<1>7. IsFiniteSet(done)
  <2> DEFINE Fin(S) == IsFiniteSet(S)
  <2>1. \A x : Fin({x})
    BY FS_Singleton
  <2>2. \A S, T : Fin(S) /\ Fin(T) => Fin(S \cup T)
    BY FS_Union
  <2> HIDE DEF Fin
  <2>3. Fin({"Graphic", "Transfer"})
    <3>1. {"Graphic", "Transfer"} = {"Graphic"} \cup {"Transfer"}
      OBVIOUS
    <3>2. Fin({"Graphic"} \cup {"Transfer"})
      BY <2>1, <2>2
    <3> QED
      BY <3>1, <3>2
  <2>4. Fin(Parts \cup {"frame", "readback"})
    <3>1. Parts \cup {"frame", "readback"} = ({"copy"} \cup {"release"}) \cup {"acquire"} \cup ({"frame"} \cup {"readback"})
      BY DEF Parts
    <3>2. Fin({"copy"} \cup {"release"}) /\ Fin({"frame"} \cup {"readback"})
      BY <2>1, <2>2
    <3>3. Fin(({"copy"} \cup {"release"}) \cup {"acquire"})
      BY <2>1, <2>2, <3>2
    <3> QED
      BY <2>2, <3>1, <3>2, <3>3
  <2>5. Fin(Threads)
    <3>1. Threads = ({"main"} \cup {"provider"}) \cup {"reaper"}
      BY DEF Threads
    <3>2. Fin({"main"} \cup {"provider"})
      BY <2>1, <2>2
    <3> QED
      BY <2>1, <2>2, <3>1, <3>2
  <2>6. IsFiniteSet({"Graphic", "Transfer"} \X Works)
    BY <2>3, <2>4, <2>5, FS_Product DEF Works, Fin
  <2> QED
    BY <1>6, <2>6, FS_Subset
<1> HIDE DEF done
<1>8. freed \in Seq({"Graphic", "Transfer"} \X Works)
  <2>1. Cardinality(done) \in Nat /\ \E f : f \in [1 .. Cardinality(done) -> done] /\ IsInjective(f)
    BY <1>7, FinishedIsListed
  <2>2. freed \in [1 .. Cardinality(done) -> done]
    BY <2>1 DEF SetToSeq
  <2> QED
    BY <1>6, <2>1, <2>2
<1> HIDE DEF freed
<1>9. Runs(Device, th, program, Rest, Rest)
  BY <1>8, FreeingRuns
<1> HIDE DEF program
<1>10. /\ todo' \in [Threads -> Seq(Instructions)] /\ todo'[th] = program
       /\ \A u \in Threads : u # th => todo'[u] = todo[u]
  BY <1>1, <1>9 DEF TypeInv, Runs
<1>11. \A u : HeldBy(u)' = HeldBy(u) /\ Under(u)' = Under(u) /\ Sent(u)' = Sent(u)
  BY <1>1, KeepsLocks, KeepsWork DEF Sent
<1>12. Device' = Device
  BY <1>1 DEF Device, deviceVars
<1>13. ThreadInv(th)'
  <2>1. At(HeldBy(th)', Sent(th)', seen) = Rest
    BY <1>5, <1>11 DEF a, A
  <2>2. Runs(Device, th, todo'[th], At(HeldBy(th)', Sent(th)', seen), Rest)
    BY <1>9, <1>10, <2>1
  <2> QED
    BY <1>2, <1>11, <1>12, <2>2, ThreadAdvances
<1>14. \A u \in Threads : u # th => ThreadInv(u)'
  BY <1>1, <1>10, <1>11, <1>12, ThreadStays
<1>15. m_garbage' \subseteq {"Graphic", "Transfer"} \X Works
  BY <1>1 DEF TypeInv
<1> QED
  BY <1>1, <1>10, <1>13, <1>14, <1>15

LEMMA GpuStep ==
    ASSUME TypeInv, \A u \in Threads : ThreadInv(u), NEW q \in Types, GpuDone(q)
    PROVE  /\ \A u \in Threads : ThreadInv(u)'
           /\ gpu' \in [Types -> Seq(Works)] /\ executed' \in [Threads -> SUBSET Parts]
           /\ UNCHANGED <<deviceVars, todo, m_texture, m_garbage>>
<1> DEFINE work == Head(gpu[q])
           part == work[1]
           of == work[2]
<1>1. /\ gpu[q] # <<>> /\ gpu' = [gpu EXCEPT ![q] = Tail(@)]
      /\ executed' = IF part \in Parts THEN [executed EXCEPT ![of] = @ \cup {part}] ELSE executed
      /\ UNCHANGED <<deviceVars, todo, holder, m_texture, m_garbage>>
  BY DEF GpuDone, Parts
<1>2. /\ gpu' \in [Types -> Seq(Works)] /\ work \in Works
      /\ \A u : Under(u)' \subseteq Under(u) /\ \A k \in Under(u) : k \in Under(u)' \/ work = <<k, u>>
      /\ \A u : \A k \in Parts : work = <<k, u>> => k \in Under(u)
  BY <1>1, FinishesWork
<1> HIDE DEF work
<1>3. of \in Threads /\ work = <<part, of>>
  BY <1>2 DEF Works
<1> HIDE DEF part, of
<1>4. /\ executed' \in [Threads -> SUBSET Parts]
      /\ \A u \in Threads : executed'[u] = executed[u] \cup (IF u = of THEN {part} \cap Parts ELSE {})
  BY <1>1, <1>3 DEF TypeInv
<1>5. ASSUME NEW u \in Threads
      PROVE  Sent(u)' = Sent(u)
  <2>1. CASE u = of
    <3>1. executed'[u] = executed[u] \cup ({part} \cap Parts)
      BY <1>4, <2>1
    <3>2. {part} \cap Parts \subseteq Under(u)
      BY <1>2, <1>3, <2>1
    <3>3. Under(u)' \subseteq Under(u) /\ Under(u) \subseteq Under(u)' \cup ({part} \cap Parts)
      <4>1. \A k \in Under(u) : k \in Under(u)' \/ k = part
        BY <1>2, <1>3
      <4>2. Under(u) \subseteq Parts
        BY DEF Under
      <4> QED
        BY <1>2, <4>1, <4>2
    <3> QED
      BY <3>1, <3>2, <3>3 DEF Sent
  <2>2. CASE u # of
    <3>1. executed'[u] = executed[u]
      BY <1>4, <2>2
    <3>2. Under(u)' = Under(u)
      <4>1. \A k : work # <<k, u>>
        BY <1>3, <2>2
      <4> QED
        BY <1>2, <4>1
    <3> QED
      BY <3>1, <3>2 DEF Sent
  <2> QED
    BY <2>1, <2>2
<1>6. ASSUME NEW u \in Threads
      PROVE  ThreadInv(u)'
  <2>1. PICK seen \in SUBSET Parts :
          /\ seen \subseteq Sent(u) /\ seen \cap Under(u) = {}
          /\ Runs(Device, u, todo[u], At(HeldBy(u), Sent(u), seen), Rest)
    BY DEF ThreadInv
  <2>2. Device' = Device /\ todo'[u] = todo[u] /\ HeldBy(u)' = HeldBy(u) /\ Sent(u)' = Sent(u)
    BY <1>1, <1>5, KeepsLocks DEF Device, deviceVars
  <2>3. seen \subseteq Sent(u)' /\ seen \cap Under(u)' = {}
    BY <1>2, <2>1, <2>2
  <2>4. Runs(Device, u, todo'[u], At(HeldBy(u)', Sent(u)', seen), Rest)
    BY <2>1, <2>2
  <2> QED
    BY <2>2, <2>3, <2>4, ThreadAdvances
<1> QED
  BY <1>1, <1>2, <1>4, <1>6
LEMMA EnqueueStep ==
    ASSUME TypeInv, DeviceInv, \A u \in Threads : ThreadInv(u), NEW th \in Threads, Enqueue(th)
    PROVE  todo' \in [Threads -> Seq(Instructions)] /\ \A u \in Threads : ThreadInv(u)'
<1>1. /\ todo[th] = <<>> /\ \E program \in Handlers(th) : todo' = [todo EXCEPT ![th] = program]
      /\ UNCHANGED <<deviceVars, holder, gpu, executed, m_texture, m_garbage>>
  BY DEF Enqueue
<1>2. PICK program \in Handlers(th) : todo' = [todo EXCEPT ![th] = program]
  BY <1>1
<1>3. Runs(Device, th, program, Rest, Rest)
  BY HandlersRun
<1>4. /\ todo' \in [Threads -> Seq(Instructions)] /\ todo'[th] = program
      /\ \A u \in Threads : u # th => todo'[u] = todo[u]
  BY <1>2, <1>3 DEF TypeInv, Runs
<1>5. \A u : HeldBy(u)' = HeldBy(u) /\ Under(u)' = Under(u)
  BY <1>1, KeepsLocks, KeepsWork
<1>6. Sent(th)' = Sent(th)
  BY <1>1, <1>5 DEF Sent
<1>7. Device' = Device
  BY <1>1 DEF Device, deviceVars
<1>8. ThreadInv(th)'
  <2>1. HeldBy(th)' = {} /\ Sent(th)' = {}
    BY <1>1, <1>5, <1>6, IdleThread
  <2>2. At(HeldBy(th)', Sent(th)', {}) = Rest
    BY <2>1 DEF Rest
  <2>3. {} \in SUBSET Parts /\ {} \subseteq Sent(th)' /\ {} \cap Under(th)' = {}
    OBVIOUS
  <2>4. Runs(Device, th, todo'[th], At(HeldBy(th)', Sent(th)', {}), Rest)
    BY <1>3, <1>4, <2>2
  <2> QED
    BY <1>7, <2>3, <2>4, ThreadAdvances
<1>9. \A u \in Threads : u # th => ThreadInv(u)'
  BY <1>1, <1>4, <1>5, <1>7, ThreadStays
<1> QED
  BY <1>4, <1>8, <1>9

\* Until the machine is forgotten the device may change, for no thread has anything to do.
LEMMA ConstructStep ==
    ASSUME Inv, UNCHANGED <<todo, holder, gpu, executed>>, Construct \/ Forget
    PROVE  \A u \in Threads : ThreadInv(u)'
<1>1. qfp # <<>>
  BY DEF Construct, Forget
<1> TAKE u \in Threads
<1>2. ThreadInv(u) /\ todo[u] = <<>>
  BY <1>1 DEF Inv, IdleInv
<1>3. HeldBy(u)' = {} /\ Under(u)' = {} /\ Sent(u)' = {}
  <2>1. HeldBy(u)' = HeldBy(u) /\ Under(u)' = Under(u)
    BY KeepsLocks, KeepsWork
  <2>2. Sent(u)' = Sent(u)
    BY <2>1 DEF Sent
  <2> QED
    BY <1>2, <2>1, <2>2, IdleThread
<1>4. At(HeldBy(u)', Sent(u)', {}) = Rest /\ Rest \in Points
  BY <1>3, NothingBeforePools, AtFacts DEF Rest
<1>5. Runs(Device', u, <<>>, Rest, Rest)
  BY <1>4, RunsNone
<1>6. {} \in SUBSET Parts /\ {} \subseteq Sent(u)' /\ {} \cap Under(u)' = {}
  OBVIOUS
<1>7. Runs(Device', u, todo'[u], At(HeldBy(u)', Sent(u)', {}), Rest)
  BY <1>2, <1>4, <1>5
<1> QED
  BY <1>6, <1>7 DEF ThreadInv

LEMMA InvInit == Init => Inv
<1> SUFFICES ASSUME Init
             PROVE  Inv
  OBVIOUS
<1>1. DeviceInv
  BY DeviceInit
<1>2. TypeInv
  BY DEF TypeInv, Init
<1>3. IdleInv
  BY DEF IdleInv, Init
<1>4. ASSUME NEW th \in Threads
      PROVE  ThreadInv(th)
  <2>1. HeldBy(th) = {}
    BY DEF HeldBy, Init
  <2>2. Under(th) = {}
    <3>1. \A t \in Types : gpu[t] = <<>> /\ Range(gpu[t]) = {}
      BY DEF Init, Range
    <3> QED
      BY <3>1 DEF Under, Pending
  <2>3. Sent(th) = {} /\ todo[th] = <<>>
    BY <2>2 DEF Sent, Init
  <2>4. Rest \in Points /\ At(HeldBy(th), Sent(th), {}) = Rest
    BY <2>1, <2>3, NothingBeforePools, AtFacts DEF Rest
  <2>5. Runs(Device, th, <<>>, Rest, Rest)
    BY <2>4, RunsNone
  <2> QED
    BY <2>2, <2>3, <2>4, <2>5 DEF ThreadInv
<1> QED
  BY <1>1, <1>2, <1>3, <1>4 DEF Inv

LEMMA InvStep == Inv /\ [Next]_vars => Inv'
<1> SUFFICES ASSUME Inv, [Next]_vars
             PROVE  Inv'
  OBVIOUS
<1>1. DeviceInv /\ TypeInv /\ IdleInv /\ \A u \in Threads : ThreadInv(u)
  BY DEF Inv
<1>2. DeviceInv'
  BY <1>1, DeviceStep
<1>3. CASE Construct
  <2>1. UNCHANGED <<qfp, todo, holder, gpu, executed, m_texture, m_garbage>>
    BY <1>3 DEF Construct
  <2>2. \A u \in Threads : ThreadInv(u)'
    BY <1>3, <2>1, ConstructStep
  <2>3. TypeInv' /\ IdleInv'
    BY <1>1, <2>1 DEF TypeInv, IdleInv
  <2> QED
    BY <1>2, <2>2, <2>3 DEF Inv
<1>4. CASE Forget
  <2>1. UNCHANGED <<todo, holder, gpu, executed, m_texture, m_garbage>> /\ qfp' = <<>>
    BY <1>4 DEF Forget
  <2>2. \A u \in Threads : ThreadInv(u)'
    BY <1>4, <2>1, ConstructStep
  <2>3. TypeInv' /\ IdleInv'
    BY <1>1, <2>1 DEF TypeInv, IdleInv
  <2> QED
    BY <1>2, <2>2, <2>3 DEF Inv
<1>5. CASE UNCHANGED vars
  <2>1. UNCHANGED <<deviceVars, todo, holder, gpu, executed, m_texture, m_garbage>> /\ UNCHANGED qfp
    BY <1>5 DEF vars, deviceVars
  <2>2. Device' = Device
    BY <2>1 DEF Device, deviceVars
  <2>3. \A u \in Threads : ThreadInv(u)'
    BY <1>1, <2>1, <2>2, KeepsLocks, KeepsWork, ThreadStays
  <2>4. TypeInv' /\ IdleInv'
    BY <1>1, <2>1 DEF TypeInv, IdleInv
  <2> QED
    BY <1>2, <2>3, <2>4 DEF Inv
<1>6. ASSUME NEW th \in Threads, Enqueue(th)
      PROVE  Inv'
  <2>1. UNCHANGED <<qfp, gpu, executed, m_texture, m_garbage>> /\ qfp = <<>>
    BY <1>6 DEF Enqueue, deviceVars, Running
  <2>2. todo' \in [Threads -> Seq(Instructions)] /\ \A u \in Threads : ThreadInv(u)'
    BY <1>1, <1>6, EnqueueStep
  <2>3. TypeInv' /\ IdleInv'
    BY <1>1, <2>1, <2>2 DEF TypeInv, IdleInv
  <2> QED
    BY <1>2, <2>2, <2>3 DEF Inv
<1>7. ASSUME NEW th \in Threads, Step(th)
      PROVE  Inv'
  <2>1. todo[th] # <<>> /\ UNCHANGED qfp
    BY <1>7 DEF Step, Lock, Unlock, TouchLocked, PoolCall, QueueCall, HostCopy, WaitFence, SetTexture, PutGarbage,
                ReapGarbage, Does, deviceVars
  <2>2. qfp = <<>> /\ IdleInv'
    BY <1>1, <2>1 DEF IdleInv
  <2>3. CASE Lock(th) \/ TouchLocked(th) \/ Unlock(th) \/ PoolCall(th)
               \/ (QueueCall(th) /\ Does(th, "present")) \/ PutGarbage(th)
    <3>1. /\ todo' \in [Threads -> Seq(Instructions)] /\ \A u \in Threads : ThreadInv(u)'
          /\ UNCHANGED <<deviceVars, gpu, executed, m_texture>>
          /\ m_garbage' \subseteq {"Graphic", "Transfer"} \X Works
      BY <1>1, <2>3, LocksStep
    <3>2. TypeInv'
      BY <1>1, <3>1 DEF TypeInv
    <3> QED
      BY <1>2, <2>2, <3>1, <3>2 DEF Inv
  <2>4. CASE QueueCall(th) /\ Does(th, "submit")
    <3>1. /\ todo' \in [Threads -> Seq(Instructions)] /\ \A u \in Threads : ThreadInv(u)'
          /\ gpu' \in [Types -> Seq(Works)]
          /\ UNCHANGED <<deviceVars, executed, m_texture, m_garbage>>
      BY <1>1, <2>2, <2>4, SubmitStep
    <3>2. TypeInv'
      BY <1>1, <3>1 DEF TypeInv
    <3> QED
      BY <1>2, <2>2, <3>1, <3>2 DEF Inv
  <2>5. CASE HostCopy(th)
    <3>1. /\ todo' \in [Threads -> Seq(Instructions)] /\ \A u \in Threads : ThreadInv(u)'
          /\ executed' \in [Threads -> SUBSET Parts]
          /\ UNCHANGED <<deviceVars, gpu, m_texture, m_garbage>>
      BY <1>1, <2>5, HostCopyStep
    <3>2. TypeInv'
      BY <1>1, <3>1 DEF TypeInv
    <3> QED
      BY <1>2, <2>2, <3>1, <3>2 DEF Inv
  <2>6. CASE WaitFence(th)
    <3>1. /\ todo' \in [Threads -> Seq(Instructions)] /\ \A u \in Threads : ThreadInv(u)'
          /\ UNCHANGED <<deviceVars, gpu, executed, m_texture, m_garbage>>
      BY <1>1, <2>6, WaitStep
    <3>2. TypeInv'
      BY <1>1, <3>1 DEF TypeInv
    <3> QED
      BY <1>2, <2>2, <3>1, <3>2 DEF Inv
  <2>7. CASE SetTexture(th)
    <3>1. /\ todo' \in [Threads -> Seq(Instructions)] /\ \A u \in Threads : ThreadInv(u)'
          /\ executed' \in [Threads -> SUBSET Parts] /\ m_texture' \in Uploads
          /\ UNCHANGED <<deviceVars, gpu, m_garbage>>
      BY <1>1, <2>7, SetTextureStep
    <3>2. TypeInv'
      BY <1>1, <3>1 DEF TypeInv
    <3> QED
      BY <1>2, <2>2, <3>1, <3>2 DEF Inv
  <2>8. CASE ReapGarbage(th)
    <3>1. /\ todo' \in [Threads -> Seq(Instructions)] /\ \A u \in Threads : ThreadInv(u)'
          /\ m_garbage' \subseteq {"Graphic", "Transfer"} \X Works
          /\ UNCHANGED <<deviceVars, gpu, executed, m_texture>>
      BY <1>1, <2>8, ReapStep
    <3>2. TypeInv'
      BY <1>1, <3>1 DEF TypeInv
    <3> QED
      BY <1>2, <2>2, <3>1, <3>2 DEF Inv
  <2>9. QueueCall(th) => Does(th, "submit") \/ Does(th, "present")
    BY DEF QueueCall
  <2> QED
    BY <1>7, <2>3, <2>4, <2>5, <2>6, <2>7, <2>8, <2>9 DEF Step
<1>8. ASSUME NEW t \in Types, GpuDone(t)
      PROVE  Inv'
  <2>1. /\ \A u \in Threads : ThreadInv(u)'
        /\ gpu' \in [Types -> Seq(Works)] /\ executed' \in [Threads -> SUBSET Parts]
        /\ UNCHANGED <<deviceVars, todo, m_texture, m_garbage>>
    BY <1>1, <1>8, GpuStep
  <2>2. TypeInv' /\ IdleInv'
    BY <1>1, <2>1 DEF TypeInv, IdleInv, deviceVars
  <2> QED
    BY <1>2, <2>1, <2>2 DEF Inv
<1> QED
  BY <1>3, <1>4, <1>5, <1>6, <1>7, <1>8 DEF Next, Unused

\* What each thread has still to do leads from the locks it holds, and from what it has
\* submitted and waited for, to rest.
THEOREM SharingInvariant == Spec => []Inv
BY InvInit, InvStep, PTL DEF Spec
-----------------------------------------------------------------------------
(* What follows from it.                                                   *)

\* A thread touches only the queues and pools whose locks it holds.
LEMMA TouchedIsHeld ==
    ASSUME Inv, NEW th \in Threads
    PROVE  Touched(th) \subseteq HeldBy(th)
<1>1. CASE todo[th] = <<>>
  BY <1>1 DEF Touched
<1>2. CASE todo[th] # <<>>
  <2> DEFINE e == Next1(th)
  <2>1. PICK seen \in SUBSET Parts, c \in Points : Allowed(Device, th, e, At(HeldBy(th), Sent(th), seen), c)
    BY <1>2, NextIsAllowed DEF Inv
  <2> DEFINE a == At(HeldBy(th), Sent(th), seen)
  <2>2. a.held = HeldBy(th)
    BY AtFacts
  <2> HIDE DEF a, e
  <2>3. Means(Device, th, e, a, c)
    BY <2>1, AllowedIs DEF a
  <2>4. e[1] \in {"begin", "commands"} => <<"pool", m_commandPool[e[2]]>> \in HeldBy(th)
    BY <2>2, <2>3, DeviceLocks DEF Means, PoolLock
  <2>5. e[1] \in {"submit", "present"} => <<"queue", m_queue[e[2]]>> \in HeldBy(th)
    <3>1. m_queue = m_queueLock
      BY DEF Inv, DeviceInv
    <3> QED
      BY <2>2, <2>3, <3>1, DeviceLocks DEF Means, QueueLock
  <2>6. Touched(th) = CASE e[1] \in {"begin", "commands"} -> {<<"pool", m_commandPool[e[2]]>>}
                        [] e[1] \in {"submit", "present"} -> {<<"queue", m_queue[e[2]]>>}
                        [] OTHER -> {}
    BY <1>2, Zenon DEF Touched, e
  <2>7. CASE e[1] \in {"begin", "commands"}
    BY <2>4, <2>6, <2>7
  <2>8. CASE e[1] \in {"submit", "present"}
    BY <2>5, <2>6, <2>8
  <2>9. CASE e[1] \notin {"begin", "commands", "submit", "present"}
    BY <2>6, <2>9
  <2> QED
    BY <2>7, <2>8, <2>9
<1> QED
  BY <1>1, <1>2

\* Of the queues and pools that Vulkan wants synchronized none is touched by two threads,
\* on whatever machine the device was made and however often the threads ran.
THEOREM QueuesAndPoolsAreLocked == Spec => []ExternallySynchronized
<1>1. Inv => ExternallySynchronized
  <2> SUFFICES ASSUME Inv, NEW a \in Threads, NEW b \in Threads, a # b
               PROVE  Touched(a) \cap Touched(b) = {}
    BY DEF ExternallySynchronized
  <2>1. Touched(a) \subseteq HeldBy(a) /\ Touched(b) \subseteq HeldBy(b)
    BY TouchedIsHeld
  <2> QED
    BY <2>1 DEF HeldBy
<1> QED
  BY <1>1, SharingInvariant, PTL

\* The texture shown was executed, all of it, before the view got it.
THEOREM ShownTextureIsUploaded == Spec => []DrawnWhenReady
<1>1. Inv => DrawnWhenReady
  BY DEF Inv, TypeInv, Uploads, DrawnWhenReady
<1> QED
  BY <1>1, SharingInvariant, PTL

\* The order of the locks has no circle: of the threads that would wait for each other,
\* the one that wants the lock of the highest rank waits for a thread that wants a higher one.
THEOREM NobodyWaitsForItself == Spec => []NoCircularWait
<1>1. Inv => NoCircularWait
  <2> SUFFICES ASSUME Inv, NEW S \in (SUBSET Threads) \ {{}}, \A th \in S : WaitsFor(th) \cap S # {}
               PROVE  FALSE
    BY DEF NoCircularWait
  <2> DEFINE wanted(th) == Next1(th)[2]
  <2>1. ASSUME NEW th \in S
        PROVE  /\ wanted(th) \in Locks /\ wanted(th) \in DOMAIN holder /\ holder[wanted(th)] \in S
               /\ \A l \in HeldBy(th) : RankOf(l) < RankOf(wanted(th))
    <3>1. Does(th, "lock") \/ Does(th, "touch")
      BY <2>1 DEF WaitsFor
    <3>2. wanted(th) \in DOMAIN holder /\ holder[wanted(th)] \in S
      BY <2>1, <3>1 DEF WaitsFor
    <3>3. todo[th] # <<>> /\ Next1(th)[1] \in {"lock", "touch"} /\ th \in Threads
      BY <3>1 DEF Does
    <3> DEFINE e == Next1(th)
    <3>4. PICK seen \in SUBSET Parts, c \in Points : Allowed(Device, th, e, At(HeldBy(th), Sent(th), seen), c)
      BY <3>3, NextIsAllowed DEF Inv
    <3> DEFINE a == At(HeldBy(th), Sent(th), seen)
    <3>5. a.held = HeldBy(th)
      BY AtFacts
    <3>6. e[1] \in {"lock", "touch"} /\ wanted(th) = e[2]
      BY <3>3
    <3> HIDE DEF a, e, wanted
    <3>7. Means(Device, th, e, a, c)
      BY <3>4, AllowedIs DEF a
    <3>8. Free(e[2], HeldBy(th))
      BY <3>5, <3>6, <3>7 DEF Means
    <3> QED
      BY <3>2, <3>6, <3>8 DEF Free
  <2> HIDE DEF wanted
  <2> DEFINE below == {5 - RankOf(wanted(th)) : th \in S}
  <2>2. \A th \in S : RankOf(wanted(th)) \in 1 .. 5
    BY <2>1, LockFacts
  <2>3. below \in SUBSET Nat /\ below # {}
    BY <2>2
  <2> HIDE DEF below
  <2>4. Min(below) \in below /\ \A y \in below : Min(below) <= y
    BY <2>3, LeastOf
  <2>5. PICK th \in S : Min(below) = 5 - RankOf(wanted(th))
    BY <2>4 DEF below
  <2>6. \A u \in S : RankOf(wanted(u)) <= RankOf(wanted(th))
    <3> TAKE u \in S
    <3>1. 5 - RankOf(wanted(th)) <= 5 - RankOf(wanted(u))
      BY <2>4, <2>5 DEF below
    <3> QED
      BY <2>2, <3>1
  <2> DEFINE u == holder[wanted(th)]
  <2>7. u \in S /\ wanted(th) \in HeldBy(u)
    BY <2>1 DEF HeldBy
  <2>8. RankOf(wanted(th)) < RankOf(wanted(u))
    BY <2>1, <2>7
  <2> QED
    BY <2>2, <2>6, <2>7, <2>8
<1> QED
  BY <1>1, SharingInvariant, PTL
=============================================================================

-------------------------- MODULE LockFreeQueueProofs --------------------------
(***************************************************************************)
(* Proofs about LockFreeQueue, for any number of threads and items: the    *)
(* list stays a list, its tail leads to its end, and it implements         *)
(* BoundedFifo, whatever dequeue finds in its local tail and up to the     *)
(* first race.                                                             *)
(***************************************************************************)
EXTENDS LockFreeQueue, Integers, SequenceTheorems, FiniteSetTheorems,
        InductionTheorems

-----------------------------------------------------------------------------
(* The invariant.  path is every node that was ever linked, in order.      *)

TypeOK ==
  /\ next \in [Nodes -> Items \cup {Null}]
  /\ head \in Nodes /\ tail \in Nodes
  /\ pc \in [Threads -> {"idle", "copy", "again", "link", "help", "swing", "take"}]
  /\ new_node \in [Producers -> Items \cup {Null}]
  /\ old \in [Threads -> Nodes \cup {Null}]
  /\ seen \in [Threads -> Items \cup {Null}]
  /\ taken \in Seq(Items)

\* The links nx lead along path and nowhere else.
IsList(path, nx) ==
  /\ path \in Seq(Nodes) /\ path # <<>>
  /\ \A i, j \in 1 .. Len(path) : path[i] = path[j] => i = j
  /\ \A i \in 1 .. Len(path) - 1 : nx[path[i]] = path[i + 1]
  /\ nx[path[Len(path)]] = Null
  /\ \A n \in Nodes : n \notin Range(path) => nx[n] = Null

\* head has come as far as items were taken, tail is anywhere on the path.
ListInv(path) ==
  /\ IsList(path, next)
  /\ path[1] = Dummy
  /\ Len(taken) < Len(path)
  /\ \A k \in 1 .. Len(taken) : taken[k] = path[k + 1]
  /\ head = path[Len(taken) + 1]
  /\ tail \in Range(path)

\* A copy that a thread goes on with may be old, but it is of a linked node.
ProducerInv(p, path) ==
  /\ pc[p] \in {"idle", "copy", "again", "link", "help", "swing"}
  /\ pc[p] = "idle" <=> new_node[p] = Null
  /\ pc[p] \in {"copy", "again", "link", "help"} => new_node[p] \notin Range(path)
  /\ pc[p] = "swing" => new_node[p] \in Range(path)
  /\ pc[p] = "link" => old[p] \in Range(path)
  /\ pc[p] = "help" => seen[p] \in Range(path)

\* The link a consumer has read does not change any more.
ConsumerInv(c, path) ==
  pc[c] = "take" =>
    old[c] \in Range(path) /\ seen[c] # Null /\ seen[c] = next[old[c]]

ThreadInv(path) ==
  /\ \A p \in Producers : ProducerInv(p, path)
  /\ \A p, q \in Producers : new_node[p] = new_node[q] /\ new_node[p] # Null => p = q
  /\ \A c \in Consumers : ConsumerInv(c, path)

PathInv(path) == ListInv(path) /\ ThreadInv(path)

IInv == TypeOK /\ \E path \in Seq(Nodes) : PathInv(path)

-----------------------------------------------------------------------------
(* Lists.                                                                  *)

LEMMA PathFacts ==
  ASSUME NEW path \in Seq(Nodes)
  PROVE  /\ Len(path) \in Nat /\ DOMAIN path = 1 .. Len(path)
         /\ Range(path) = {path[i] : i \in 1 .. Len(path)}
         /\ \A i \in 1 .. Len(path) : path[i] \in Nodes
         /\ path # <<>> => Len(path) > 0
BY DEF Range

\* The rest of a list, one node at a time.
LEMMA RestFacts ==
  ASSUME NEW path \in Seq(Nodes), NEW i \in 1 .. Len(path)
  PROVE  /\ SubSeq(path, i + 1, Len(path)) \in Seq(Nodes)
         /\ i = Len(path) => SubSeq(path, i + 1, Len(path)) = <<>>
         /\ i # Len(path) => SubSeq(path, i + 1, Len(path))
              = <<path[i + 1]>> \o SubSeq(path, i + 2, Len(path))
<1>1. Len(path) \in Nat /\ \A k \in 1 .. Len(path) : path[k] \in Nodes
  BY PathFacts
<1>2. SubSeq(path, i + 1, Len(path)) \in Seq(Nodes)
  <2>1. \A k \in i + 1 .. Len(path) : path[k] \in Nodes  BY <1>1
  <2> QED  BY <1>1, <2>1, SubSeqProperties
<1>3. i = Len(path) => SubSeq(path, i + 1, Len(path)) = <<>>
  BY <1>1, SubSeqEmpty
<1>4. ASSUME i # Len(path)
      PROVE  SubSeq(path, i + 1, Len(path)) = <<path[i + 1]>> \o SubSeq(path, i + 2, Len(path))
  <2>1. i + 1 \in 1 .. Len(path) /\ Len(path) \in i + 1 .. Len(path)
    BY <1>1, <1>4
  <2>2. SubSeq(path, i + 1, Len(path))
          = <<path[i + 1]>> \o SubSeq(path, (i + 1) + 1, Len(path))
    BY <2>1, SubSeqRecursiveFirst
  <2>3. (i + 1) + 1 = i + 2  BY <1>1
  <2> QED  BY <2>2, <2>3
<1> QED  BY <1>2, <1>3, <1>4

\* The equation that defines Behind.
IsBehind(b, nx) ==
  b = [n \in Nodes |-> IF nx[n] = Null THEN <<>> ELSE <<nx[n]>> \o b[nx[n]]]

\* What Behind computes: its equation has a solution, and every solution has
\* the rest of the list at each of its nodes.
LEMMA BehindFacts ==
  ASSUME NEW nx, NEW path, IsList(path, nx)
  PROVE  /\ \E b : IsBehind(b, nx)
         /\ \A b : IsBehind(b, nx) =>
              \A i \in 1 .. Len(path) : b[path[i]] = SubSeq(path, i + 1, Len(path))
<1> DEFINE Rest(i) == SubSeq(path, i + 1, Len(path))
           Place(n) == CHOOSE i \in 1 .. Len(path) : path[i] = n
           b0 == [n \in Nodes |-> IF n \in Range(path) THEN Rest(Place(n)) ELSE <<>>]
<1>1. /\ path \in Seq(Nodes) /\ Len(path) \in Nat /\ Len(path) > 0
      /\ Range(path) = {path[i] : i \in 1 .. Len(path)}
      /\ \A i \in 1 .. Len(path) : path[i] \in Nodes
  BY PathFacts DEF IsList
<1>2. \A i \in 1 .. Len(path) : b0[path[i]] = Rest(i)
  <2> SUFFICES ASSUME NEW i \in 1 .. Len(path) PROVE b0[path[i]] = Rest(i)
    OBVIOUS
  <2>1. path[i] \in Nodes /\ path[i] \in Range(path)  BY <1>1
  <2>2. Place(path[i]) = i
    <3>1. Place(path[i]) \in 1 .. Len(path) /\ path[Place(path[i])] = path[i]
      OBVIOUS
    <3> QED  BY <3>1 DEF IsList
  <2> QED  BY <2>1, <2>2
<1>3. \A i \in 1 .. Len(path) :
        /\ i = Len(path) => nx[path[i]] = Null /\ Rest(i) = <<>>
        /\ i # Len(path) =>
             /\ i + 1 \in 1 .. Len(path)
             /\ nx[path[i]] = path[i + 1] /\ nx[path[i]] # Null
             /\ Rest(i) = <<path[i + 1]>> \o Rest(i + 1)
  <2> SUFFICES ASSUME NEW i \in 1 .. Len(path)
               PROVE  /\ i = Len(path) => nx[path[i]] = Null /\ Rest(i) = <<>>
                      /\ i # Len(path) =>
                           /\ i + 1 \in 1 .. Len(path)
                           /\ nx[path[i]] = path[i + 1] /\ nx[path[i]] # Null
                           /\ Rest(i) = <<path[i + 1]>> \o Rest(i + 1)
    OBVIOUS
  <2>1. i = Len(path) => nx[path[i]] = Null /\ Rest(i) = <<>>
    BY <1>1, RestFacts DEF IsList
  <2>2. ASSUME i # Len(path)
        PROVE  /\ i + 1 \in 1 .. Len(path)
               /\ nx[path[i]] = path[i + 1] /\ nx[path[i]] # Null
               /\ Rest(i) = <<path[i + 1]>> \o Rest(i + 1)
    <3>1. i \in 1 .. Len(path) - 1 /\ i + 1 \in 1 .. Len(path) /\ i + 2 = (i + 1) + 1
      BY <1>1, <2>2
    <3>2. nx[path[i]] = path[i + 1]  BY <3>1 DEF IsList
    <3>3. Null \notin Nodes  BY LockFreeAssumption DEF Nodes
    <3>4. nx[path[i]] # Null  BY <1>1, <3>1, <3>2, <3>3
    <3>5. Rest(i) = <<path[i + 1]>> \o SubSeq(path, i + 2, Len(path))
      BY <1>1, <2>2, RestFacts
    <3> QED  BY <3>1, <3>2, <3>4, <3>5
  <2> QED  BY <2>1, <2>2
<1> HIDE DEF Rest, Place
<1>4. IsBehind(b0, nx)
  <2> SUFFICES ASSUME NEW n \in Nodes
               PROVE  b0[n] = IF nx[n] = Null THEN <<>> ELSE <<nx[n]>> \o b0[nx[n]]
    BY DEF IsBehind
  <2>1. CASE n \notin Range(path)
    BY <2>1 DEF IsList
  <2>2. CASE n \in Range(path)
    <3>1. PICK i \in 1 .. Len(path) : n = path[i]  BY <1>1, <2>2
    <3>2. b0[n] = Rest(i)  BY <1>2, <3>1
    <3> HIDE DEF b0
    <3>3. CASE i = Len(path)  BY <1>3, <3>1, <3>2, <3>3
    <3>4. CASE i # Len(path)
      <4>1. b0[nx[n]] = Rest(i + 1)  BY <1>2, <1>3, <3>1, <3>4
      <4> QED  BY <1>3, <3>1, <3>2, <3>4, <4>1
    <3> QED  BY <3>3, <3>4
  <2> QED  BY <2>1, <2>2
<1>5. ASSUME NEW B, IsBehind(B, nx), NEW i \in 1 .. Len(path)
      PROVE  B[path[i]] = Rest(i)
  <2> DEFINE S == {k \in Nat : k < Len(path) => B[path[Len(path) - k]] = Rest(Len(path) - k)}
  <2>1. \A k \in 1 .. Len(path) :
          B[path[k]] = IF nx[path[k]] = Null THEN <<>> ELSE <<nx[path[k]]>> \o B[nx[path[k]]]
    BY <1>1, <1>5 DEF IsBehind
  <2>2. 0 \in S
    <3>1. Len(path) - 0 = Len(path) /\ Len(path) \in 1 .. Len(path)  BY <1>1
    <3>2. B[path[Len(path)]] = Rest(Len(path))  BY <1>3, <2>1, <3>1
    <3> QED  BY <3>1, <3>2
  <2>3. ASSUME NEW k \in Nat, k \in S PROVE k + 1 \in S
    <3> SUFFICES ASSUME k + 1 < Len(path)
                 PROVE  B[path[Len(path) - (k + 1)]] = Rest(Len(path) - (k + 1))
      OBVIOUS
    <3> DEFINE j == Len(path) - (k + 1)
    <3>1. j \in 1 .. Len(path) /\ j # Len(path) /\ j + 1 = Len(path) - k  BY <1>1
    <3>2. B[path[j + 1]] = Rest(j + 1)
      <4>1. k < Len(path)  BY <1>1
      <4> QED  BY <2>3, <3>1, <4>1
    <3> HIDE DEF j
    <3>3. /\ nx[path[j]] = path[j + 1] /\ nx[path[j]] # Null
          /\ Rest(j) = <<path[j + 1]>> \o Rest(j + 1)
      BY <1>3, <3>1
    <3>4. B[path[j]] = <<nx[path[j]]>> \o B[nx[path[j]]]  BY <2>1, <3>1, <3>3
    <3>5. B[path[j]] = Rest(j)  BY <3>2, <3>3, <3>4
    <3> QED  BY <3>5 DEF j
  <2>4. Nat \subseteq S
    <3> HIDE DEF S
    <3> QED  BY <2>2, <2>3, NatInSet
  <2>5. Len(path) - i \in Nat /\ Len(path) - i < Len(path)
        /\ Len(path) - (Len(path) - i) = i
    BY <1>1
  <2>6. Len(path) - i \in S  BY <2>4, <2>5
  <2> QED  BY <2>5, <2>6
<1>6. \E b : IsBehind(b, nx)
  <2> HIDE DEF b0
  <2> QED  BY <1>4
<1> QED  BY <1>5, <1>6 DEF Rest

LEMMA BehindIsRest ==
  ASSUME NEW path, IsList(path, next)
  PROVE  \A i \in 1 .. Len(path) : Behind[path[i]] = SubSeq(path, i + 1, Len(path))
<1>1. IsBehind(Behind, next)
  <2>1. \E b : IsBehind(b, next)  BY BehindFacts
  <2> QED  BY <2>1 DEF Behind, IsBehind
<1> QED  BY <1>1, BehindFacts

LEMMA BehindIsRestNext ==
  ASSUME NEW path, IsList(path, next')
  PROVE  \A i \in 1 .. Len(path) : Behind'[path[i]] = SubSeq(path, i + 1, Len(path))
<1>1. IsBehind(Behind', next')
  <2>1. \E b : IsBehind(b, next')  BY BehindFacts
  <2> QED  BY <2>1 DEF Behind, IsBehind
<1> QED  BY <1>1, BehindFacts

-----------------------------------------------------------------------------
(* The invariance proof.                                                   *)

LEMMA Separate ==
  /\ Null \notin Nodes /\ Dummy \notin Items /\ Items \subseteq Nodes
  /\ Producers \subseteq Threads /\ Consumers \subseteq Threads
  /\ \A p \in Producers : p \notin Consumers
BY LockFreeAssumption DEF Nodes, Threads

LEMMA InitIInv == Init => IInv
<1> SUFFICES ASSUME Init PROVE IInv
  OBVIOUS
<1> DEFINE path == <<Dummy>>
<1>1. path \in Seq(Nodes) /\ Len(path) = 1 /\ path[1] = Dummy /\ path # <<>>
  BY DEF Nodes
<1>2. Range(path) = {Dummy}
  <2>1. Range(path) = {path[i] : i \in 1 .. Len(path)}  BY <1>1, PathFacts
  <2> HIDE DEF path
  <2> QED  BY <1>1, <2>1
<1> HIDE DEF path
<1>3. IsList(path, next)
  BY <1>1, <1>2 DEF Init, IsList, Nodes
<1>4. ListInv(path)
  <2>1. Len(taken) = 0  BY DEF Init
  <2> QED  BY <1>1, <1>2, <1>3, <2>1 DEF Init, ListInv
<1>5. ThreadInv(path)
  BY Separate DEF Init, ThreadInv, ProducerInv, ConsumerInv
<1>6. TypeOK
  BY DEF Init, TypeOK, Nodes
<1> QED  BY <1>1, <1>4, <1>5, <1>6 DEF IInv, PathInv

\* What the links lead to.
LEMMA LinkFacts ==
  ASSUME NEW path, IsList(path, next), NEW n \in Range(path)
  PROVE  /\ n \in Nodes
         /\ next[n] # Null => next[n] \in Range(path)
         /\ next[n] = Null => n = path[Len(path)]
<1>1. /\ path \in Seq(Nodes) /\ Len(path) \in Nat /\ Len(path) > 0
      /\ Range(path) = {path[i] : i \in 1 .. Len(path)}
      /\ \A i \in 1 .. Len(path) : path[i] \in Nodes
  BY PathFacts DEF IsList
<1>2. PICK i \in 1 .. Len(path) : n = path[i]  BY <1>1
<1>3. CASE i = Len(path)  BY <1>1, <1>2, <1>3 DEF IsList
<1>4. CASE i # Len(path)
  <2>1. i \in 1 .. Len(path) - 1 /\ i + 1 \in 1 .. Len(path)  BY <1>1, <1>4
  <2>2. next[n] = path[i + 1]  BY <1>2, <2>1 DEF IsList
  <2> QED  BY <1>1, <1>2, <2>1, <2>2, Separate
<1> QED  BY <1>3, <1>4

\* A new node behind the last one.
LEMMA LinkedList ==
  ASSUME NEW path, IsList(path, next), NEW n \in Nodes, n \notin Range(path),
         next \in [Nodes -> Items \cup {Null}],
         next' = [next EXCEPT ![path[Len(path)]] = n]
  PROVE  /\ Append(path, n) \in Seq(Nodes)
         /\ Len(Append(path, n)) = Len(path) + 1
         /\ \A i \in 1 .. Len(path) : Append(path, n)[i] = path[i]
         /\ Append(path, n)[Len(path) + 1] = n
         /\ Range(Append(path, n)) = Range(path) \cup {n}
         /\ IsList(Append(path, n), next')
<1>1. /\ path \in Seq(Nodes) /\ Len(path) \in Nat /\ Len(path) > 0
      /\ Range(path) = {path[i] : i \in 1 .. Len(path)}
      /\ \A i \in 1 .. Len(path) : path[i] \in Nodes
  BY PathFacts DEF IsList
<1> DEFINE longer == Append(path, n)
<1>2. /\ longer \in Seq(Nodes) /\ longer # <<>>
      /\ Len(longer) = Len(path) + 1
      /\ \A i \in 1 .. Len(path) : longer[i] = path[i]
      /\ longer[Len(path) + 1] = n
  BY <1>1, AppendProperties
<1> HIDE DEF longer
<1>3. \A i \in 1 .. Len(path) + 1 : i \in 1 .. Len(path) \/ i = Len(path) + 1
  BY <1>1
<1>4. Range(longer) = Range(path) \cup {n}
  <2>1. Range(longer) = {longer[i] : i \in 1 .. Len(path) + 1}
    BY <1>2, PathFacts
  <2>2. Len(path) + 1 \in 1 .. Len(path) + 1
        /\ \A i \in 1 .. Len(path) : i \in 1 .. Len(path) + 1
    BY <1>1
  <2> QED  BY <1>1, <1>2, <1>3, <2>1, <2>2
<1>5. \A i, j \in 1 .. Len(longer) : longer[i] = longer[j] => i = j
  <2> SUFFICES ASSUME NEW i \in 1 .. Len(path) + 1, NEW j \in 1 .. Len(path) + 1,
                      longer[i] = longer[j]
               PROVE  i = j
    BY <1>2
  <2>1. \A k \in 1 .. Len(path) : path[k] # n  BY <1>1
  <2>2. \A k, l \in 1 .. Len(path) : path[k] = path[l] => k = l  BY DEF IsList
  <2> QED  BY <1>2, <1>3, <2>1, <2>2
<1>6. n \in Nodes /\ path[Len(path)] \in Nodes /\ path[Len(path)] # n
      /\ path[Len(path)] \in Range(path)
  BY <1>1
<1>7. \A i \in 1 .. Len(longer) - 1 : next'[longer[i]] = longer[i + 1]
  <2> SUFFICES ASSUME NEW i \in 1 .. Len(path) PROVE next'[longer[i]] = longer[i + 1]
    BY <1>1, <1>2
  <2>1. CASE i = Len(path)
    BY <1>1, <1>2, <1>6, <2>1
  <2>2. CASE i # Len(path)
    <3>1. i \in 1 .. Len(path) - 1 /\ i + 1 \in 1 .. Len(path)
          /\ Len(path) \in 1 .. Len(path)
      BY <1>1, <2>2
    <3>2. path[i] # path[Len(path)]  BY <2>2, <3>1 DEF IsList
    <3>3. next'[path[i]] = next[path[i]]  BY <1>1, <3>2
    <3>4. next[path[i]] = path[i + 1]  BY <3>1 DEF IsList
    <3> QED  BY <1>2, <3>1, <3>3, <3>4
  <2> QED  BY <2>1, <2>2
<1>8. next'[longer[Len(longer)]] = Null
  <2>1. next[n] = Null  BY DEF IsList
  <2>2. next'[n] = next[n]  BY <1>6
  <2> QED  BY <1>2, <2>1, <2>2
<1>9. \A m \in Nodes : m \notin Range(longer) => next'[m] = Null
  <2> SUFFICES ASSUME NEW m \in Nodes, m \notin Range(longer) PROVE next'[m] = Null
    OBVIOUS
  <2>1. m \notin Range(path) /\ m # path[Len(path)]  BY <1>4, <1>6
  <2>2. next[m] = Null  BY <2>1 DEF IsList
  <2> QED  BY <2>1, <2>2
<1>10. IsList(longer, next')
  BY <1>2, <1>5, <1>7, <1>8, <1>9 DEF IsList
<1> QED  BY <1>2, <1>4, <1>10 DEF longer

\* Steps that only move threads: the list is as before.
LEMMA ListStays ==
  ASSUME NEW path, ListInv(path), UNCHANGED <<next, head, tail, taken>>
  PROVE  ListInv(path)'
BY DEF ListInv, IsList

LEMMA EnqueuePreserves ==
  ASSUME TypeOK, NEW path \in Seq(Nodes), PathInv(path),
         NEW p \in Producers, NEW i \in Items, Enqueue(p, i)
  PROVE  TypeOK' /\ PathInv(path)'
<1>1. /\ pc[p] = "idle" /\ pc' = [pc EXCEPT ![p] = "copy"]
      /\ new_node' = [new_node EXCEPT ![p] = i]
      /\ \A q \in Producers : new_node[q] # i
      /\ i \notin Range(next) /\ i # Null /\ i \in Nodes /\ i # Dummy
      /\ UNCHANGED <<next, head, tail, old, seen, status, taken>>
  BY Separate DEF Enqueue, Goto, links
<1>2. TypeOK'  BY <1>1 DEF TypeOK, Threads
<1>3. ListInv(path)'  BY <1>1, ListStays DEF PathInv
<1>4. i \notin Range(path)
  <2>1. /\ Len(path) \in Nat /\ Range(path) = {path[k] : k \in 1 .. Len(path)}
        /\ \A k \in 1 .. Len(path) : path[k] \in Nodes
    BY PathFacts
  <2>2. SUFFICES ASSUME NEW k \in 1 .. Len(path), path[k] = i PROVE FALSE
    BY <2>1
  <2>3. k # 1  BY <1>1, <2>2 DEF PathInv, ListInv
  <2>4. k - 1 \in 1 .. Len(path) - 1 /\ (k - 1) + 1 = k /\ k - 1 \in 1 .. Len(path)
    BY <2>1, <2>3
  <2>5. next[path[k - 1]] = i  BY <2>2, <2>4 DEF PathInv, ListInv, IsList
  <2>6. path[k - 1] \in DOMAIN next  BY <2>1, <2>4 DEF TypeOK
  <2> QED  BY <1>1, <2>5, <2>6 DEF Range
<1>5. ThreadInv(path)'
  <2>1. \A q \in Producers : ProducerInv(q, path)'
    BY <1>1, <1>2, <1>4, Separate DEF PathInv, ThreadInv, ProducerInv, TypeOK
  <2>2. \A q, r \in Producers :
          new_node'[q] = new_node'[r] /\ new_node'[q] # Null => q = r
    BY <1>1 DEF PathInv, ThreadInv, TypeOK
  <2>3. \A c \in Consumers : ConsumerInv(c, path)'
    BY <1>1, Separate DEF PathInv, ThreadInv, ConsumerInv, TypeOK
  <2> QED  BY <2>1, <2>2, <2>3 DEF ThreadInv
<1> QED  BY <1>2, <1>3, <1>5 DEF PathInv

\* The copies of a round, and the beginnings of rounds.
LEMMA CopyPreserves ==
  ASSUME TypeOK, NEW path \in Seq(Nodes), PathInv(path), NEW t \in Threads,
         \/ t \in Consumers /\ (Dequeue(t) \/ ReadHead(t))
         \/ t \in Producers /\ ReadTail(t)
         \/ Retry(t)
  PROVE  TypeOK' /\ PathInv(path)'
<1>1. head \in Range(path) /\ tail \in Range(path)
  <2>1. /\ Len(path) \in Nat /\ Range(path) = {path[k] : k \in 1 .. Len(path)}
    BY PathFacts
  <2>2. Len(taken) + 1 \in 1 .. Len(path)
    BY <2>1 DEF PathInv, ListInv, TypeOK
  <2> QED  BY <2>1, <2>2 DEF PathInv, ListInv
<1>2. /\ head \in Nodes /\ tail \in Nodes
      /\ next[tail] # Null => next[tail] \in Range(path)
  BY <1>1, LinkFacts DEF PathInv, ListInv, TypeOK
<1>3. CASE t \in Consumers /\ Dequeue(t)
  <2>1. /\ pc[t] = "idle" /\ pc' = [pc EXCEPT ![t] = "copy"]
        /\ UNCHANGED <<next, head, tail, new_node, old, seen, status, taken>>
    BY <1>3 DEF Dequeue, Goto, links
  <2>2. TypeOK'  BY <2>1 DEF TypeOK
  <2>3. ListInv(path)'  BY <2>1, ListStays DEF PathInv
  <2>4. ThreadInv(path)'
    BY <1>3, <2>1, Separate DEF PathInv, ThreadInv, ProducerInv, ConsumerInv, TypeOK
  <2> QED  BY <2>2, <2>3, <2>4 DEF PathInv
<1>4. CASE Retry(t)
  <2>1. /\ pc[t] = "again" /\ pc' = [pc EXCEPT ![t] = "copy"]
        /\ UNCHANGED <<next, head, tail, new_node, old, seen, status, taken>>
    BY <1>4 DEF Retry, Goto, links
  <2>2. TypeOK'  BY <2>1 DEF TypeOK
  <2>3. ListInv(path)'  BY <2>1, ListStays DEF PathInv
  <2>4. ThreadInv(path)'
    BY <2>1, Separate DEF PathInv, ThreadInv, ProducerInv, ConsumerInv, TypeOK
  <2> QED  BY <2>2, <2>3, <2>4 DEF PathInv
<1>5. CASE t \in Producers /\ ReadTail(t)
  <2>1. /\ pc[t] = "copy"
        /\ pc' = [pc EXCEPT ![t] = IF next[tail] = Null THEN "link" ELSE "help"]
        /\ old' = [old EXCEPT ![t] = tail]
        /\ seen' = [seen EXCEPT ![t] = next[tail]]
        /\ UNCHANGED <<next, head, tail, new_node, status, taken>>
    BY <1>5 DEF ReadTail, Snapshot, Goto, links
  <2>2. TypeOK'  BY <1>2, <2>1 DEF TypeOK
  <2>3. ListInv(path)'  BY <2>1, ListStays DEF PathInv
  <2>4. \A q \in Producers : ProducerInv(q, path)'
    BY <1>1, <1>2, <1>5, <2>1, Separate DEF PathInv, ThreadInv, ProducerInv, TypeOK
  <2>5. ThreadInv(path)'
    BY <1>5, <2>1, <2>4, Separate DEF PathInv, ThreadInv, ConsumerInv, TypeOK
  <2> QED  BY <2>2, <2>3, <2>5 DEF PathInv
<1>6. CASE t \in Consumers /\ ReadHead(t)
  <2>1. /\ pc[t] = "copy"
        /\ old' = [old EXCEPT ![t] = head]
        /\ seen' = [seen EXCEPT ![t] = next[head]]
        /\ UNCHANGED <<next, head, tail, new_node, taken>>
        /\ \/ pc' = [pc EXCEPT ![t] = "idle"]
           \/ pc' = [pc EXCEPT ![t] = "again"]
           \/ next[head] # Null /\ pc' = [pc EXCEPT ![t] = "take"]
           \/ pc' = pc
    BY <1>6 DEF ReadHead, Snapshot, Goto, Again, links
  <2>2. TypeOK'  BY <1>2, <2>1 DEF TypeOK
  <2>3. ListInv(path)'  BY <2>1, ListStays DEF PathInv
  <2>4. \A c \in Consumers : ConsumerInv(c, path)'
    BY <1>1, <1>2, <1>6, <2>1, Separate DEF PathInv, ThreadInv, ConsumerInv, TypeOK
  <2>5. ThreadInv(path)'
    BY <1>6, <2>1, <2>4, Separate DEF PathInv, ThreadInv, ProducerInv, TypeOK
  <2> QED  BY <2>2, <2>3, <2>5 DEF PathInv
<1> QED  BY <1>3, <1>4, <1>5, <1>6

\* The exchange of next: it appends the new node to the path, or fails.
LEMMA LinkPreserves ==
  ASSUME TypeOK, NEW path \in Seq(Nodes), PathInv(path),
         NEW p \in Producers, Link(p), StillLast(old[p]),
         NEW longer, longer = Append(path, new_node[p])
  PROVE  /\ new_node[p] \in Items /\ new_node[p] \notin Range(path)
         /\ longer \in Seq(Nodes) /\ TypeOK' /\ PathInv(longer)'
<1> DEFINE n == new_node[p]
<1>1. /\ pc[p] = "link" /\ next[old[p]] = Null
      /\ next' = [next EXCEPT ![old[p]] = n]
      /\ pc' = [pc EXCEPT ![p] = "swing"]
      /\ UNCHANGED <<head, tail, new_node, old, seen, taken>>
  BY DEF Link, StillLast, Goto
<1>2. /\ n \in Items /\ n \in Nodes /\ n # Null /\ n \notin Range(path)
      /\ old[p] \in Range(path)
  BY <1>1, Separate DEF PathInv, ThreadInv, ProducerInv, TypeOK
<1>3. old[p] = path[Len(path)] /\ old[p] \in Nodes
  BY <1>1, <1>2, LinkFacts DEF PathInv, ListInv
<1>4. /\ longer \in Seq(Nodes) /\ Len(longer) = Len(path) + 1
      /\ \A i \in 1 .. Len(path) : longer[i] = path[i]
      /\ Range(longer) = Range(path) \cup {n}
      /\ IsList(longer, next')
  <2>1. IsList(path, next) /\ next \in [Nodes -> Items \cup {Null}]
    BY DEF PathInv, ListInv, TypeOK
  <2>2. next' = [next EXCEPT ![path[Len(path)]] = n]  BY <1>1, <1>3
  <2> HIDE DEF n
  <2> QED  BY <1>2, <2>1, <2>2, LinkedList DEF n
<1>5. TypeOK'  BY <1>1, <1>2, <1>3 DEF TypeOK, Threads
<1>6. ListInv(longer)'
  <2>1. /\ Len(path) \in Nat /\ Len(taken) \in Nat /\ Len(taken) < Len(path)
        /\ \A k \in 1 .. Len(taken) : taken[k] = path[k + 1]
        /\ head = path[Len(taken) + 1] /\ path[1] = Dummy /\ tail \in Range(path)
    BY PathFacts DEF PathInv, ListInv, TypeOK
  <2>2. /\ 1 \in 1 .. Len(path) /\ Len(taken) + 1 \in 1 .. Len(path)
        /\ \A k \in 1 .. Len(taken) : k + 1 \in 1 .. Len(path)
        /\ Len(taken) < Len(path) + 1
    BY <2>1
  <2>3. /\ longer[1] = Dummy /\ head' = longer[Len(taken') + 1]
        /\ \A k \in 1 .. Len(taken') : taken'[k] = longer[k + 1]
    BY <1>1, <1>4, <2>1, <2>2
  <2> QED  BY <1>1, <1>4, <2>1, <2>2, <2>3 DEF ListInv
<1>7. \A q \in Producers : ProducerInv(q, longer)'
  <2> SUFFICES ASSUME NEW q \in Producers PROVE ProducerInv(q, longer)'
    OBVIOUS
  <2>1. CASE q = p
    BY <1>1, <1>2, <1>4, <2>1, Separate DEF ProducerInv, TypeOK
  <2>2. CASE q # p
    <3>1. pc'[q] = pc[q]  BY <1>1, <2>2, Separate DEF TypeOK
    <3>2. new_node[q] # Null => new_node[q] # n
      BY <1>2, <2>2 DEF PathInv, ThreadInv
    <3>3. ProducerInv(q, path)  BY DEF PathInv, ThreadInv
    <3> QED  BY <1>1, <1>4, <3>1, <3>2, <3>3 DEF ProducerInv
  <2> QED  BY <2>1, <2>2
<1>8. \A c \in Consumers : ConsumerInv(c, longer)'
  <2> SUFFICES ASSUME NEW c \in Consumers, pc'[c] = "take"
               PROVE  /\ old'[c] \in Range(longer) /\ seen'[c] # Null
                      /\ seen'[c] = next'[old'[c]]
    BY DEF ConsumerInv
  <2>1. pc[c] = "take"  BY <1>1, Separate DEF TypeOK
  <2>2. old[c] \in Range(path) /\ seen[c] # Null /\ seen[c] = next[old[c]]
    BY <2>1 DEF PathInv, ThreadInv, ConsumerInv
  <2>3. next'[old[c]] = next[old[c]]
    BY <1>1, <2>2, LinkFacts DEF PathInv, ListInv, TypeOK
  <2> QED  BY <1>1, <1>4, <2>2, <2>3
<1>9. ThreadInv(longer)'
  BY <1>1, <1>7, <1>8 DEF PathInv, ThreadInv
<1> QED  BY <1>2, <1>4, <1>5, <1>6, <1>9 DEF PathInv

\* Exchanges of tail, and exchanges that fail.
LEMMA MovePreserves ==
  ASSUME TypeOK, NEW path \in Seq(Nodes), PathInv(path),
         NEW p \in Producers,
         \/ Link(p) /\ ~StillLast(old[p])
         \/ Help(p)
         \/ Swing(p)
  PROVE  TypeOK' /\ PathInv(path)'
<1>1. /\ UNCHANGED <<next, head, old, seen, taken>>
      /\ \/ pc[p] \in {"link", "help"} /\ pc' = [pc EXCEPT ![p] = "again"]
            /\ new_node' = new_node
         \/ pc[p] = "swing" /\ pc' = [pc EXCEPT ![p] = "idle"]
            /\ new_node' = [new_node EXCEPT ![p] = Null]
      /\ \/ tail' = tail
         \/ pc[p] = "help" /\ tail' = seen[p]
         \/ pc[p] = "swing" /\ tail' = new_node[p]
  BY DEF Link, Help, Swing, MoveTail, Goto, Again
<1>2. ProducerInv(p, path)  BY DEF PathInv, ThreadInv
<1>3. tail' \in Range(path)
  BY <1>1, <1>2 DEF ProducerInv, PathInv, ListInv
<1>4. tail' \in Nodes  BY <1>3, LinkFacts DEF PathInv, ListInv
<1>5. TypeOK'  BY <1>1, <1>4 DEF TypeOK
<1>6. ListInv(path)'  BY <1>1, <1>3 DEF PathInv, ListInv
<1>7. \A q \in Producers : ProducerInv(q, path)'
  <2> SUFFICES ASSUME NEW q \in Producers PROVE ProducerInv(q, path)'
    OBVIOUS
  <2>1. CASE q = p
    BY <1>1, <1>2, <2>1, Separate DEF ProducerInv, TypeOK
  <2>2. CASE q # p
    BY <1>1, <2>2, Separate DEF PathInv, ThreadInv, ProducerInv, TypeOK
  <2> QED  BY <2>1, <2>2
<1>8. \A q, r \in Producers :
        new_node'[q] = new_node'[r] /\ new_node'[q] # Null => q = r
  BY <1>1 DEF PathInv, ThreadInv, TypeOK
<1>9. \A c \in Consumers : ConsumerInv(c, path)'
  BY <1>1, Separate DEF PathInv, ThreadInv, ConsumerInv, TypeOK
<1> QED  BY <1>5, <1>6, <1>7, <1>8, <1>9 DEF PathInv, ThreadInv

\* The exchange of head: it goes one node further along the path, or fails.
LEMMA TakePreserves ==
  ASSUME TypeOK, NEW path \in Seq(Nodes), PathInv(path),
         NEW c \in Consumers, Take(c)
  PROVE  /\ TypeOK' /\ PathInv(path)'
         /\ \/ UNCHANGED <<next, head, taken>>
            \/ /\ Len(taken) + 2 \in 1 .. Len(path)
               /\ taken' = Append(taken, path[Len(taken) + 2])
<1>1. /\ UNCHANGED <<next, tail, new_node, old, seen>> /\ pc[c] = "take"
      /\ \/ /\ head = old[c] /\ head' = seen[c] /\ taken' = Append(taken, seen[c])
            /\ pc' = [pc EXCEPT ![c] = "idle"]
         \/ UNCHANGED <<head, taken>> /\ pc' = [pc EXCEPT ![c] = "again"]
  BY DEF Take, StillFirst, Goto, Again
<1>2. old[c] \in Range(path) /\ seen[c] # Null /\ seen[c] = next[old[c]]
  BY <1>1 DEF PathInv, ThreadInv, ConsumerInv
<1>3. /\ Len(path) \in Nat /\ Len(taken) \in Nat /\ Len(taken) < Len(path)
      /\ \A k \in 1 .. Len(taken) : taken[k] = path[k + 1]
      /\ head = path[Len(taken) + 1]
  BY PathFacts DEF PathInv, ListInv, TypeOK
<1>4. /\ \A q \in Producers : ProducerInv(q, path)'
      /\ \A q, r \in Producers :
           new_node'[q] = new_node'[r] /\ new_node'[q] # Null => q = r
  BY <1>1, Separate DEF PathInv, ThreadInv, ProducerInv, TypeOK
<1>5. \A d \in Consumers : ConsumerInv(d, path)'
  BY <1>1, Separate DEF PathInv, ThreadInv, ConsumerInv, TypeOK
<1>6. ThreadInv(path)'  BY <1>4, <1>5 DEF ThreadInv
<1>7. CASE UNCHANGED <<head, taken>>
  <2>1. TypeOK'  BY <1>1, <1>7 DEF TypeOK
  <2>2. ListInv(path)'  BY <1>1, <1>7, ListStays DEF PathInv
  <2> QED  BY <1>1, <1>6, <1>7, <2>1, <2>2 DEF PathInv
<1>8. CASE /\ head = old[c] /\ head' = seen[c] /\ taken' = Append(taken, seen[c])
           /\ pc' = [pc EXCEPT ![c] = "idle"]
  <2>1. seen[c] \in Items /\ seen[c] \in Nodes
    BY <1>2, Separate DEF TypeOK
  <2>2. Len(taken) + 1 # Len(path)
    <3>1. next[path[Len(path)]] = Null  BY DEF PathInv, ListInv, IsList
    <3> QED  BY <1>2, <1>3, <1>8, <3>1
  <2>3. /\ Len(taken) + 1 \in 1 .. Len(path) - 1
        /\ Len(taken) + 2 \in 1 .. Len(path)
        /\ (Len(taken) + 1) + 1 = Len(taken) + 2
    BY <1>3, <2>2
  <2>4. seen[c] = path[Len(taken) + 2]
    <3>1. next[path[Len(taken) + 1]] = path[(Len(taken) + 1) + 1]
      BY <2>3 DEF PathInv, ListInv, IsList
    <3> QED  BY <1>2, <1>3, <1>8, <2>3, <3>1
  <2>5. /\ taken' \in Seq(Items) /\ Len(taken') = Len(taken) + 1
        /\ \A k \in 1 .. Len(taken) : taken'[k] = taken[k]
        /\ taken'[Len(taken) + 1] = seen[c]
    <3>1. taken \in Seq(Items)  BY DEF TypeOK
    <3> QED  BY <1>8, <2>1, <3>1, AppendProperties
  <2>6. TypeOK'  BY <1>1, <1>8, <2>1, <2>5 DEF TypeOK
  <2>7. \A k \in 1 .. Len(taken') : taken'[k] = path[k + 1]
    <3>1. \A k \in 1 .. Len(taken') : k \in 1 .. Len(taken) \/ k = Len(taken) + 1
      BY <1>3, <2>5
    <3> QED  BY <1>3, <2>3, <2>4, <2>5, <3>1
  <2>8. /\ Len(taken') < Len(path)
        /\ head' = path[Len(taken') + 1]
    BY <1>3, <1>8, <2>3, <2>4, <2>5
  <2>9. ListInv(path)'
    BY <1>1, <2>7, <2>8 DEF PathInv, ListInv
  <2> QED  BY <1>6, <1>8, <2>3, <2>4, <2>6, <2>9 DEF PathInv
<1> QED  BY <1>1, <1>7, <1>8

LEMMA NextIInv == IInv /\ [Next]_vars => IInv'
<1> SUFFICES ASSUME IInv, [Next]_vars PROVE IInv'
  OBVIOUS
<1>1. PICK path \in Seq(Nodes) : PathInv(path)  BY DEF IInv
<1>2. TypeOK  BY DEF IInv
<1>3. ASSUME NEW longer \in Seq(Nodes), TypeOK', PathInv(longer)' PROVE IInv'
  BY <1>3 DEF IInv
<1>4. ASSUME NEW p \in Producers, NEW i \in Items, Enqueue(p, i) PROVE IInv'
  BY <1>1, <1>2, <1>3, <1>4, EnqueuePreserves
<1>5. ASSUME NEW p \in Producers, ProducerStep(p) PROVE IInv'
  <2>1. p \in Threads  BY Separate
  <2>2. CASE Retry(p) \/ ReadTail(p)
    BY <1>1, <1>2, <1>3, <2>1, <2>2, CopyPreserves
  <2>3. CASE Link(p) /\ StillLast(old[p])
    <3>1. PICK longer : longer = Append(path, new_node[p])  OBVIOUS
    <3> QED  BY <1>1, <1>2, <1>3, <2>3, <3>1, LinkPreserves
  <2>4. CASE (Link(p) /\ ~StillLast(old[p])) \/ Help(p) \/ Swing(p)
    BY <1>1, <1>2, <1>3, <2>4, MovePreserves
  <2> QED  BY <1>5, <2>2, <2>3, <2>4 DEF ProducerStep
<1>6. ASSUME NEW c \in Consumers, Dequeue(c) \/ ConsumerStep(c) PROVE IInv'
  <2>1. c \in Threads  BY Separate
  <2>2. CASE Dequeue(c) \/ Retry(c) \/ ReadHead(c)
    BY <1>1, <1>2, <1>3, <2>1, <2>2, CopyPreserves
  <2>3. CASE Take(c)
    BY <1>1, <1>2, <1>3, <2>3, TakePreserves
  <2> QED  BY <1>6, <2>2, <2>3 DEF ConsumerStep
<1>7. CASE UNCHANGED vars
  <2>1. TypeOK'  BY <1>2, <1>7 DEF TypeOK, vars, links
  <2>2. PathInv(path)'
    BY <1>1, <1>7, ListStays
       DEF PathInv, ThreadInv, ProducerInv, ConsumerInv, vars, links
  <2> QED  BY <1>1, <1>3, <2>1, <2>2
<1> QED  BY <1>4, <1>5, <1>6, <1>7 DEF Next

LEMMA AlwaysIInv == Spec => []IInv
BY InitIInv, NextIInv, PTL DEF Spec

-----------------------------------------------------------------------------
(* The abstract queue is the part of the path that is behind head.         *)

LEMMA QueueIsRest ==
  ASSUME TypeOK, NEW path \in Seq(Nodes), ListInv(path)
  PROVE  queue = SubSeq(path, Len(taken) + 2, Len(path))
<1>1. Len(path) \in Nat /\ Len(taken) \in Nat  BY PathFacts DEF TypeOK
<1>2. Len(taken) + 1 \in 1 .. Len(path) /\ (Len(taken) + 1) + 1 = Len(taken) + 2
  BY <1>1 DEF ListInv
<1>3. Behind[path[Len(taken) + 1]] = SubSeq(path, (Len(taken) + 1) + 1, Len(path))
  BY <1>2, BehindIsRest DEF ListInv
<1> QED  BY <1>2, <1>3 DEF queue, ListInv

LEMMA QueueIsRestNext ==
  ASSUME TypeOK', NEW path \in Seq(Nodes), ListInv(path)'
  PROVE  queue' = SubSeq(path, Len(taken') + 2, Len(path))
<1>1. Len(path) \in Nat /\ Len(taken') \in Nat  BY PathFacts DEF TypeOK
<1>2. Len(taken') + 1 \in 1 .. Len(path) /\ (Len(taken') + 1) + 1 = Len(taken') + 2
  BY <1>1 DEF ListInv
<1>3. Behind'[path[Len(taken') + 1]] = SubSeq(path, (Len(taken') + 1) + 1, Len(path))
  BY <1>2, BehindIsRestNext DEF ListInv
<1> QED  BY <1>2, <1>3 DEF queue, ListInv

\* Every node has its end in the last node of the path.
LEMMA EndOfRest ==
  ASSUME NEW path \in Seq(Nodes), NEW i \in 1 .. Len(path)
  PROVE  Last(<<path[i]>> \o SubSeq(path, i + 1, Len(path))) = path[Len(path)]
<1>1. Len(path) \in Nat /\ \A k \in 1 .. Len(path) : path[k] \in Nodes
  BY PathFacts
<1>2. i \in 1 .. Len(path) /\ Len(path) \in i .. Len(path)  BY <1>1
<1>3. SubSeq(path, i, Len(path)) = <<path[i]>> \o SubSeq(path, i + 1, Len(path))
  BY <1>2, SubSeqRecursiveFirst
<1>4. /\ Len(SubSeq(path, i, Len(path))) = Len(path) - i + 1
      /\ \A k \in 1 .. Len(path) - i + 1 : SubSeq(path, i, Len(path))[k] = path[i + k - 1]
  <2>1. \A k \in i .. Len(path) : path[k] \in Nodes  BY <1>1, <1>2
  <2> QED  BY <1>1, <1>2, <2>1, SubSeqProperties
<1>5. Len(path) - i + 1 \in 1 .. Len(path) - i + 1
      /\ i + (Len(path) - i + 1) - 1 = Len(path)
  BY <1>1, <1>2
<1> QED  BY <1>3, <1>4, <1>5 DEF Last

\* However far tail lags behind, and even behind head, an enqueue that starts
\* from it comes to the end of the list.
THEOREM TailAlwaysLeadsToEnd == Spec => []TailLeadsToEnd
<1>1. IInv => TailLeadsToEnd
  <2> SUFFICES ASSUME IInv PROVE TailLeadsToEnd
    OBVIOUS
  <2>1. PICK path \in Seq(Nodes) : PathInv(path)  BY DEF IInv
  <2>2. TypeOK /\ ListInv(path) /\ IsList(path, next)  BY <2>1 DEF IInv, PathInv, ListInv
  <2>3. /\ Len(path) \in Nat /\ Len(taken) \in Nat /\ Len(taken) < Len(path)
        /\ Range(path) = {path[k] : k \in 1 .. Len(path)}
    BY <2>2, PathFacts DEF ListInv, TypeOK
  <2>4. PICK i \in 1 .. Len(path) : tail = path[i]  BY <2>2, <2>3 DEF ListInv
  <2>5. Behind[tail] = SubSeq(path, i + 1, Len(path))  BY <2>2, <2>4, BehindIsRest
  <2>6. /\ Len(taken) + 1 \in 1 .. Len(path) /\ head = path[Len(taken) + 1]
        /\ queue = SubSeq(path, (Len(taken) + 1) + 1, Len(path))
    BY <2>2, <2>3, QueueIsRest DEF ListInv
  <2> QED  BY <2>4, <2>5, <2>6, EndOfRest DEF TailLeadsToEnd
<1> QED  BY AlwaysIInv, <1>1, PTL

\* A queue without one of the items is not full.
LEMMA RoomForOne ==
  ASSUME NEW q \in Seq(Items), NEW i \in Items, i \notin Range(q),
         \A k, l \in 1 .. Len(q) : q[k] = q[l] => k = l
  PROVE  Len(q) < Cardinality(Items)
<1>1. /\ Len(q) \in Nat /\ q \in [1 .. Len(q) -> Items]
      /\ Range(q) = {q[k] : k \in 1 .. Len(q)}
  BY RangeEquality
<1>2. IsFiniteSet(Items)  BY LockFreeAssumption
<1>3. /\ IsFiniteSet(Items \ {i})
      /\ Cardinality(Items \ {i}) = Cardinality(Items) - 1
      /\ Cardinality(Items) \in Nat
  BY <1>2, FS_RemoveElement, FS_CardinalityType
<1>4. q \in Injection(1 .. Len(q), Items \ {i})
  BY <1>1 DEF Injection, IsInjective
<1>5. Cardinality(1 .. Len(q)) <= Cardinality(Items \ {i})
  BY <1>3, <1>4, FS_Injection DEF ExistsInjection
<1>6. Cardinality(1 .. Len(q)) = Len(q)
  <2>1. \A n \in Nat : Cardinality(1 .. n) = IF 1 <= n THEN n - 1 + 1 ELSE 0
    BY FS_Interval
  <2>2. \A n \in Nat : (IF 1 <= n THEN n - 1 + 1 ELSE 0) = n  OBVIOUS
  <2> QED  BY <1>1, <2>1, <2>2
<1> QED  BY <1>1, <1>3, <1>5, <1>6

\* The exchange of next is Put.
LEMMA LinkIsPut ==
  ASSUME IInv, NEW p \in Producers, Link(p), StillLast(old[p])
  PROVE  \E i \in Items : Fifo!Put(i)
<1>1. PICK path \in Seq(Nodes) : PathInv(path)  BY DEF IInv
<1>2. PICK longer : longer = Append(path, new_node[p])  OBVIOUS
<1>3. TypeOK /\ ListInv(path)  BY <1>1 DEF IInv, PathInv
<1>4. /\ new_node[p] \in Items /\ new_node[p] \notin Range(path)
      /\ longer \in Seq(Nodes) /\ TypeOK' /\ ListInv(longer)'
  BY <1>1, <1>2, <1>3, LinkPreserves DEF PathInv
<1>5. /\ Len(path) \in Nat /\ Len(taken) \in Nat /\ Len(taken) < Len(path)
      /\ \A k \in 1 .. Len(path) : path[k] \in Nodes /\ path[k] \in Range(path)
      /\ \A k, l \in 1 .. Len(path) : path[k] = path[l] => k = l
      /\ path[1] = Dummy
      /\ \A k \in 1 .. Len(taken) : taken[k] = path[k + 1]
  BY <1>3, PathFacts DEF ListInv, IsList, TypeOK
<1>6. taken' = taken  BY DEF Link
<1> DEFINE m == Len(taken)
           n == Len(path)
           i == new_node[p]
<1>7. /\ queue = SubSeq(path, m + 2, n)
      /\ queue' = SubSeq(longer, m + 2, Len(longer))
  BY <1>3, <1>4, <1>6, QueueIsRest, QueueIsRestNext
<1>8. i \in Nodes  BY <1>4, Separate
<1>9. /\ Len(longer) = n + 1 /\ longer[n + 1] = i
      /\ \A k \in 1 .. n : longer[k] = path[k]
  BY <1>2, <1>8, AppendProperties
<1>10. \A k \in m + 2 .. n : path[k] \in Items
  <2> SUFFICES ASSUME NEW k \in m + 2 .. n PROVE path[k] \in Items
    OBVIOUS
  <2>1. k \in 1 .. n /\ 1 \in 1 .. n /\ k # 1  BY <1>5
  <2>2. path[k] # Dummy  BY <1>5, <2>1
  <2> QED  BY <1>5, <2>1, <2>2 DEF Nodes
<1>11. /\ queue \in Seq(Items)
       /\ Len(queue) = n - m - 1
       /\ \A k \in 1 .. n - m - 1 : queue[k] = path[m + 1 + k]
  <2>1. /\ SubSeq(path, m + 2, n) \in Seq(Items)
        /\ Len(SubSeq(path, m + 2, n)) = IF m + 2 <= n THEN n - (m + 2) + 1 ELSE 0
        /\ \A k \in 1 .. n - (m + 2) + 1 : SubSeq(path, m + 2, n)[k] = path[m + 2 + k - 1]
    BY <1>5, <1>10, SubSeqProperties
  <2> QED  BY <1>5, <1>7, <2>1
<1>12. queue' = Append(queue, i)
  <2>1. m + 2 \in 1 .. Len(longer) /\ n + 1 \in m + 2 .. Len(longer)
    BY <1>5, <1>9
  <2>2. SubSeq(longer, m + 2, n + 1) = SubSeq(longer, m + 2, (n + 1) - 1) \o <<longer[n + 1]>>
    BY <1>4, <2>1, SubSeqRecursiveSecond
  <2>3. (n + 1) - 1 = n  BY <1>5
  <2>4. SubSeq(longer, m + 2, n) = SubSeq(path, m + 2, n)
    <3>1. \A k \in m + 2 .. n : longer[k] = path[k] /\ longer[k] \in Nodes /\ path[k] \in Nodes
      BY <1>5, <1>9
    <3> QED  BY <1>5, <3>1
  <2>5. queue' = queue \o <<i>>  BY <1>7, <1>9, <2>2, <2>3, <2>4
  <2> QED  BY <1>4, <1>11, <2>5, AppendIsConcat
<1>13. i \notin Range(queue) \cup Range(taken)
  <2>1. \A k \in 1 .. n - m - 1 : m + 1 + k \in 1 .. n  BY <1>5
  <2>2. \A k \in 1 .. m : k + 1 \in 1 .. n  BY <1>5
  <2>3. /\ Range(queue) = {queue[k] : k \in 1 .. Len(queue)}
        /\ Range(taken) = {taken[k] : k \in 1 .. Len(taken)}
    BY <1>3, <1>11, RangeEquality DEF TypeOK
  <2>4. \A k \in 1 .. n - m - 1 : queue[k] \in Range(path)
    BY <1>5, <1>11, <2>1
  <2>5. \A k \in 1 .. m : taken[k] \in Range(path)
    BY <1>5, <2>2
  <2>6. Range(queue) \subseteq Range(path)  BY <1>11, <2>3, <2>4
  <2>7. Range(taken) \subseteq Range(path)  BY <2>3, <2>5
  <2> QED  BY <1>4, <2>6, <2>7, Zenon
<1>14. Len(queue) < Cardinality(Items)
  <2>1. \A k, l \in 1 .. Len(queue) : queue[k] = queue[l] => k = l
    <3> SUFFICES ASSUME NEW k \in 1 .. n - m - 1, NEW l \in 1 .. n - m - 1,
                        queue[k] = queue[l]
                 PROVE  k = l
      BY <1>11
    <3>1. m + 1 + k \in 1 .. n /\ m + 1 + l \in 1 .. n  BY <1>5
    <3>2. m + 1 + k = m + 1 + l  BY <1>5, <1>11, <3>1
    <3> QED  BY <1>5, <3>2
  <2> QED  BY <1>4, <1>11, <1>13, <2>1, RoomForOne
<1> HIDE DEF i
<1>15. Fifo!Put(i)
  BY <1>6, <1>12, <1>13, <1>14 DEF Fifo!Put, Fifo!Range, Range
<1> QED  BY <1>4, <1>15 DEF i

\* The exchange of head is Get.
LEMMA TakeIsGet ==
  ASSUME IInv, NEW c \in Consumers, Take(c)
  PROVE  Fifo!Get \/ UNCHANGED <<queue, taken>>
<1>1. PICK path \in Seq(Nodes) : PathInv(path)  BY DEF IInv
<1>2. TypeOK /\ ListInv(path)  BY <1>1 DEF IInv, PathInv
<1>3. /\ TypeOK' /\ ListInv(path)'
      /\ \/ UNCHANGED <<next, head, taken>>
         \/ /\ Len(taken) + 2 \in 1 .. Len(path)
            /\ taken' = Append(taken, path[Len(taken) + 2])
  BY <1>1, <1>2, TakePreserves DEF PathInv
<1>4. CASE UNCHANGED <<next, head, taken>>
  BY <1>4 DEF queue, Behind
<1>5. CASE /\ Len(taken) + 2 \in 1 .. Len(path)
           /\ taken' = Append(taken, path[Len(taken) + 2])
  <2> DEFINE m == Len(taken)
             n == Len(path)
  <2>1. /\ n \in Nat /\ m \in Nat /\ taken \in Seq(Items)
        /\ \A k \in 1 .. n : path[k] \in Nodes
    BY <1>2, PathFacts DEF TypeOK
  <2>2. Len(taken') = m + 1
    BY <1>5, <2>1
  <2>3. queue = SubSeq(path, m + 2, n) /\ queue' = SubSeq(path, (m + 2) + 1, n)
    <3>1. (m + 1) + 2 = (m + 2) + 1  BY <2>1
    <3> QED  BY <1>2, <1>3, <2>2, <3>1, QueueIsRest, QueueIsRestNext
  <2>4. m + 2 \in 1 .. Len(path) /\ n \in m + 2 .. Len(path)
    BY <1>5, <2>1
  <2>5. Head(queue) = path[m + 2] /\ Tail(queue) = queue'
    BY <2>3, <2>4, HeadTailOfSubSeq
  <2>6. queue # <<>>
    <3>1. queue = <<path[m + 2]>> \o queue'
      BY <2>3, <2>4, SubSeqRecursiveFirst
    <3>2. /\ <<path[m + 2]>> \in Seq(Nodes) /\ Len(<<path[m + 2]>>) = 1
          /\ queue' \in Seq(Nodes)
      <4>1. \A k \in (m + 2) + 1 .. n : path[k] \in Nodes  BY <2>1
      <4> QED  BY <2>1, <2>3, <2>4, <4>1, SubSeqProperties
    <3>3. <<path[m + 2]>> # <<>>  BY <3>2
    <3> QED  BY <3>1, <3>2, <3>3, ConcatEqualIffEmpty
  <2> QED  BY <1>5, <2>5, <2>6 DEF Fifo!Get
<1> QED  BY <1>3, <1>4, <1>5

LEMMA StepImplementsFifo ==
  ASSUME IInv, [Next]_vars
  PROVE  [Fifo!Next]_<<queue, taken>>
<1>1. ASSUME UNCHANGED <<next, head, taken>> PROVE UNCHANGED <<queue, taken>>
  BY <1>1 DEF queue, Behind
<1>2. ASSUME NEW p \in Producers, NEW i \in Items, Enqueue(p, i)
      PROVE  UNCHANGED <<queue, taken>>
  BY <1>1, <1>2 DEF Enqueue, links
<1>3. ASSUME NEW p \in Producers, ProducerStep(p), ~(Link(p) /\ StillLast(old[p]))
      PROVE  UNCHANGED <<queue, taken>>
  BY <1>1, <1>3
     DEF ProducerStep, Retry, ReadTail, Snapshot, Link, Help, Swing, MoveTail, links
<1>4. ASSUME NEW p \in Producers, Link(p), StillLast(old[p]) PROVE Fifo!Next
  BY <1>4, LinkIsPut DEF Fifo!Next
<1>5. ASSUME NEW c \in Consumers, Dequeue(c) \/ Retry(c) \/ ReadHead(c)
      PROVE  UNCHANGED <<queue, taken>>
  BY <1>1, <1>5 DEF Dequeue, Retry, ReadHead, Snapshot, links
<1>6. ASSUME NEW c \in Consumers, Take(c)
      PROVE  Fifo!Next \/ UNCHANGED <<queue, taken>>
  BY <1>6, TakeIsGet DEF Fifo!Next
<1>7. CASE UNCHANGED vars
  BY <1>1, <1>7 DEF vars, links
<1> QED
  BY <1>2, <1>3, <1>4, <1>5, <1>6, <1>7 DEF Next, ConsumerStep

\* Up to the first race the list is a FIFO: dequeue returns what enqueue
\* linked, each item once and in order, however the threads help and overtake
\* each other and whatever the local tail of dequeue holds.
THEOREM ListImplementsFifo == Spec => ImplementsFifo
<1>1. Init => Fifo!Init
  <2> SUFFICES ASSUME Init PROVE Fifo!Init
    OBVIOUS
  <2>1. PICK path \in Seq(Nodes) : ListInv(path)  BY InitIInv DEF IInv, PathInv
  <2>2. TypeOK  BY InitIInv DEF IInv
  <2>3. next[head] = Null /\ head \in Range(path) /\ Len(taken) = 0
    <3>1. Len(taken) = 0 /\ next[head] = Null  BY DEF Init, Nodes
    <3>2. head = path[1] /\ 1 \in 1 .. Len(path)
      BY <2>1, <3>1, PathFacts DEF ListInv
    <3> QED  BY <3>1, <3>2, PathFacts
  <2>4. head = path[Len(path)]  BY <2>1, <2>3, LinkFacts DEF ListInv
  <2>5. Len(path) \in 1 .. Len(path)  BY <2>1, PathFacts DEF ListInv, IsList
  <2>6. Behind[head] = SubSeq(path, Len(path) + 1, Len(path))
    BY <2>1, <2>4, <2>5, BehindIsRest DEF ListInv
  <2>7. queue = <<>>  BY <2>5, <2>6, RestFacts DEF queue
  <2> QED  BY <2>7 DEF Init, Fifo!Init
<1>2. IInv /\ [Next]_vars => [Fifo!Next]_<<queue, taken>>
  BY StepImplementsFifo
<1> QED  BY <1>1, <1>2, AlwaysIInv, PTL DEF Spec, ImplementsFifo, Fifo!Spec
=============================================================================

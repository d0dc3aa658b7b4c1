------------------------- MODULE ContainmentProofs -------------------------
(***************************************************************************)
(* Proof that on the serialised engine the closure table stays exact for   *)
(* every set of assets, names and requests.  ClosureExact is not inductive *)
(* on its own: a move splices the rows of two chains, and needs that rows  *)
(* compose (Composes) and that parents exist.                              *)
(***************************************************************************)
EXTENDS Containment, FiniteSetTheorems, NaturalsInduction, WellFoundedInduction, TLAPS

Edge(x, y, k) == <<x, y, k>> \in closure

Endpoints == \A x, y \in Assets, k \in Nat : Edge(x, y, k) => x \in exists /\ y \in exists

Unique == \A x, y \in Assets, j, k \in Nat : Edge(x, y, j) /\ Edge(x, y, k) => j = k

Follows ==
  \A x \in Assets, y \in exists, k \in Nat :
    Edge(x, y, k) <=> \/ x = y /\ k = 0
                      \/ parent[y] # Null /\ k > 0 /\ Edge(x, parent[y], k - 1)

Composes ==
  \A x, y, z \in Assets, j, k \in Nat :
    Edge(x, y, j) /\ Edge(y, z, k) => Edge(x, z, j + k)

ParentsExist == \A y \in exists : parent[y] \in exists \cup {Null}

RequestsExist ==
  \A r \in Requests : req[r].op = "reparent" =>
    /\ req[r].id \in exists
    /\ req[r].to \in exists \cup {Null}
    /\ req[r].to # req[r].id

Tree == Endpoints /\ Unique /\ Follows /\ Composes /\ ParentsExist

IInv == TypeOK /\ Tree /\ RequestsExist

----------------------------------------------------------------------------
(* What the table's statements do, row by row. *)

LEMMA SubtreeRows ==
  ASSUME TypeOK, NEW a \in Assets, NEW y \in Assets
  PROVE  y \in Subtree(a) <=> \E k \in Nat : Edge(a, y, k)
<1>0. closure \subseteq Assets \X Assets \X Nat
  BY DEF TypeOK, ClosureRow
<1>1. ASSUME y \in Subtree(a) PROVE \E k \in Nat : Edge(a, y, k)
  <2>1. PICK c \in closure : c[1] = a /\ c[2] = y
    BY <1>1 DEF Subtree
  <2>2. c = <<a, y, c[3]>> /\ c[3] \in Nat
    BY <1>0, <2>1
  <2> QED
    BY <2>1, <2>2 DEF Edge
<1>2. ASSUME NEW k \in Nat, Edge(a, y, k) PROVE y \in Subtree(a)
  <2>1. <<a, y, k>>[1] = a /\ <<a, y, k>>[2] = y
    OBVIOUS
  <2> QED
    BY <1>2, <2>1 DEF Subtree, Edge
<1> QED
  BY <1>1, <1>2

LEMMA NewNodeEdges ==
  ASSUME TypeOK, NEW a \in Assets, NEW p \in Parents,
         NEW x \in Assets, NEW y \in Assets, NEW k \in Nat
  PROVE  <<x, y, k>> \in NewNodeRows(a, p) <=>
           \/ x = a /\ y = a /\ k = 0
           \/ y = a /\ p # Null /\ k > 0 /\ Edge(x, p, k - 1)
BY NullAssumption DEF TypeOK, ClosureRow, NewNodeRows, Edge, Parents

(* A node that is inside another is not at distance 0 from it. *)
LEMMA ZeroIsSelf ==
  ASSUME TypeOK, Tree, NEW x \in Assets, NEW y \in Assets, Edge(x, y, 0)
  PROVE  x = y
BY DEF Tree, Endpoints, Follows

LEMMA SelfIsZero ==
  ASSUME TypeOK, Tree, NEW x \in Assets, NEW k \in Nat, Edge(x, x, k)
  PROVE  k = 0
BY DEF Tree, Endpoints, Follows, Unique

(* Two assets are never inside each other. *)
LEMMA Antisymmetric ==
  ASSUME TypeOK, Tree, NEW x \in Assets, NEW y \in Assets, NEW j \in Nat, NEW k \in Nat,
         Edge(x, y, j), Edge(y, x, k)
  PROVE  x = y
<1>1. Edge(x, x, j + k)
  BY DEF Tree, Composes
<1>2. j + k = 0
  BY <1>1, SelfIsZero
<1>3. j = 0
  BY <1>2
<1> QED
  BY <1>3, ZeroIsSelf

(* The promise of the property from its pointwise form. *)
LEMMA TreeIsExact == IInv => ClosureExact
<1> SUFFICES ASSUME IInv PROVE ClosureExact
  OBVIOUS
<1> USE DEF IInv
<1>1. RowsFollowParent
  <2> SUFFICES ASSUME NEW n \in exists
               PROVE  {c \in closure : c[2] = n} = NewNodeRows(n, parent[n])
    BY DEF RowsFollowParent
  <2>1. n \in Assets /\ parent[n] \in Parents
    BY DEF TypeOK
  <2>2. ASSUME NEW c \in closure, c[2] = n PROVE c \in NewNodeRows(n, parent[n])
    <3>1. PICK x \in Assets, y \in Assets, k \in Nat : c = <<x, y, k>>
      BY DEF TypeOK, ClosureRow
    <3>2. y = n /\ Edge(x, n, k)
      BY <3>1, <2>2 DEF Edge
    <3>3. \/ x = n /\ k = 0
          \/ parent[n] # Null /\ k > 0 /\ Edge(x, parent[n], k - 1)
      BY <3>2 DEF Tree, Follows
    <3> QED
      BY <3>1, <3>2, <3>3, <2>1, NewNodeEdges
  <2>3. ASSUME NEW c \in NewNodeRows(n, parent[n]) PROVE c \in closure /\ c[2] = n
    <3>1. PICK x \in Assets, k \in Nat : c = <<x, n, k>>
      BY <2>1 DEF NewNodeRows, TypeOK, ClosureRow
    <3>2. \/ x = n /\ k = 0
          \/ parent[n] # Null /\ k > 0 /\ Edge(x, parent[n], k - 1)
      BY <3>1, <2>1, <2>3, NewNodeEdges
    <3>3. Edge(x, n, k)
      BY <3>2 DEF Tree, Follows
    <3> QED
      BY <3>1, <3>3 DEF Edge
  <2> QED
    BY <2>2, <2>3
<1>2. OneDepthPerPair
  BY DEF OneDepthPerPair, TypeOK, ClosureRow, Tree, Unique, Edge
<1>3. \A c \in closure : c[1] \in exists /\ c[2] \in exists
  BY DEF TypeOK, ClosureRow, Tree, Endpoints, Edge
<1>4. \A a \in exists : parent[a] # Null => parent[a] \notin Subtree(a)
  <2> SUFFICES ASSUME NEW a \in exists, parent[a] # Null, parent[a] \in Subtree(a)
               PROVE  FALSE
    OBVIOUS
  <2>1. a \in Assets /\ parent[a] \in Assets
    BY DEF TypeOK, Parents
  <2>2. PICK k \in Nat : Edge(a, parent[a], k)
    BY <2>1, SubtreeRows
  <2>3. Edge(a, a, k + 1)
    BY <2>1, <2>2 DEF Tree, Follows
  <2>4. k + 1 = 0
    BY <2>1, <2>3, SelfIsZero
  <2> QED
    BY <2>4
<1> QED
  BY <1>1, <1>2, <1>3, <1>4 DEF ClosureExact

----------------------------------------------------------------------------
(* The two transactions that write asset_closure. *)

(* A new leaf gets its own row and its parent's rows one level further. *)
LEMMA CreateKeepsTree ==
  ASSUME TypeOK, TypeOK', Tree,
         NEW a \in Assets, NEW p \in Parents, NEW n \in Names, NEW l \in Lifecycles,
         CreateAsset(a, p, n, l)
  PROVE  Tree'
<1>1. /\ a \notin exists /\ p \in exists \cup {Null}
      /\ exists' = exists \cup {a}
      /\ exists \subseteq Assets
      /\ \A y \in exists : parent'[y] = parent[y]
      /\ parent'[a] = p
      /\ closure' = closure \cup NewNodeRows(a, p)
  BY DEF CreateAsset, TypeOK
<1> DEFINE EdgeP(x, y, k) == <<x, y, k>> \in closure'
<1>2. \A x, y \in Assets, k \in Nat :
        EdgeP(x, y, k) <=> \/ Edge(x, y, k)
                           \/ x = a /\ y = a /\ k = 0
                           \/ y = a /\ p # Null /\ k > 0 /\ Edge(x, p, k - 1)
  BY <1>1, NewNodeEdges DEF Edge
<1>3. \A x, y \in Assets, k \in Nat : Edge(x, y, k) => x # a /\ y # a
  BY <1>1 DEF Tree, Endpoints
<1>4. p # Null => p \in Assets /\ p \in exists /\ p # a
  BY <1>1
<1> HIDE DEF EdgeP
<1>5. \A x, y \in Assets, k \in Nat : EdgeP(x, y, k) => x \in exists' /\ y \in exists'
  BY <1>1, <1>2, <1>4 DEF Tree, Endpoints
<1>6. \A x, y \in Assets, j, k \in Nat : EdgeP(x, y, j) /\ EdgeP(x, y, k) => j = k
  <2> SUFFICES ASSUME NEW x \in Assets, NEW y \in Assets, NEW j \in Nat, NEW k \in Nat,
                      EdgeP(x, y, j), EdgeP(x, y, k)
               PROVE  j = k
    OBVIOUS
  <2>1. CASE y # a
    BY <2>1, <1>2 DEF Tree, Unique
  <2>2. CASE y = a /\ x = a
    BY <2>2, <1>2, <1>3, <1>4
  <2>3. CASE y = a /\ x # a
    <3>1. p # Null /\ j - 1 \in Nat /\ k - 1 \in Nat /\ Edge(x, p, j - 1) /\ Edge(x, p, k - 1)
      BY <2>3, <1>2, <1>3
    <3> QED
      BY <3>1, <1>4 DEF Tree, Unique
  <2> QED
    BY <2>1, <2>2, <2>3
<1>7. \A x \in Assets, y \in exists', k \in Nat :
        EdgeP(x, y, k) <=> \/ x = y /\ k = 0
                           \/ parent'[y] # Null /\ k > 0 /\ EdgeP(x, parent'[y], k - 1)
  <2> SUFFICES ASSUME NEW x \in Assets, NEW y \in exists', NEW k \in Nat
               PROVE  EdgeP(x, y, k) <=>
                        \/ x = y /\ k = 0
                        \/ parent'[y] # Null /\ k > 0 /\ EdgeP(x, parent'[y], k - 1)
    OBVIOUS
  <2>1. CASE y = a
    BY <2>1, <1>1, <1>2, <1>3, <1>4
  <2>2. CASE y # a
    <3>1. y \in exists /\ y \in Assets /\ parent'[y] = parent[y]
      BY <2>2, <1>1
    <3>2. parent[y] # Null => parent[y] \in Assets /\ parent[y] # a
      BY <3>1, <1>1 DEF Tree, ParentsExist
    <3> QED
      BY <2>2, <3>1, <3>2, <1>2 DEF Tree, Follows
  <2> QED
    BY <2>1, <2>2
<1>8. \A x, y, z \in Assets, j, k \in Nat :
        EdgeP(x, y, j) /\ EdgeP(y, z, k) => EdgeP(x, z, j + k)
  <2> SUFFICES ASSUME NEW x \in Assets, NEW y \in Assets, NEW z \in Assets,
                      NEW j \in Nat, NEW k \in Nat, EdgeP(x, y, j), EdgeP(y, z, k)
               PROVE  EdgeP(x, z, j + k)
    OBVIOUS
  <2>1. CASE z # a
    BY <2>1, <1>2, <1>3, <1>4 DEF Tree, Composes
  <2>2. CASE z = a /\ y = a
    BY <2>2, <1>2, <1>3, <1>4
  <2>3. CASE z = a /\ y # a
    <3>1. Edge(x, y, j) /\ p # Null /\ k - 1 \in Nat /\ Edge(y, p, k - 1)
      BY <2>3, <1>2, <1>3
    <3>2. Edge(x, p, j + (k - 1))
      BY <3>1, <1>4 DEF Tree, Composes
    <3>3. j + (k - 1) = (j + k) - 1 /\ j + k > 0 /\ j + k \in Nat
      BY <3>1
    <3> QED
      BY <2>3, <3>1, <3>2, <3>3, <1>2
  <2> QED
    BY <2>1, <2>2, <2>3
<1>9. ParentsExist'
  BY <1>1 DEF Tree, ParentsExist
<1> QED
  BY <1>5, <1>6, <1>7, <1>8, <1>9
  DEF Tree, Endpoints, Unique, Follows, Composes, Edge, EdgeP

(* The rows of a move, one by one: outside the subtree nothing changes;     *)
(* inside it, the rows that come from outside are replaced by the new       *)
(* parent's ancestors.                                                      *)
LEMMA MoveEdges ==
  ASSUME TypeOK, Tree, NEW q, q.id \in exists, q.to \in exists \cup {Null},
         q.to # Null => q.to \notin Subtree(q.id),
         NEW x \in Assets, NEW y \in Assets, NEW k \in Nat
  PROVE  <<x, y, k>> \in (closure \ Removes(q)) \cup Adds(q) <=>
           \/ Edge(x, y, k) /\ (y \in Subtree(q.id) => x \in Subtree(q.id))
           \/ /\ q.to # Null
              /\ \E i, j \in Nat : /\ Edge(x, q.to, i) /\ Edge(q.id, y, j)
                                   /\ k = i + j + 1
<1> DEFINE a == q.id
           p == q.to
           kept == Detached(a)
<1>0. closure \subseteq Assets \X Assets \X Nat /\ a \in Assets /\ (p # Null => p \in Assets)
  BY DEF TypeOK, ClosureRow
<1>1. \A u, v \in Assets, i \in Nat : <<u, v, i>> \in kept <=>
        Edge(u, v, i) /\ (v \in Subtree(a) => u \in Subtree(a))
  BY DEF Detached, Edge
<1>2. closure \ Removes(q) = kept
  BY DEF Removes, Detached
<1>3. Edge(a, a, 0)
  BY <1>0 DEF Tree, Follows
<1>4. a \in Subtree(a)
  BY <1>0, <1>3, SubtreeRows
<1>5. ASSUME p # Null
      PROVE  <<x, y, k>> \in CrossRows(kept, a, p) <=>
               \E i, j \in Nat : Edge(x, p, i) /\ Edge(a, y, j) /\ k = i + j + 1
  <2>0. p \in Assets /\ p \notin Subtree(a)
    BY <1>0, <1>5
  <2>1. ASSUME <<x, y, k>> \in CrossRows(kept, a, p)
        PROVE  \E i, j \in Nat : Edge(x, p, i) /\ Edge(a, y, j) /\ k = i + j + 1
    <3>1. PICK u \in kept, w \in kept : /\ u[2] = p /\ w[1] = a
                                        /\ <<x, y, k>> = <<u[1], w[2], u[3] + w[3] + 1>>
      BY <2>1 DEF CrossRows
    <3>2. u \in closure /\ w \in closure
      BY DEF Detached
    <3>3. u = <<x, p, u[3]>> /\ w = <<a, y, w[3]>> /\ u[3] \in Nat /\ w[3] \in Nat
      BY <3>1, <3>2, <1>0
    <3> QED
      BY <3>1, <3>2, <3>3 DEF Edge
  <2>2. ASSUME NEW i \in Nat, NEW j \in Nat, Edge(x, p, i), Edge(a, y, j), k = i + j + 1
        PROVE  <<x, y, k>> \in CrossRows(kept, a, p)
    <3>1. <<x, p, i>> \in kept
      BY <2>0, <2>2, <1>1
    <3>2. <<a, y, j>> \in kept
      BY <2>2, <1>0, <1>1, <1>4
    <3>3. /\ <<x, p, i>>[2] = p /\ <<a, y, j>>[1] = a
          /\ <<x, y, k>> = <<<<x, p, i>>[1], <<a, y, j>>[2], <<x, p, i>>[3] + <<a, y, j>>[3] + 1>>
      BY <2>2
    <3> HIDE DEF kept
    <3> QED
      BY <3>1, <3>2, <3>3 DEF CrossRows
  <2> QED
    BY <2>1, <2>2
<1>6. CASE p = Null
  BY <1>1, <1>2, <1>6 DEF Adds
<1>7. CASE p # Null
  <2>1. Adds(q) = CrossRows(kept, a, p)
    BY <1>7 DEF Adds
  <2> HIDE DEF kept
  <2> QED
    BY <1>1, <1>2, <1>5, <1>7, <2>1
<1> QED
  BY <1>6, <1>7

(* A move that passed the cycle check keeps the table exact. *)
LEMMA MoveKeepsTree ==
  ASSUME TypeOK, TypeOK', Tree, NEW q, q.id \in exists, q.to \in exists \cup {Null},
         q.to # Null => q.to \notin Subtree(q.id),
         closure' = (closure \ Removes(q)) \cup Adds(q),
         parent' = [parent EXCEPT ![q.id] = q.to],
         exists' = exists
  PROVE  Tree'
<1> DEFINE a == q.id
           p == q.to
           S == Subtree(q.id)
           EdgeP(x, y, k) == <<x, y, k>> \in closure'
<1>1. /\ exists \subseteq Assets /\ a \in Assets /\ a \in exists
      /\ p # Null => p \in Assets /\ p \in exists /\ p \notin S
      /\ parent'[a] = p
      /\ \A y \in exists : y # a => parent'[y] = parent[y]
      /\ \A y \in exists : parent[y] # Null => parent[y] \in Assets /\ parent[y] \in exists
  BY DEF TypeOK, Tree, ParentsExist
<1>2. \A x, y \in Assets, k \in Nat : EdgeP(x, y, k) <=>
           \/ Edge(x, y, k) /\ (y \in S => x \in S)
           \/ p # Null /\ \E i, j \in Nat : /\ Edge(x, p, i) /\ Edge(a, y, j)
                                            /\ k = i + j + 1
  BY MoveEdges
<1>3. \A y \in Assets : y \in S <=> \E k \in Nat : Edge(a, y, k)
  BY <1>1, SubtreeRows
<1> HIDE DEF S, EdgeP
<1>4. Edge(a, a, 0) /\ a \in S
  BY <1>1, <1>3 DEF Tree, Follows
(* Whatever is below a member of the subtree is in the subtree. *)
<1>5. \A x, y \in Assets, k \in Nat : x \in S /\ Edge(x, y, k) => y \in S
  BY <1>1, <1>3 DEF Tree, Composes
(* No ancestor of the new parent is in the subtree. *)
<1>6. \A x \in Assets, k \in Nat : p # Null /\ Edge(x, p, k) => x \notin S
  BY <1>1, <1>5
<1>7. \A x, y \in Assets, k \in Nat : y \notin S => (EdgeP(x, y, k) <=> Edge(x, y, k))
  BY <1>2, <1>3
<1>8. \A x, y \in Assets, k \in Nat : x \in S => (EdgeP(x, y, k) <=> Edge(x, y, k))
  BY <1>2, <1>6
<1>9. \A x, y \in Assets, k \in Nat : x \notin S /\ y \in S =>
        (EdgeP(x, y, k) <=>
           p # Null /\ \E i, j \in Nat : /\ Edge(x, p, i) /\ Edge(a, y, j)
                                         /\ k = i + j + 1)
  BY <1>2
<1>10. \A x, y \in Assets, k \in Nat : EdgeP(x, y, k) => x \in exists /\ y \in exists
  BY <1>1, <1>2 DEF Tree, Endpoints
<1>11. \A x, y \in Assets, j, k \in Nat : EdgeP(x, y, j) /\ EdgeP(x, y, k) => j = k
  <2> SUFFICES ASSUME NEW x \in Assets, NEW y \in Assets, NEW j \in Nat, NEW k \in Nat,
                      EdgeP(x, y, j), EdgeP(x, y, k)
               PROVE  j = k
    OBVIOUS
  <2>1. CASE x \in S \/ y \notin S
    BY <2>1, <1>7, <1>8 DEF Tree, Unique
  <2>2. CASE x \notin S /\ y \in S
    <3>1. PICK i1, j1 \in Nat : Edge(x, p, i1) /\ Edge(a, y, j1) /\ j = i1 + j1 + 1
      BY <2>2, <1>9
    <3>2. PICK i2, j2 \in Nat : Edge(x, p, i2) /\ Edge(a, y, j2) /\ k = i2 + j2 + 1
      BY <2>2, <1>9
    <3>3. p \in Assets
      BY <2>2, <1>1, <1>9
    <3>4. i1 = i2 /\ j1 = j2
      BY <3>1, <3>2, <3>3, <1>1 DEF Tree, Unique
    <3> QED
      BY <3>1, <3>2, <3>4
  <2> QED
    BY <2>1, <2>2
<1>12. \A x \in Assets, y \in exists, k \in Nat :
        EdgeP(x, y, k) <=> \/ x = y /\ k = 0
                           \/ parent'[y] # Null /\ k > 0 /\ EdgeP(x, parent'[y], k - 1)
  <2> SUFFICES ASSUME NEW x \in Assets, NEW y \in exists, NEW k \in Nat
               PROVE  EdgeP(x, y, k) <=>
                        \/ x = y /\ k = 0
                        \/ parent'[y] # Null /\ k > 0 /\ EdgeP(x, parent'[y], k - 1)
    OBVIOUS
  <2>0. y \in Assets
    BY <1>1
  <2>1. CASE y \notin S
    <3>1. y # a /\ parent'[y] = parent[y]
      BY <2>1, <1>1, <1>4
    <3>2. parent[y] # Null => parent[y] \in Assets /\ parent[y] \notin S
      <4> SUFFICES ASSUME parent[y] # Null, parent[y] \in S PROVE FALSE
        BY <1>1
      <4>1. PICK j \in Nat : Edge(a, parent[y], j)
        BY <1>1, <1>3
      <4>2. Edge(a, y, j + 1)
        BY <4>1, <1>1, <2>0 DEF Tree, Follows
      <4> QED
        BY <4>2, <2>0, <2>1, <1>3
    <3> QED
      BY <2>0, <2>1, <3>1, <3>2, <1>7 DEF Tree, Follows
  <2>2. CASE y = a
    <3>1. CASE x \in S
      <4>1. Edge(x, a, k) <=> x = a /\ k = 0
        <5>1. ASSUME Edge(x, a, k) PROVE x = a
          BY <5>1, <3>1, <1>1, <1>3, Antisymmetric
        <5> QED
          BY <5>1, <1>1, <1>4 DEF Tree, Unique
      <4>2. p # Null /\ k > 0 => ~EdgeP(x, p, k - 1)
        BY <1>1, <1>6, <1>7, <3>1
      <4> QED
        BY <2>0, <2>2, <3>1, <4>1, <4>2, <1>1, <1>8
    <3>2. CASE x \notin S
      <4>1. \A j \in Nat : Edge(a, a, j) <=> j = 0
        BY <1>1, <1>4 DEF Tree, Unique
      <4>2. EdgeP(x, a, k) <=> p # Null /\ \E i \in Nat : Edge(x, p, i) /\ k = i + 1
        BY <4>1, <3>2, <1>1, <1>4, <1>9
      <4>3. EdgeP(x, a, k) <=> p # Null /\ k > 0 /\ Edge(x, p, k - 1)
        BY <4>2
      <4>4. p # Null /\ k > 0 => (EdgeP(x, p, k - 1) <=> Edge(x, p, k - 1))
        BY <1>1, <1>7
      <4>5. x # a
        BY <3>2, <1>4
      <4> QED
        BY <2>2, <4>3, <4>4, <4>5, <1>1
    <3> QED
      BY <3>1, <3>2
  <2>3. CASE y \in S /\ y # a
    <3>1. parent'[y] = parent[y]
      BY <2>3, <1>1
    <3>2. \A j \in Nat : Edge(a, y, j) <=>
             parent[y] # Null /\ j > 0 /\ Edge(a, parent[y], j - 1)
      BY <2>3, <2>0, <1>1 DEF Tree, Follows
    <3>3. parent[y] # Null /\ parent[y] \in Assets /\ parent[y] \in S
      BY <2>3, <2>0, <3>2, <1>1, <1>3
    <3>4. CASE x \in S
      BY <3>4, <2>0, <3>1, <3>3, <1>8 DEF Tree, Follows
    <3>5. CASE x \notin S
      <4>1. x # y
        BY <2>3, <3>5
      <4>2. ASSUME EdgeP(x, y, k) PROVE k > 0 /\ EdgeP(x, parent[y], k - 1)
        <5>1. PICK i, j \in Nat : /\ p # Null /\ Edge(x, p, i) /\ Edge(a, y, j)
                                  /\ k = i + j + 1
          BY <4>2, <2>0, <2>3, <3>5, <1>9
        <5>2. j - 1 \in Nat /\ Edge(a, parent[y], j - 1) /\ k - 1 = i + (j - 1) + 1 /\ k - 1 \in Nat
          BY <5>1, <3>2
        <5> QED
          BY <5>1, <5>2, <3>3, <3>5, <1>9
      <4>3. ASSUME k > 0, EdgeP(x, parent[y], k - 1) PROVE EdgeP(x, y, k)
        <5>1. PICK i, j \in Nat : /\ p # Null /\ Edge(x, p, i) /\ Edge(a, parent[y], j)
                                  /\ k - 1 = i + j + 1
          BY <4>3, <3>3, <3>5, <1>9
        <5>2. j + 1 \in Nat /\ Edge(a, y, j + 1) /\ k = i + (j + 1) + 1
          BY <5>1, <3>2, <3>3
        <5> QED
          BY <5>1, <5>2, <2>0, <2>3, <3>5, <1>9
      <4> QED
        BY <4>1, <4>2, <4>3, <3>1, <3>3
    <3> QED
      BY <3>4, <3>5
  <2> QED
    BY <2>1, <2>2, <2>3
<1>13. \A x, y, z \in Assets, j, k \in Nat :
        EdgeP(x, y, j) /\ EdgeP(y, z, k) => EdgeP(x, z, j + k)
  <2> SUFFICES ASSUME NEW x \in Assets, NEW y \in Assets, NEW z \in Assets,
                      NEW j \in Nat, NEW k \in Nat, EdgeP(x, y, j), EdgeP(y, z, k)
               PROVE  EdgeP(x, z, j + k)
    OBVIOUS
  <2>0. j + k \in Nat
    OBVIOUS
  <2>1. CASE z \notin S
    <3>1. Edge(y, z, k) /\ y \notin S
      BY <2>1, <1>5, <1>7
    <3>2. Edge(x, z, j + k)
      BY <3>1, <1>7 DEF Tree, Composes
    <3> QED
      BY <2>0, <2>1, <3>2, <1>7
  <2>2. CASE z \in S /\ y \in S /\ x \in S
    <3>1. Edge(x, z, j + k)
      BY <2>2, <1>8 DEF Tree, Composes
    <3> QED
      BY <2>0, <2>2, <3>1, <1>8
  <2>3. CASE z \in S /\ y \in S /\ x \notin S
    <3>1. Edge(y, z, k)
      BY <2>3, <1>8
    <3>2. PICK i, n \in Nat : p # Null /\ Edge(x, p, i) /\ Edge(a, y, n) /\ j = i + n + 1
      BY <2>3, <1>9
    <3>3. Edge(a, z, n + k) /\ n + k \in Nat /\ j + k = i + (n + k) + 1
      BY <3>1, <3>2, <1>1 DEF Tree, Composes
    <3> QED
      BY <2>0, <2>3, <3>2, <3>3, <1>9
  <2>4. CASE z \in S /\ y \notin S
    <3>1. Edge(x, y, j) /\ x \notin S
      BY <2>4, <1>5, <1>7
    <3>2. PICK i, n \in Nat : p # Null /\ Edge(y, p, i) /\ Edge(a, z, n) /\ k = i + n + 1
      BY <2>4, <1>9
    <3>3. Edge(x, p, j + i) /\ j + i \in Nat /\ j + k = (j + i) + n + 1
      BY <3>1, <3>2, <1>1 DEF Tree, Composes
    <3> QED
      BY <2>0, <2>4, <3>1, <3>2, <3>3, <1>9
  <2> QED
    BY <2>1, <2>2, <2>3, <2>4
<1>14. ParentsExist'
  BY <1>1 DEF Tree, ParentsExist
<1> QED
  BY <1>10, <1>11, <1>12, <1>13, <1>14
  DEF Tree, Endpoints, Unique, Follows, Composes, Edge, EdgeP

----------------------------------------------------------------------------
(* The specification. *)

LEMMA RowOfType == ASSUME TypeOK, NEW a \in Assets PROVE RowOf(a) \in Row
BY DEF TypeOK, RowOf, Row

LEMMA IdleType == Idle \in Request
BY DEF Request

LEMMA LogUpdateType ==
  ASSUME TypeOK, NEW a \in Assets, NEW before \in Row, NEW after \in Row,
         LogUpdate(a, before, after)
  PROVE  replay' \in [Assets -> Row]
BY DEF TypeOK, LogUpdate, Row

(* Each action keeps every variable in its type. *)
LEMMA TypeStep == TypeOK /\ [Next]_vars => TypeOK'
<1> SUFFICES ASSUME TypeOK, [Next]_vars PROVE TypeOK'
  OBVIOUS
<1>1. ASSUME NEW a \in Assets, NEW p \in Parents, NEW n \in Names, NEW l \in Lifecycles,
             CreateAsset(a, p, n, l)
      PROVE  TypeOK'
  <2>1. closure' \subseteq ClosureRow
    <3>1. NewNodeRows(a, p) \subseteq ClosureRow
      BY DEF NewNodeRows, TypeOK, ClosureRow
    <3> QED
      BY <1>1, <3>1 DEF CreateAsset, TypeOK
  <2>2. replay' \in [Assets -> Row]
    BY <1>1 DEF CreateAsset, TypeOK, Row
  <2>3. version' \in [Assets -> 0..MaxVersion]
    BY <1>1, BoundAssumption DEF CreateAsset, TypeOK
  <2> QED
    BY <1>1, <2>1, <2>2, <2>3 DEF CreateAsset, TypeOK
<1> USE DEF store
<1>2. ASSUME NEW r \in Requests, NEW a \in Assets, OpenForm(r, a) PROVE TypeOK'
  <2>1. [op |-> "form", id |-> a, shown |-> RowOf(a), token |-> version[a]] \in Request
    BY RowOfType DEF Request, TypeOK
  <2> QED
    BY <1>2, <2>1 DEF OpenForm, TypeOK
<1>3. ASSUME NEW r \in Requests, NEW a \in Assets, BeginRetire(r, a) PROVE TypeOK'
  <2>1. [op |-> "retire", id |-> a, before |-> RowOf(a)] \in Request
    BY RowOfType DEF Request
  <2> QED
    BY <1>3, <2>1 DEF BeginRetire, TypeOK
<1>4. ASSUME NEW r \in Requests, NEW n \in Names, NEW l \in Lifecycles, SubmitForm(r, n, l)
      PROVE  TypeOK'
  <2>1. /\ req[r].id \in Assets /\ req[r].shown \in Row
        /\ req[r].token \in 0..MaxVersion
    BY <1>4 DEF SubmitForm, TypeOK, Request, Idle
  <2>2. [parent |-> parent[req[r].id], name |-> n, lifecycle |-> l] \in Row
    BY <2>1 DEF TypeOK, Row
  <2>3. [op |-> "update", id |-> req[r].id, shown |-> req[r].shown, token |-> req[r].token,
         before |-> RowOf(req[r].id),
         new |-> [parent |-> parent[req[r].id], name |-> n, lifecycle |-> l]] \in Request
    BY <2>1, <2>2, RowOfType DEF Request
  <2> QED
    BY <1>4, <2>3 DEF SubmitForm, TypeOK
<1>5. ASSUME NEW r \in Requests, NEW a \in Assets, NEW p \in Parents, BeginReparent(r, a, p)
      PROVE  TypeOK'
  <2>1. [op |-> "reparent", id |-> a, before |-> RowOf(a), to |-> p] \in Request
    BY RowOfType DEF Request
  <2> QED
    BY <1>5, <2>1 DEF BeginReparent, TypeOK
<1>6. ASSUME NEW r \in Requests, Refused(r) PROVE TypeOK'
  BY <1>6, IdleType DEF Refused, Finish, TypeOK
<1>7. ASSUME NEW r \in Requests, UpdateAsset(r) PROVE TypeOK'
  <2> DEFINE q == req[r]
  <2>1. q.id \in Assets /\ q.before \in Row /\ q.new \in Row
    BY <1>7 DEF UpdateAsset, TypeOK, Request, Idle
  <2>2. q.new.name \in Names /\ q.new.lifecycle \in Lifecycles
    BY <2>1 DEF Row
  <2>3. CASE Refused(r)
    BY <1>6, <2>3
  <2>4. CASE /\ version[q.id] < MaxVersion
             /\ name' = [name EXCEPT ![q.id] = q.new.name]
             /\ lifecycle' = [lifecycle EXCEPT ![q.id] = q.new.lifecycle]
             /\ version' = [version EXCEPT ![q.id] = @ + 1]
             /\ LogUpdate(q.id, q.before, q.new)
             /\ Finish(r)
             /\ UNCHANGED <<exists, parent, closure>>
    <3>1. replay' \in [Assets -> Row]
      BY <2>1, <2>4, LogUpdateType
    <3>2. version' \in [Assets -> 0..MaxVersion]
      BY <2>1, <2>4, BoundAssumption DEF TypeOK
    <3> QED
      BY <2>1, <2>2, <2>4, <3>1, <3>2, IdleType DEF TypeOK, Finish
  <2> QED
    BY <1>7, <2>3, <2>4 DEF UpdateAsset
<1>8. ASSUME NEW r \in Requests, RetireAsset(r) PROVE TypeOK'
  <2>1. req[r].id \in Assets
    BY <1>8 DEF RetireAsset, TypeOK, Request, Idle
  <2>2. version' \in [Assets -> 0..MaxVersion]
    BY <2>1, <1>8, BoundAssumption DEF RetireAsset, TypeOK
  <2>3. replay' \in [Assets -> Row]
    BY <2>1, <1>8 DEF RetireAsset, TypeOK, Row, Lifecycles
  <2> QED
    BY <1>8, <2>1, <2>2, <2>3, IdleType DEF RetireAsset, TypeOK, Finish, Lifecycles
<1>9. ASSUME NEW r \in Requests, req[r].id \in Assets, req[r].before \in Row,
             req[r].to \in Parents,
             NEW del, NEW add \in SUBSET ClosureRow, Move(r, del, add)
      PROVE  TypeOK'
  <2> DEFINE q == req[r]
  <2>1. CASE Refused(r)
    BY <1>6, <2>1
  <2>2. CASE /\ version[q.id] < MaxVersion
             /\ closure' = (closure \ del) \cup add
             /\ parent' = [parent EXCEPT ![q.id] = q.to]
             /\ version' = [version EXCEPT ![q.id] = @ + 1]
             /\ LogUpdate(q.id, q.before, [q.before EXCEPT !.parent = q.to])
             /\ Finish(r)
             /\ UNCHANGED <<exists, name, lifecycle>>
    <3>1. [q.before EXCEPT !.parent = q.to] \in Row
      BY <1>9 DEF Row
    <3>2. replay' \in [Assets -> Row]
      BY <1>9, <2>2, <3>1, LogUpdateType
    <3>3. version' \in [Assets -> 0..MaxVersion]
      BY <1>9, <2>2, BoundAssumption DEF TypeOK
    <3> QED
      BY <1>9, <2>2, <3>2, <3>3, IdleType DEF TypeOK, Finish
  <2> QED
    BY <1>9, <2>1, <2>2 DEF Move
<1>10. ASSUME NEW q, q.id \in Assets, q.to \in Parents
       PROVE  Adds(q) \in SUBSET ClosureRow /\ Removes(q) \in SUBSET ClosureRow
  BY <1>10 DEF Adds, Removes, CrossRows, Detached, TypeOK, ClosureRow
<1>11. ASSUME NEW r \in Requests, ReparentAsset(r) PROVE TypeOK'
  <2>1. req[r].id \in Assets /\ req[r].before \in Row /\ req[r].to \in Parents
    BY <1>11 DEF ReparentAsset, TypeOK, Request, Idle
  <2> QED
    BY <1>6, <1>9, <1>10, <1>11, <2>1 DEF ReparentAsset
<1>12. ASSUME NEW r \in Requests, CheckReparent(r) PROVE TypeOK'
  <2>1. CASE Refused(r)
    BY <1>6, <2>1
  <2>2. CASE req' = [req EXCEPT ![r].op = "checked"] /\ UNCHANGED store
    <3>1. [req[r] EXCEPT !.op = "checked"] \in Request
      BY <1>12 DEF CheckReparent, TypeOK, Request, Idle
    <3> QED
      BY <2>2, <3>1 DEF TypeOK
  <2> QED
    BY <1>12, <2>1, <2>2 DEF CheckReparent
<1>13. ASSUME NEW r \in Requests, WriteReparent(r) PROVE TypeOK'
  <2>1. req[r].id \in Assets /\ req[r].before \in Row /\ req[r].to \in Parents
    BY <1>13 DEF WriteReparent, TypeOK, Request, Idle
  <2>2. [op |-> "written", id |-> req[r].id, before |-> req[r].before, to |-> req[r].to,
         del |-> Removes(req[r]), add |-> Adds(req[r])] \in Request
    BY <1>10, <2>1 DEF Request
  <2> QED
    BY <1>13, <2>2 DEF WriteReparent, TypeOK
<1>14. ASSUME NEW r \in Requests, CommitReparent(r) PROVE TypeOK'
  <2>1. /\ req[r].id \in Assets /\ req[r].before \in Row /\ req[r].to \in Parents
        /\ req[r].add \in SUBSET ClosureRow
    BY <1>14 DEF CommitReparent, TypeOK, Request, Idle
  <2> QED
    BY <1>9, <1>14, <2>1 DEF CommitReparent
<1>15. CASE UNCHANGED vars
  BY <1>15 DEF vars, TypeOK
<1> QED
  BY <1>1, <1>2, <1>3, <1>4, <1>5, <1>7, <1>8, <1>11, <1>12, <1>13, <1>14, <1>15 DEF Next

LEMMA InitType == Init => TypeOK
BY BoundAssumption, IdleType
DEF Init, TypeOK, Lifecycles, Parents, Row, RowOf, ClosureRow

(* Every variable keeps its type on both engines, whatever the requests do. *)
THEOREM TypeCorrect == Spec => []TypeOK
BY InitType, TypeStep, PTL DEF Spec

(* A step that leaves the tree's variables alone keeps the tree. *)
LEMMA TreeFrame ==
  ASSUME Tree, UNCHANGED <<exists, parent, closure>> PROVE Tree'
BY DEF Tree, Endpoints, Unique, Follows, Composes, ParentsExist, Edge

(* On the serialised engine every step keeps the inductive invariant. *)
LEMMA TreeStep == ASSUME Engine = "sqlite" PROVE IInv /\ [Next]_vars => IInv'
<1> SUFFICES ASSUME IInv, [Next]_vars PROVE IInv'
  OBVIOUS
<1> USE DEF IInv
<1>0. TypeOK'
  BY TypeStep
<1> USE DEF store
<1>1. ASSUME NEW a \in Assets, NEW p \in Parents, NEW n \in Names, NEW l \in Lifecycles,
             CreateAsset(a, p, n, l)
      PROVE  Tree' /\ RequestsExist'
  BY <1>0, <1>1, CreateKeepsTree DEF CreateAsset, RequestsExist
<1>2. ASSUME NEW r \in Requests, NEW a \in Assets, OpenForm(r, a) \/ BeginRetire(r, a)
      PROVE  Tree' /\ RequestsExist'
  BY <1>2, TreeFrame DEF OpenForm, BeginRetire, RequestsExist, TypeOK
<1>3. ASSUME NEW r \in Requests, NEW n \in Names, NEW l \in Lifecycles, SubmitForm(r, n, l)
      PROVE  Tree' /\ RequestsExist'
  BY <1>3, TreeFrame DEF SubmitForm, RequestsExist, TypeOK
<1>4. ASSUME NEW r \in Requests, NEW a \in Assets, NEW p \in Parents, BeginReparent(r, a, p)
      PROVE  Tree' /\ RequestsExist'
  BY <1>4, TreeFrame DEF BeginReparent, RequestsExist, TypeOK
<1>5. ASSUME NEW r \in Requests, Finish(r), exists' = exists PROVE RequestsExist'
  BY <1>5 DEF Finish, RequestsExist, TypeOK, Idle
<1>6. ASSUME NEW r \in Requests, UpdateAsset(r) PROVE Tree' /\ RequestsExist'
  BY <1>5, <1>6, TreeFrame DEF UpdateAsset, Refused
<1>7. ASSUME NEW r \in Requests, RetireAsset(r) PROVE Tree' /\ RequestsExist'
  BY <1>5, <1>7, TreeFrame DEF RetireAsset
<1>8. ASSUME NEW r \in Requests, ReparentAsset(r) PROVE Tree' /\ RequestsExist'
  <2> DEFINE q == req[r]
  <2>1. CASE Refused(r)
    BY <1>5, <2>1, TreeFrame DEF Refused
  <2>2. CASE /\ MayMove(q)
             /\ closure' = (closure \ Removes(q)) \cup Adds(q)
             /\ parent' = [parent EXCEPT ![q.id] = q.to]
             /\ exists' = exists
             /\ Finish(r)
    <3>1. q.id \in exists /\ q.to \in exists \cup {Null}
      BY <1>8 DEF ReparentAsset, RequestsExist
    <3>2. q.to # Null => q.to \notin Subtree(q.id)
      BY <2>2 DEF MayMove
    <3>3. Tree'
      BY <1>0, <2>2, <3>1, <3>2, MoveKeepsTree
    <3> QED
      BY <1>5, <2>2, <3>3
  <2> QED
    BY <1>8, <2>1, <2>2 DEF ReparentAsset, Move
<1>9. CASE UNCHANGED vars
  BY <1>0, <1>9, TreeFrame DEF vars, RequestsExist
<1>10. ASSUME NEW r \in Requests, CheckReparent(r) \/ WriteReparent(r) \/ CommitReparent(r)
       PROVE  FALSE
  BY <1>10 DEF CheckReparent, WriteReparent, CommitReparent
<1>11. Tree' /\ RequestsExist'
  <2>1. CASE Next
    BY <2>1, <1>1, <1>2, <1>3, <1>4, <1>6, <1>7, <1>8, <1>10 DEF Next
  <2> QED
    BY <2>1, <1>9
<1> QED
  BY <1>0, <1>11

LEMMA InitInv == Init => IInv
BY InitType DEF Init, IInv, Tree, Endpoints, Unique, Follows, Composes, ParentsExist,
                Edge, RequestsExist, Idle

(* On the serialised engine, for every set of assets, the closure table      *)
(* always equals what the parent pointers say, and nothing contains itself.  *)
THEOREM ClosureExactOnSQLite ==
  ASSUME Engine = "sqlite" PROVE Spec => []ClosureExact
<1>1. Init => IInv
  BY InitInv
<1>2. IInv /\ [Next]_vars => IInv'
  BY TreeStep
<1>3. IInv => ClosureExact
  BY TreeIsExact
<1> QED
  BY <1>1, <1>2, <1>3, PTL DEF Spec

----------------------------------------------------------------------------
(* The refinement: the table without its depths is the walk up the parents. *)

LEMMA LeastNat ==
  ASSUME NEW T, T \subseteq Nat, T # {} PROVE \E n \in T : \A m \in T : n <= m
<1> DEFINE R == {ss \in Nat \X Nat : ss[1] < ss[2]}
<1>1. IsWellFoundedOn(R, Nat)
  BY NatLessThanWellFounded, Zenon DEF OpToRel
<1> HIDE DEF R
<1>2. PICK n \in T : \A m \in T : ~(<<m, n>> \in R)
  BY <1>1, WFMin
<1>3. ASSUME NEW m \in T, m < n PROVE <<m, n>> \in R
  BY <1>3 DEF R
<1>4. ASSUME NEW m \in T PROVE n <= m
  <2>1. ~(m < n)
    BY <1>2, <1>3
  <2>2. n \in Int /\ m \in Int
    OBVIOUS
  <2> QED
    BY <2>1, <2>2
<1> QED
  BY <1>4

(* Rows between an asset and one k levels above it, as Follows gives them. *)
LEMMA UpOne ==
  ASSUME TypeOK, Tree, NEW x \in Assets, NEW y \in Assets, NEW k \in Nat, Edge(x, y, k), k > 0
  PROVE  /\ y \in exists /\ parent[y] \in exists /\ parent[y] \in Assets /\ parent[y] # Null
         /\ Edge(x, parent[y], k - 1)
<1>1. y \in exists
  BY DEF Tree, Endpoints
<1>2. parent[y] # Null /\ Edge(x, parent[y], k - 1)
  BY <1>1 DEF Tree, Follows
<1> QED
  BY <1>1, <1>2 DEF Tree, ParentsExist, TypeOK

(* On the way from x down to b lies a child of x. *)
LEMMA ChildOnTheWay ==
  ASSUME TypeOK, Tree, NEW x \in Assets, NEW b \in Assets, NEW k \in Nat, Edge(x, b, k), k > 0
  PROVE  \E c \in Assets : parent[c] = x /\ Edge(c, b, k - 1)
<1> DEFINE Bad(n, z) == n > 0 /\ Edge(x, z, n) /\ ~\E c \in Assets : parent[c] = x /\ Edge(c, z, n - 1)
           T == {n \in Nat : \E z \in Assets : Bad(n, z)}
<1>1. SUFFICES ASSUME T # {} PROVE FALSE
  OBVIOUS
<1>2. PICK n \in T : \A m \in T : n <= m
  BY <1>1, LeastNat
<1>3. PICK z \in Assets : Bad(n, z)
  OBVIOUS
<1>4. n \in Nat
  OBVIOUS
<1>5. /\ z \in exists /\ parent[z] \in exists /\ parent[z] \in Assets /\ parent[z] # Null
      /\ Edge(x, parent[z], n - 1)
  BY <1>3, <1>4, UpOne
<1>6. n - 1 \in Nat /\ n - 1 < n
  BY <1>3, <1>4
<1>7. CASE n - 1 = 0
  <2>1. x = parent[z]
    BY <1>5, <1>7, ZeroIsSelf
  <2>2. Edge(z, z, 0)
    BY <1>5 DEF Tree, Follows
  <2> QED
    BY <1>3, <1>7, <2>1, <2>2
<1>8. CASE n - 1 > 0
  <2>1. n - 1 \notin T
    BY <1>2, <1>4, <1>6
  <2>2. ~Bad(n - 1, parent[z])
    BY <2>1, <1>5, <1>6
  <2>3. PICK c \in Assets : parent[c] = x /\ Edge(c, parent[z], n - 1 - 1)
    BY <2>2, <1>5, <1>8
  <2>4. Edge(c, z, n - 1)
    BY <2>3, <1>5, <1>6, <1>8 DEF Tree, Follows
  <2> QED
    BY <1>3, <2>3, <2>4
<1> QED
  BY <1>6, <1>7, <1>8

(* The ancestors of an asset, itself included. *)
Above(b) == {x \in Assets : \E k \in Nat : Edge(x, b, k)}

(* No chain is longer than there are assets: every level adds one. *)
LEMMA DepthBounded ==
  ASSUME TypeOK, Tree, NEW x \in Assets, NEW b \in Assets, NEW k \in Nat, Edge(x, b, k)
  PROVE  k <= Cardinality(Assets)
<1> DEFINE Bad(n, z) == (\E y \in Assets : Edge(y, z, n)) /\ ~(n < Cardinality(Above(z)))
           T == {n \in Nat : \E z \in Assets : Bad(n, z)}
<1>0. \A z : IsFiniteSet(Above(z)) /\ Cardinality(Above(z)) \in Nat /\ Cardinality(Above(z)) <= Cardinality(Assets)
  <2> TAKE z
  <2>1. Above(z) \subseteq Assets
    BY DEF Above
  <2> QED
    BY <2>1, AssetsAssumption, FS_Subset, FS_CardinalityType
<1>1. ASSUME T # {} PROVE FALSE
  <2>2. PICK n \in T : \A m \in T : n <= m
    BY <1>1, LeastNat
  <2>3. PICK z \in Assets : Bad(n, z)
    OBVIOUS
  <2>4. PICK y \in Assets : Edge(y, z, n)
    BY <2>3
  <2>5. n \in Nat
    OBVIOUS
  <2>6. z \in exists /\ z \in Above(z)
    BY <2>4 DEF Tree, Endpoints, Follows, Above
  <2>7. CASE n = 0
    <3>1. Cardinality(Above(z)) # 0
      BY <1>0, <2>6, FS_EmptySet
    <3> QED
      BY <1>0, <2>3, <2>7, <3>1
  <2>8. CASE n > 0
    <3>1. /\ z \in exists /\ parent[z] \in exists /\ parent[z] \in Assets /\ parent[z] # Null
          /\ Edge(y, parent[z], n - 1)
      BY <2>4, <2>5, <2>8, UpOne
    <3>2. n - 1 \in Nat /\ n - 1 < n
      BY <2>5, <2>8
    <3>3. n - 1 \notin T
      BY <2>2, <2>5, <3>2
    <3>4. n - 1 < Cardinality(Above(parent[z]))
      BY <3>1, <3>2, <3>3
    <3>5. Above(z) = Above(parent[z]) \cup {z}
      <4>1. ASSUME NEW w \in Above(z) PROVE w \in Above(parent[z]) \cup {z}
        <5>1. PICK j \in Nat : Edge(w, z, j)
          BY DEF Above
        <5>2. w = z \/ (j > 0 /\ Edge(w, parent[z], j - 1))
          BY <5>1, <3>1 DEF Tree, Follows, Above
        <5>3. j > 0 => j - 1 \in Nat
          OBVIOUS
        <5> QED
          BY <5>2, <5>3 DEF Above
      <4>2. ASSUME NEW w \in Above(parent[z]) PROVE w \in Above(z)
        <5>1. PICK j \in Nat : Edge(w, parent[z], j)
          BY DEF Above
        <5>2. j + 1 \in Nat /\ j + 1 > 0 /\ j + 1 - 1 = j
          OBVIOUS
        <5>3. Edge(w, z, j + 1)
          BY <5>1, <5>2, <3>1 DEF Tree, Follows, Above
        <5> QED
          BY <5>3 DEF Above
      <4> QED
        BY <4>1, <4>2, <2>6
    <3>6. z \notin Above(parent[z])
      <4> SUFFICES ASSUME NEW j \in Nat, Edge(z, parent[z], j) PROVE FALSE
        BY DEF Above
      <4>1. j + 1 \in Nat /\ j + 1 > 0 /\ j + 1 - 1 = j
        OBVIOUS
      <4>2. Edge(z, z, j + 1)
        BY <4>1, <3>1 DEF Tree, Follows
      <4> QED
        BY <4>1, <4>2, SelfIsZero
    <3>7. Cardinality(Above(z)) = Cardinality(Above(parent[z])) + 1
      BY <1>0, <3>5, <3>6, FS_AddElement
    <3> QED
      BY <1>0, <2>3, <2>5, <3>4, <3>7
  <2> QED
    BY <2>5, <2>7, <2>8
<1>2. k < Cardinality(Above(b))
  BY <1>1
<1>3. Cardinality(Assets) \in Nat
  BY AssetsAssumption, FS_CardinalityType
<1> QED
  BY <1>0, <1>2, <1>3

(* The walk up the parents finds exactly the ancestors in the table. *)
LEMMA WalkIsAbove ==
  ASSUME TypeOK, Tree, NEW b \in exists PROVE Abstract!Walk(parent, b) = Above(b)
<1> DEFINE N == Cardinality(Assets)
           Up(S) == S \cup ({parent[c] : c \in S} \ {Null})
           Rec(f) == f = [d \in 0..N |-> IF d = 0 THEN {b} ELSE Up(f[d - 1])]
           G == [d \in 0..N |-> {x \in Assets : \E k \in 0..d : Edge(x, b, k)}]
           step == CHOOSE f : Rec(f)
<1>0. b \in Assets /\ N \in Nat
  BY AssetsAssumption, FS_CardinalityType DEF TypeOK
<1>1. Abstract!Walk(parent, b) = step[N]
  <2>1. Abstract!Cardinality(Assets) = Cardinality(Assets)
    BY Zenon DEF Abstract!Cardinality, Cardinality
  <2> QED
    BY <2>1, Zenon DEF Abstract!Walk
<1>2. Edge(b, b, 0)
  BY <1>0 DEF Tree, Follows
<1>3. ASSUME NEW d \in 0..N PROVE G[d] = IF d = 0 THEN {b} ELSE Up(G[d - 1])
  <2>1. CASE d = 0
    BY <1>0, <1>2, <2>1, ZeroIsSelf
  <2>2. CASE d # 0
    <3>1. d - 1 \in 0..N /\ d \in Nat /\ d > 0 /\ d - 1 \in Nat
      BY <1>0, <2>2
    <3>2. ASSUME NEW x \in Assets, NEW k \in 0..d, Edge(x, b, k) PROVE x \in Up(G[d - 1])
      <4>1. CASE k <= d - 1
        BY <3>1, <3>2, <4>1
      <4>2. CASE k = d
        <5>1. PICK c \in Assets : parent[c] = x /\ Edge(c, b, d - 1)
          BY <1>0, <3>1, <3>2, <4>2, ChildOnTheWay
        <5>2. c \in G[d - 1]
          BY <3>1, <5>1
        <5>3. x # Null
          BY <3>2, NullAssumption
        <5> HIDE DEF G
        <5> QED
          BY <5>1, <5>2, <5>3
      <4> QED
        BY <3>1, <4>1, <4>2
    <3>3. ASSUME NEW x \in Up(G[d - 1]) PROVE x \in G[d]
      <4>1. CASE x \in G[d - 1]
        BY <3>1, <4>1
      <4>2. CASE \E c \in G[d - 1] : x = parent[c] /\ x # Null
        <5>1. PICK c \in Assets, k \in 0 .. d - 1 : x = parent[c] /\ x # Null /\ Edge(c, b, k)
          BY <4>2, <3>1
        <5>2. c \in exists /\ x \in exists /\ x \in Assets /\ k \in Nat /\ k + 1 \in 0..d
          BY <5>1, <1>0, <3>1 DEF Tree, Endpoints, ParentsExist, TypeOK
        <5>3. Edge(x, x, 0)
          BY <5>2 DEF Tree, Follows
        <5>4. Edge(x, c, 1)
          BY <5>1, <5>2, <5>3 DEF Tree, Follows
        <5>5. Edge(x, b, 1 + k)
          BY <5>1, <5>2, <5>4, <1>0 DEF Tree, Composes
        <5> QED
          BY <5>2, <5>5
      <4> QED
        BY <4>1, <4>2
    <3>4. G[d] = {x \in Assets : \E k \in 0..d : Edge(x, b, k)}
      OBVIOUS
    <3> HIDE DEF G, Up
    <3> QED
      BY <2>2, <3>2, <3>3, <3>4
  <2> QED
    BY <2>1, <2>2
<1> HIDE DEF Up
<1>4. Rec(G)
  <2> HIDE DEF G
  <2>1. G = [d \in 0..N |-> G[d]]
    BY DEF G
  <2> QED
    BY <1>3, <2>1
<1>5. Rec(step)
  <2> HIDE DEF Rec, G
  <2> QED
    BY <1>4
<1> HIDE DEF step
<1>6. ASSUME NEW d \in 0..N PROVE step[d] = G[d]
  <2> DEFINE T == {n \in 0..N : step[n] # G[n]}
  <2> SUFFICES ASSUME T # {} PROVE FALSE
    OBVIOUS
  <2>1. T \subseteq Nat
    BY <1>0
  <2>2. PICK n \in T : \A m \in T : n <= m
    BY <2>1, LeastNat
  <2>3. n \in 0..N /\ n \in Nat
    BY <2>1
  <2>4. step[n] = IF n = 0 THEN {b} ELSE Up(step[n - 1])
    BY <1>5, <2>3
  <2> HIDE DEF G, Rec
  <2>5. G[n] = IF n = 0 THEN {b} ELSE Up(G[n - 1])
    BY <1>3, <2>3
  <2>6. n # 0 => n - 1 \in 0..N /\ n - 1 < n
    BY <1>0, <2>3
  <2>7. n # 0 => n - 1 \notin T
    BY <2>2, <2>3, <2>6
  <2> QED
    BY <2>2, <2>4, <2>5, <2>6, <2>7
<1>7. N \in 0..N
  BY <1>0
<1>8. G[N] = Above(b)
  <2>1. ASSUME NEW x \in Assets, NEW k \in Nat, Edge(x, b, k) PROVE k \in 0..N
    BY <1>0, <2>1, DepthBounded
  <2>2. \A k \in 0..N : k \in Nat
    BY <1>0
  <2>3. G[N] = {x \in Assets : \E k \in 0..N : Edge(x, b, k)}
    BY <1>7
  <2> HIDE DEF G, N
  <2> QED
    BY <2>1, <2>2, <2>3 DEF Above
<1> HIDE DEF G
<1> QED
  BY <1>1, <1>6, <1>7, <1>8

(* The table without its depths. *)
Inside == {<<c[1], c[2]>> : c \in closure}

LEMMA InsideRows ==
  ASSUME TypeOK PROVE Inside = {p \in Assets \X Assets : p[1] \in Above(p[2])}
<1>0. closure \subseteq Assets \X Assets \X Nat
  BY DEF TypeOK, ClosureRow
<1>1. ASSUME NEW c \in closure
      PROVE  <<c[1], c[2]>> \in Assets \X Assets /\ c[1] \in Above(c[2])
  <2>1. c = <<c[1], c[2], c[3]>> /\ c[1] \in Assets /\ c[2] \in Assets /\ c[3] \in Nat
    BY <1>0
  <2>2. Edge(c[1], c[2], c[3])
    BY <2>1 DEF Edge
  <2> QED
    BY <2>1, <2>2 DEF Above
<1>2. ASSUME NEW x \in Assets, NEW y \in Assets, x \in Above(y) PROVE <<x, y>> \in Inside
  <2>1. PICK k \in Nat : <<x, y, k>> \in closure
    BY <1>2 DEF Above, Edge
  <2>2. <<x, y, k>>[1] = x /\ <<x, y, k>>[2] = y
    OBVIOUS
  <2> QED
    BY <2>1, <2>2, Zenon DEF Inside
<1> QED
  BY <1>1, <1>2 DEF Inside

(* What SubtreeIDs and the ancestor queries answer is what a walk answers. *)
LEMMA InsideIsWalked ==
  ASSUME TypeOK, Tree PROVE Inside = Abstract!Containment(exists, parent)
<1>1. Abstract!Containment(exists, parent) = UNION {Above(b) \X {b} : b \in exists}
  BY WalkIsAbove DEF Abstract!Containment
<1>2. \A x, y \in Assets : x \in Above(y) => y \in exists
  BY DEF Above, Tree, Endpoints
<1>3. exists \subseteq Assets /\ \A b : Above(b) \subseteq Assets
  BY DEF TypeOK, Above
<1> QED
  BY <1>1, <1>2, <1>3, InsideRows

(* Every step of the asset table is a step of the forest or leaves it alone. *)
LEMMA StepRefines ==
  ASSUME Engine = "sqlite", IInv, IInv', [Next]_vars,
         Inside = Abstract!Containment(exists, parent),
         Inside' = Abstract!Containment(exists', parent')
  PROVE  [Abstract!Next]_(Abstract!vars)
<1> USE DEF store
<1>0. ASSUME UNCHANGED <<exists, parent, closure>> PROVE UNCHANGED Abstract!vars
  BY <1>0 DEF Abstract!vars
<1>1. ASSUME NEW a \in Assets, NEW p \in Parents, NEW n \in Names, NEW l \in Lifecycles,
             CreateAsset(a, p, n, l)
      PROVE  Abstract!Next
  <2>1. Abstract!Add(a, p)
    BY <1>1 DEF CreateAsset, Abstract!Add, Inside
  <2> QED
    BY <2>1 DEF Abstract!Next, Parents
<1>2. ASSUME NEW r \in Requests, ReparentAsset(r) PROVE Abstract!Next \/ UNCHANGED Abstract!vars
  <2> DEFINE q == req[r]
  <2>1. CASE Refused(r)
    BY <1>0, <2>1 DEF Refused
  <2>2. CASE /\ MayMove(q)
             /\ parent' = [parent EXCEPT ![q.id] = q.to]
             /\ exists' = exists
    <3>1. q.id \in exists /\ q.to \in exists \cup {Null}
      BY <1>2 DEF ReparentAsset, IInv, RequestsExist
    <3>2. q.id \in Assets /\ q.to \in Parents
      BY <3>1 DEF IInv, TypeOK, Parents
    <3>3. q.to = Null \/ q.id \notin Abstract!Walk(parent, q.to)
      <4> SUFFICES ASSUME q.to # Null, q.id \in Abstract!Walk(parent, q.to) PROVE FALSE
        OBVIOUS
      <4>1. q.to \in exists /\ q.to \in Assets
        BY <3>1, NullAssumption DEF IInv, TypeOK
      <4>2. q.id \in Above(q.to)
        BY <4>1, WalkIsAbove DEF IInv
      <4>3. q.to \in Subtree(q.id)
        BY <3>2, <4>1, <4>2, SubtreeRows DEF IInv, Above
      <4> QED
        BY <2>2, <4>3 DEF MayMove
    <3>4. PICK a \in Assets, p \in Parents : a = q.id /\ p = q.to
      BY <3>2
    <3>5. Abstract!Move(a, p)
      BY <2>2, <3>1, <3>3, <3>4 DEF Abstract!Move, Inside
    <3> QED
      BY <3>5 DEF Abstract!Next, Parents
  <2> QED
    BY <1>2, <2>1, <2>2 DEF ReparentAsset, Move
<1>3. ASSUME NEW r \in Requests, CheckReparent(r) \/ WriteReparent(r) \/ CommitReparent(r)
      PROVE  FALSE
  BY <1>3 DEF CheckReparent, WriteReparent, CommitReparent
<1>4. CASE Next
  <2>1. ASSUME NEW r \in Requests, NEW a \in Assets, OpenForm(r, a) \/ BeginRetire(r, a)
        PROVE  UNCHANGED Abstract!vars
    BY <1>0, <2>1 DEF OpenForm, BeginRetire
  <2>2. ASSUME NEW r \in Requests, NEW n \in Names, NEW l \in Lifecycles, SubmitForm(r, n, l)
        PROVE  UNCHANGED Abstract!vars
    BY <1>0, <2>2 DEF SubmitForm
  <2>3. ASSUME NEW r \in Requests, NEW a \in Assets, NEW p \in Parents, BeginReparent(r, a, p)
        PROVE  UNCHANGED Abstract!vars
    BY <1>0, <2>3 DEF BeginReparent
  <2>4. ASSUME NEW r \in Requests, UpdateAsset(r) \/ RetireAsset(r) PROVE UNCHANGED Abstract!vars
    BY <1>0, <2>4 DEF UpdateAsset, RetireAsset, Refused
  <2> QED
    BY <1>1, <1>2, <1>3, <1>4, <2>1, <2>2, <2>3, <2>4 DEF Next
<1>5. CASE UNCHANGED vars
  BY <1>0, <1>5 DEF vars
<1> QED
  BY <1>4, <1>5

(* On the serialised engine the asset table with its closure implements the *)
(* forest: creates add leaves, moves take subtrees along and never into     *)
(* themselves, nothing else moves anything, and the table always answers    *)
(* what a walk up the parents answers.                                      *)
THEOREM TableImplementsForest ==
  ASSUME Engine = "sqlite" PROVE Spec => ImplementsForest
<1>1. Init => IInv
  BY InitInv
<1>2. IInv /\ [Next]_vars => IInv'
  BY TreeStep
<1> DEFINE Walked == Inside = Abstract!Containment(exists, parent)
<1>3. IInv => Walked
  BY InsideIsWalked DEF IInv
<1>4. Init => Abstract!Init
  BY DEF Init, Abstract!Init
<1>5. IInv /\ IInv' /\ Walked /\ Walked' /\ [Next]_vars => [Abstract!Next]_(Abstract!vars)
  BY StepRefines
<1> HIDE DEF Walked
<1> QED
  BY <1>1, <1>2, <1>3, <1>4, <1>5, PTL DEF Spec, ImplementsForest, Abstract!Spec

----------------------------------------------------------------------------
(* Optimistic locking and the audit replay, on both engines. *)

(* A token still current means nothing the form showed has moved.  RowOf    *)
(* says nothing of the version, so this links the two columns of the row.   *)
Tokens ==
  \A r \in Requests :
    /\ req[r].op \in {"form", "update"} =>
         /\ req[r].id \in exists
         /\ req[r].token <= version[req[r].id]
         /\ req[r].token = version[req[r].id] => req[r].shown = RowOf(req[r].id)
    /\ req[r].op = "update" =>
         (req[r].token = version[req[r].id] => req[r].before = RowOf(req[r].id))

Targets ==
  \A r \in Requests : req[r].op # "idle" => req[r].id \in exists

(* The row as the next state has it. *)
NextRow(a) == [parent |-> parent'[a], name |-> name'[a], lifecycle |-> lifecycle'[a]]

LockInv == TypeOK /\ Targets /\ Tokens /\ AuditReplaysNameAndLifecycle

(* A step after which every changed row has a higher version keeps tokens.  *)
LEMMA TokensFrame ==
  ASSUME TypeOK, Targets, Tokens, NEW r \in Requests,
         req' = [req EXCEPT ![r] = Idle], exists' = exists,
         \A a \in exists : \/ version'[a] = version[a] /\ NextRow(a) = RowOf(a)
                          \/ version'[a] = version[a] + 1
  PROVE  Targets' /\ Tokens'
<1>1. Targets'
  BY DEF Targets, Idle, TypeOK
<1>2. ASSUME NEW s \in Requests, req'[s].op \in {"form", "update"}
      PROVE  /\ req'[s].id \in exists
             /\ req'[s].token <= version'[req'[s].id]
             /\ req'[s].token = version'[req'[s].id] =>
                  /\ req'[s].shown = NextRow(req'[s].id)
                  /\ req'[s].op = "update" => req'[s].before = NextRow(req'[s].id)
  <2>1. s # r /\ req'[s] = req[s]
    BY <1>2 DEF Idle, TypeOK
  <2>2. /\ req[s].id \in exists /\ req[s].token <= version[req[s].id]
        /\ req[s].token = version[req[s].id] =>
             /\ req[s].shown = RowOf(req[s].id)
             /\ req[s].op = "update" => req[s].before = RowOf(req[s].id)
    BY <1>2, <2>1 DEF Tokens
  <2>3. req[s].token \in Int /\ version[req[s].id] \in Int
    BY <1>2, <2>1, <2>2, BoundAssumption DEF TypeOK, Request, Idle
  <2>4. \/ version'[req[s].id] = version[req[s].id] /\ NextRow(req[s].id) = RowOf(req[s].id)
        \/ version'[req[s].id] = version[req[s].id] + 1
    BY <2>2
  <2> QED
    BY <2>1, <2>2, <2>3, <2>4
<1> QED
  BY <1>1, <1>2 DEF Tokens, RowOf, NextRow

LEMMA LockStep == LockInv /\ [Next]_vars => LockInv'
<1> SUFFICES ASSUME LockInv, [Next]_vars PROVE LockInv'
  OBVIOUS
<1> USE DEF LockInv
<1>0. TypeOK'
  BY TypeStep
<1> DEFINE Goal == Targets' /\ Tokens' /\ AuditReplaysNameAndLifecycle'
<1>1. ASSUME NEW r \in Requests, NEW x, req' = [req EXCEPT ![r] = x], UNCHANGED store,
             x.op # "idle" => x.id \in exists,
             x.op \in {"form", "update"} =>
                /\ x.token <= version[x.id]
                /\ x.token = version[x.id] => x.shown = RowOf(x.id),
             x.op = "update" => x.before = RowOf(x.id)
      PROVE  Goal
  <2>1. \A a : NextRow(a) = RowOf(a)
    BY <1>1 DEF RowOf, NextRow, store
  <2>2. UNCHANGED <<exists, name, lifecycle, version, replay>>
    BY <1>1 DEF store
  <2>3. \A s \in Requests : req'[s] = IF s = r THEN x ELSE req[s]
    BY <1>1 DEF TypeOK
  <2>4. Targets'
    BY <1>1, <2>2, <2>3 DEF Targets
  <2>5. ASSUME NEW s \in Requests
        PROVE  /\ req'[s].op \in {"form", "update"} =>
                    /\ req'[s].id \in exists'
                    /\ req'[s].token <= version'[req'[s].id]
                    /\ req'[s].token = version'[req'[s].id] =>
                         req'[s].shown = NextRow(req'[s].id)
               /\ req'[s].op = "update" =>
                    (req'[s].token = version'[req'[s].id] =>
                       req'[s].before = NextRow(req'[s].id))
    <3>1. CASE s = r
      BY <1>1, <2>1, <2>2, <2>3, <3>1
    <3>2. CASE s # r
      BY <2>1, <2>2, <2>3, <3>2 DEF Tokens
    <3> QED
      BY <3>1, <3>2
  <2>6. Tokens'
    BY <2>5 DEF Tokens, RowOf, NextRow
  <2> QED
    BY <2>2, <2>4, <2>6 DEF AuditReplaysNameAndLifecycle
<1>2. ASSUME NEW r \in Requests, Refused(r) PROVE Goal
  <2>1. req' = [req EXCEPT ![r] = Idle] /\ UNCHANGED store /\ Idle.op = "idle"
    BY <1>2 DEF Refused, Finish, Idle
  <2> QED
    BY <1>1, <2>1
<1>3. ASSUME NEW a \in Assets, NEW p \in Parents, NEW n \in Names, NEW l \in Lifecycles,
             CreateAsset(a, p, n, l)
      PROVE  Goal
  <2>1. /\ a \notin exists /\ exists' = exists \cup {a} /\ req' = req
        /\ \A b \in exists : /\ b # a /\ b \in Assets
                             /\ version'[b] = version[b] /\ replay'[b] = replay[b]
                             /\ name'[b] = name[b] /\ lifecycle'[b] = lifecycle[b]
                             /\ parent'[b] = parent[b]
        /\ name'[a] = n /\ lifecycle'[a] = l
        /\ replay'[a] = [parent |-> p, name |-> n, lifecycle |-> l]
    BY <1>3 DEF CreateAsset, TypeOK
  <2>2. \A b \in exists : NextRow(b) = RowOf(b)
    BY <2>1 DEF RowOf, NextRow
  <2>3. Targets' /\ Tokens'
    BY <2>1, <2>2 DEF Targets, Tokens, RowOf, NextRow
  <2> QED
    BY <2>1, <2>3 DEF AuditReplaysNameAndLifecycle
<1>4. ASSUME NEW r \in Requests, NEW a \in Assets, OpenForm(r, a) PROVE Goal
  <2> DEFINE x == [op |-> "form", id |-> a, shown |-> RowOf(a), token |-> version[a]]
  <2>1. /\ req' = [req EXCEPT ![r] = x] /\ UNCHANGED store /\ a \in exists
        /\ version[a] <= version[a]
    BY <1>4, BoundAssumption DEF OpenForm, TypeOK
  <2> QED
    BY <1>1, <2>1
<1>5. ASSUME NEW r \in Requests, NEW a \in Assets, BeginRetire(r, a) PROVE Goal
  BY <1>1, <1>5 DEF BeginRetire
<1>6. ASSUME NEW r \in Requests, NEW a \in Assets, NEW p \in Parents, BeginReparent(r, a, p)
      PROVE  Goal
  BY <1>1, <1>6 DEF BeginReparent
<1>7. ASSUME NEW r \in Requests, NEW n \in Names, NEW l \in Lifecycles, SubmitForm(r, n, l)
      PROVE  Goal
  <2> DEFINE a == req[r].id
             x == [op |-> "update", id |-> a, shown |-> req[r].shown, token |-> req[r].token,
                   before |-> RowOf(a),
                   new |-> [parent |-> parent[a], name |-> n, lifecycle |-> l]]
  <2>1. /\ req' = [req EXCEPT ![r] = x] /\ UNCHANGED store /\ a \in exists
        /\ req[r].token <= version[a]
        /\ req[r].token = version[a] => req[r].shown = RowOf(a)
    BY <1>7 DEF SubmitForm, Tokens
  <2> QED
    BY <1>1, <2>1
<1>8. ASSUME NEW r \in Requests, UpdateAsset(r) PROVE Goal
  <2> DEFINE q == req[r]
             a == q.id
  <2>0. a \in exists /\ a \in Assets /\ q.new \in Row /\ q.before \in Row
    BY <1>8 DEF UpdateAsset, Targets, TypeOK, Request, Idle
  <2>1. CASE Refused(r)
    BY <1>2, <2>1
  <2>2. CASE /\ q.token = version[a]
             /\ name' = [name EXCEPT ![a] = q.new.name]
             /\ lifecycle' = [lifecycle EXCEPT ![a] = q.new.lifecycle]
             /\ version' = [version EXCEPT ![a] = @ + 1]
             /\ LogUpdate(a, q.before, q.new)
             /\ Finish(r)
             /\ UNCHANGED <<exists, parent, closure>>
    <3>1. \A b \in exists : \/ version'[b] = version[b] /\ NextRow(b) = RowOf(b)
                            \/ version'[b] = version[b] + 1
      BY <2>0, <2>2 DEF TypeOK, RowOf, NextRow
    <3>2. Targets' /\ Tokens'
      BY <2>2, <3>1, TokensFrame DEF Finish
    <3>3. q.before = RowOf(a)
      BY <1>8, <2>2 DEF UpdateAsset, Tokens
    <3>4. q.before.name = name[a] /\ q.before.lifecycle = lifecycle[a]
      BY <3>3 DEF RowOf
    <3>5. AuditReplaysNameAndLifecycle'
      BY <2>0, <2>2, <3>4 DEF AuditReplaysNameAndLifecycle, LogUpdate, TypeOK
    <3> QED
      BY <3>2, <3>5
  <2> QED
    BY <1>8, <2>1, <2>2 DEF UpdateAsset
<1>9. ASSUME NEW r \in Requests, RetireAsset(r) PROVE Goal
  <2>0. req[r].id \in exists /\ req[r].id \in Assets
    BY <1>9 DEF RetireAsset, Targets, TypeOK
  <2>1. \A b \in exists : \/ version'[b] = version[b] /\ NextRow(b) = RowOf(b)
                          \/ version'[b] = version[b] + 1
    BY <1>9, <2>0 DEF RetireAsset, TypeOK, RowOf, NextRow
  <2>2. Targets' /\ Tokens'
    BY <1>9, <2>1, TokensFrame DEF RetireAsset, Finish
  <2>3. AuditReplaysNameAndLifecycle'
    BY <1>9, <2>0 DEF RetireAsset, AuditReplaysNameAndLifecycle, TypeOK, Row
  <2> QED
    BY <2>2, <2>3
<1>10. ASSUME NEW r \in Requests, req[r].op \in {"reparent", "written"},
              NEW del, NEW add, Move(r, del, add)
       PROVE  Goal
  <2> DEFINE q == req[r]
             a == q.id
  <2>0. a \in exists /\ a \in Assets /\ q.before \in Row
    BY <1>10 DEF Targets, TypeOK, Request, Idle
  <2>1. CASE Refused(r)
    BY <1>2, <2>1
  <2>2. CASE /\ parent' = [parent EXCEPT ![a] = q.to]
             /\ version' = [version EXCEPT ![a] = @ + 1]
             /\ LogUpdate(a, q.before, [q.before EXCEPT !.parent = q.to])
             /\ Finish(r)
             /\ UNCHANGED <<exists, name, lifecycle>>
    <3>1. \A b \in exists : \/ version'[b] = version[b] /\ NextRow(b) = RowOf(b)
                            \/ version'[b] = version[b] + 1
      BY <2>0, <2>2 DEF TypeOK, RowOf, NextRow
    <3>2. Targets' /\ Tokens'
      BY <2>2, <3>1, TokensFrame DEF Finish
    <3>3. /\ [q.before EXCEPT !.parent = q.to].name = q.before.name
          /\ [q.before EXCEPT !.parent = q.to].lifecycle = q.before.lifecycle
      BY <2>0 DEF Row
    <3>4. AuditReplaysNameAndLifecycle'
      BY <2>0, <2>2, <3>3 DEF AuditReplaysNameAndLifecycle, LogUpdate, TypeOK
    <3> QED
      BY <3>2, <3>4
  <2> QED
    BY <1>10, <2>1, <2>2 DEF Move
<1>11. ASSUME NEW r \in Requests, ReparentAsset(r) \/ CommitReparent(r) PROVE Goal
  BY <1>2, <1>10, <1>11 DEF ReparentAsset, CommitReparent
<1>12. ASSUME NEW r \in Requests, CheckReparent(r) PROVE Goal
  <2>1. CASE Refused(r)
    BY <1>2, <2>1
  <2>2. CASE req' = [req EXCEPT ![r].op = "checked"] /\ UNCHANGED store
    <3> DEFINE x == [req[r] EXCEPT !.op = "checked"]
    <3>1. req' = [req EXCEPT ![r] = x] /\ x.op = "checked" /\ x.id = req[r].id
      BY <1>12, <2>2 DEF CheckReparent, TypeOK, Request, Idle
    <3>2. req[r].id \in exists
      BY <1>12 DEF CheckReparent, Targets
    <3> HIDE DEF x
    <3> QED
      BY <1>1, <2>2, <3>1, <3>2
  <2> QED
    BY <1>12, <2>1, <2>2 DEF CheckReparent
<1>13. ASSUME NEW r \in Requests, WriteReparent(r) PROVE Goal
  <2>1. req[r].id \in exists
    BY <1>13 DEF WriteReparent, Targets
  <2> QED
    BY <1>1, <1>13, <2>1 DEF WriteReparent
<1>14. CASE UNCHANGED vars
  BY <1>0, <1>14 DEF vars, store, Targets, Tokens, AuditReplaysNameAndLifecycle, RowOf
<1>15. CASE Next
  BY <1>0, <1>3, <1>4, <1>5, <1>6, <1>7, <1>8, <1>9, <1>11, <1>12, <1>13, <1>15 DEF Next
<1> QED
  BY <1>0, <1>14, <1>15

LEMMA LockInit == Init => LockInv
BY InitType DEF Init, LockInv, Targets, Tokens, AuditReplaysNameAndLifecycle, Idle

(* For every number of requests, on both engines, change_log replayed gives  *)
(* the stored name and lifecycle of every asset.                             *)
THEOREM AuditReplay == Spec => []AuditReplaysNameAndLifecycle
<1>1. LockInv => AuditReplaysNameAndLifecycle
  BY DEF LockInv
<1> QED
  BY <1>1, LockInit, LockStep, PTL DEF Spec

(* For every number of requests, on both engines, an edit that commits        *)
(* overwrites exactly the row its form showed.                                *)
THEOREM UpdateNeverLost == Spec => NoLostUpdate
<1>1. ASSUME LockInv, [Next]_vars, NEW r \in Requests,
             req[r].op = "update", UpdateAsset(r), version' # version
      PROVE  RowOf(req[r].id) = req[r].shown
  <2>1. ~Refused(r)
    BY <1>1 DEF Refused, store
  <2>2. req[r].token = version[req[r].id]
    BY <1>1, <2>1 DEF UpdateAsset
  <2> QED
    BY <1>1, <2>2 DEF LockInv, Tokens
<1>2. LockInv /\ [Next]_vars =>
        [\A r \in Requests :
           (req[r].op = "update" /\ UpdateAsset(r) /\ version' # version)
             => RowOf(req[r].id) = req[r].shown]_vars
  BY <1>1
<1> QED
  BY <1>2, LockInit, LockStep, PTL DEF Spec, NoLostUpdate
=============================================================================

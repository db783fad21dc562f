-------------------------- MODULE ObjectTreeProofs --------------------------
(***************************************************************************)
(* Proofs that the calls of DeviceObjects keep the tree of directories and *)
(* files whole and implement ObjectTree, for any numbers of inodes, names, *)
(* lengths of paths, notes in the log, references and losses of power.     *)
(***************************************************************************)
EXTENDS DeviceObjectsProofs

\* The runs that leave out what is known to go wrong, an entry without a name
\* among it.
Careful == /\ {"refused", "unlisted", "noSpace", "belowFile"} \subseteq Spared
           /\ NoName \notin Names

----------------------------------------------------------------------------
(* A table that is a tree *)

Tables == [Numbers -> Node]

Used(T) == {n \in Numbers : T[n].type # "none"}

\* Entry i of directory d is the one of inode n.
IsListed(T, d, i, n) == i \in DOMAIN T[d].entries /\ T[d].entries[i].no = n

ClosedIn(T, ns) ==
    0 \in ns /\ \A d \in ns : \A i \in DOMAIN T[d].entries : T[d].entries[i].no \in ns

\* Only directories have entries, only files have data.
Shape(T) ==
    /\ T \in Tables /\ T[0].type = "dir"
    /\ \A n \in Numbers : /\ T[n].type = "none" => T[n] = None
                          /\ T[n].type # "dir" => T[n].entries = <<>>
                          /\ T[n].type = "dir" => ~ T[n].full

EntriesUsed(T) ==
    \A d \in Numbers : \A i \in DOMAIN T[d].entries : T[d].entries[i].no \in Used(T) \ {0}

ListedSomewhere(T) ==
    \A n \in Used(T) \ {0} : \E d \in Numbers : \E i \in DOMAIN T[d].entries : T[d].entries[i].no = n

ListedOnce(T) ==
    \A d, e \in Numbers : \A i \in DOMAIN T[d].entries : \A j \in DOMAIN T[e].entries :
        T[d].entries[i].no = T[e].entries[j].no => d = e /\ i = j

Connected(T) == \A ns \in SUBSET Numbers : ClosedIn(T, ns) => Used(T) \subseteq ns

IsTree(T) ==
    /\ Shape(T) /\ EntriesUsed(T) /\ ListedSomewhere(T) /\ ListedOnce(T) /\ Connected(T)

\* T with node as inode n and these entries in directory d.
Put(T, n, node, d, entries) ==
    [m \in Numbers |-> IF m = n THEN node
                       ELSE IF m = d THEN [T[d] EXCEPT !.entries = entries] ELSE T[m]]

\* What Put makes of T, said of its inodes one by one.
IsPut(U, T, n, node, d, entries) ==
    /\ U \in Tables
    /\ U[n] = node
    /\ U[d].entries = entries /\ U[d].type = T[d].type /\ U[d].full = T[d].full
    /\ \A m \in Numbers \ {n, d} : U[m] = T[m]

(* What a table with two changed inodes holds, and how it changes again. *)
LEMMA PutProperties ==
    ASSUME NEW T \in Tables, NEW n \in Numbers, NEW d \in Numbers, d # n,
           NEW node \in Node, NEW entries \in Seq(Item)
    PROVE  IsPut(Put(T, n, node, d, entries), T, n, node, d, entries)
<1>1. T[d] \in Node /\ [T[d] EXCEPT !.entries = entries] \in Node
  BY NodeTypes DEF Tables
<1>2. /\ [T[d] EXCEPT !.entries = entries].entries = entries
      /\ [T[d] EXCEPT !.entries = entries].type = T[d].type
      /\ [T[d] EXCEPT !.entries = entries].full = T[d].full
  BY <1>1 DEF Node
<1>3. QED
  BY <1>1, <1>2 DEF Put, IsPut, Tables

(* Changing an inode, or a listing, that Put has just set is one Put. *)
LEMMA PutAgain ==
    ASSUME NEW T \in Tables, NEW n \in Numbers, NEW d \in Numbers, d # n,
           NEW node, NEW entries
    PROVE  /\ \A other : [Put(T, n, node, d, entries) EXCEPT ![n] = other]
                            = Put(T, n, other, d, entries)
           /\ \A rest : [Put(T, n, node, d, entries) EXCEPT ![d].entries = rest]
                            = Put(T, n, node, d, rest)
           /\ \A other : [T EXCEPT ![n] = other] = Put(T, n, other, d, T[d].entries)
           /\ T = Put(T, n, T[n], d, T[d].entries)
<1>1. T[d] = [T[d] EXCEPT !.entries = T[d].entries]
  BY DEF Node, Tables
<1>2. \A rest : [[T[d] EXCEPT !.entries = entries] EXCEPT !.entries = rest]
                    = [T[d] EXCEPT !.entries = rest]
  BY DEF Node, Tables
<1>3. ASSUME NEW other
      PROVE  [Put(T, n, node, d, entries) EXCEPT ![n] = other] = Put(T, n, other, d, entries)
  BY DEF Put
<1>4. ASSUME NEW rest
      PROVE  [Put(T, n, node, d, entries) EXCEPT ![d].entries = rest] = Put(T, n, node, d, rest)
  <2> DEFINE U == Put(T, n, node, d, entries)
  <2>1. /\ DOMAIN U = Numbers /\ U[d] = [T[d] EXCEPT !.entries = entries]
        /\ \A m \in Numbers \ {d} : U[m] = Put(T, n, node, d, rest)[m]
    BY DEF Put
  <2>2. Put(T, n, node, d, rest) = [U EXCEPT ![d] = [T[d] EXCEPT !.entries = rest]]
    BY <2>1 DEF Put
  <2> HIDE DEF U
  <2>3. [U EXCEPT ![d].entries = rest] = [U EXCEPT ![d] = [U[d] EXCEPT !.entries = rest]]
    OBVIOUS
  <2>4. QED
    BY <2>1, <2>2, <2>3, <1>2 DEF U
<1>5. ASSUME NEW other
      PROVE  [T EXCEPT ![n] = other] = Put(T, n, other, d, T[d].entries)
  BY <1>1 DEF Put, Tables
<1>6. T = Put(T, n, T[n], d, T[d].entries)
  BY <1>1 DEF Put, Tables
<1>7. QED
  BY <1>3, <1>4, <1>5, <1>6

(* The parts of a tree, said of the entries one by one. *)
LEMMA EntryWise ==
    ASSUME NEW T
    PROVE  /\ EntriesUsed(T) <=> \A d \in Numbers : \A i, n : IsListed(T, d, i, n) => n \in Used(T) \ {0}
           /\ ListedSomewhere(T) <=> \A n \in Used(T) \ {0} : \E d \in Numbers : \E i : IsListed(T, d, i, n)
           /\ ListedOnce(T) <=> \A d, e \in Numbers : \A i, j, n :
                 IsListed(T, d, i, n) /\ IsListed(T, e, j, n) => d = e /\ i = j
           /\ \A ns \in SUBSET Numbers : ClosedIn(T, ns) <=>
                 0 \in ns /\ \A d \in ns : \A i, n : IsListed(T, d, i, n) => n \in ns
<1>1. EntriesUsed(T) <=> \A d \in Numbers : \A i, n : IsListed(T, d, i, n) => n \in Used(T) \ {0}
  BY DEF EntriesUsed, IsListed
<1>2. ListedSomewhere(T) <=> \A n \in Used(T) \ {0} : \E d \in Numbers : \E i : IsListed(T, d, i, n)
  BY DEF ListedSomewhere, IsListed
<1>3. ListedOnce(T) <=> \A d, e \in Numbers : \A i, j, n :
          IsListed(T, d, i, n) /\ IsListed(T, e, j, n) => d = e /\ i = j
  <2>1. ASSUME ListedOnce(T), NEW d \in Numbers, NEW e \in Numbers, NEW i, NEW j, NEW n,
               IsListed(T, d, i, n), IsListed(T, e, j, n)
        PROVE  d = e /\ i = j
    BY <2>1 DEF ListedOnce, IsListed
  <2>2. ASSUME \A d, e \in Numbers : \A i, j, n :
                  IsListed(T, d, i, n) /\ IsListed(T, e, j, n) => d = e /\ i = j
        PROVE  ListedOnce(T)
    <3> SUFFICES ASSUME NEW d \in Numbers, NEW e \in Numbers, NEW i \in DOMAIN T[d].entries,
                        NEW j \in DOMAIN T[e].entries, T[d].entries[i].no = T[e].entries[j].no
                 PROVE  d = e /\ i = j
      BY DEF ListedOnce
    <3>1. IsListed(T, d, i, T[d].entries[i].no) /\ IsListed(T, e, j, T[d].entries[i].no)
      BY DEF IsListed
    <3>2. QED
      BY <2>2, <3>1
  <2>3. QED
    BY <2>1, <2>2
<1>4. \A ns \in SUBSET Numbers : ClosedIn(T, ns) <=>
          0 \in ns /\ \A d \in ns : \A i, n : IsListed(T, d, i, n) => n \in ns
  BY DEF ClosedIn, IsListed
<1>5. QED
  BY <1>1, <1>2, <1>3, <1>4

(* A new object that a directory lists as its last one. *)
LEMMA CreateTree ==
    ASSUME NEW T, IsTree(T), NEW n \in Numbers, n \notin Used(T), NEW d \in Numbers,
           T[d].type = "dir", NEW type \in {"dir", "file"}, NEW name \in Names
    PROVE  IsTree(Put(T, n, NewInode(type), d, Append(T[d].entries, [name |-> name, no |-> n])))
<1> DEFINE es == T[d].entries
           e == [name |-> name, no |-> n]
           U == Put(T, n, NewInode(type), d, Append(es, e))
<1>1. T \in Tables /\ d # n /\ 0 # n /\ 0 \in Numbers /\ d \in Used(T)
  BY ObjectsAssumption DEF IsTree, Shape, Used
<1>2. /\ es \in Seq(Item) /\ e \in Item /\ Append(es, e) \in Seq(Item)
      /\ DOMAIN Append(es, e) = 1..Len(es) + 1 /\ DOMAIN es = 1..Len(es) /\ Len(es) \in Nat
      /\ \A i \in 1..Len(es) : Append(es, e)[i] = es[i]
      /\ Append(es, e)[Len(es) + 1] = e
  <2>1. es \in Seq(Item)
    BY <1>1 DEF Node, Item, Tables
  <2>2. e \in Item
    BY DEF Item
  <2>3. QED
    BY <2>1, <2>2, AppendType
<1>3. /\ NewInode(type) \in Node /\ NewInode(type).type = type
      /\ NewInode(type).entries = <<>> /\ NewInode(type).full = FALSE
  BY NodeTypes DEF NewInode, None, Types
<1> HIDE DEF e, es
<1>u. U = Put(T, n, NewInode(type), d, Append(es, e))
  OBVIOUS
<1>v. NewInode(type) \in Node /\ Append(es, e) \in Seq(Item) /\ T \in Tables /\ d # n
  BY <1>1, <1>2, <1>3
<1> HIDE DEF U
<1>4. /\ U \in Tables /\ U[n] = NewInode(type) /\ U[d].entries = Append(es, e)
      /\ U[d].type = T[d].type /\ U[d].full = T[d].full
      /\ \A m \in Numbers \ {n, d} : U[m] = T[m]
  <2>1. IsPut(U, T, n, NewInode(type), d, Append(es, e))
    BY <1>u, <1>v, PutProperties
  <2>2. T[d].entries = es
    BY DEF es
  <2>3. QED
    BY <2>1 DEF IsPut
<1>5. T[n].entries = <<>>
  BY DEF IsTree, Shape, Used
<1>6. Used(U) = Used(T) \cup {n}
  BY <1>1, <1>3, <1>4 DEF Used
<1>7. Shape(U)
  BY <1>1, <1>3, <1>4 DEF IsTree, Shape
\* The entries of the new table, and those of the old one in it.
<1>8. \A m \in Numbers : \A i, k : IsListed(U, m, i, k) <=>
          IsListed(T, m, i, k) \/ (m = d /\ i = Len(es) + 1 /\ k = n)
  <2> SUFFICES ASSUME NEW m \in Numbers, NEW i, NEW k
               PROVE  IsListed(U, m, i, k) <=>
                        IsListed(T, m, i, k) \/ (m = d /\ i = Len(es) + 1 /\ k = n)
    OBVIOUS
  <2>1. CASE m = d
    <3>1. (i \in 1..Len(es) + 1) <=> (i \in 1..Len(es) \/ i = Len(es) + 1)
      BY <1>2
    <3>2. Len(es) + 1 \notin 1..Len(es)
      BY <1>2
    <3>3. DOMAIN U[d].entries = 1..Len(es) + 1 /\ e.no = n
      BY <1>2, <1>4 DEF e
    <3>4. QED
      BY <2>1, <3>1, <3>2, <3>3, <1>2, <1>4 DEF IsListed, es
  <2>2. CASE m = n
    <3>1. DOMAIN U[m].entries = {} /\ DOMAIN T[m].entries = {}
      BY <2>2, <1>3, <1>4, <1>5
    <3>2. QED
      BY <2>2, <3>1, <1>1 DEF IsListed
  <2>3. CASE m \notin {d, n}
    BY <2>3, <1>4 DEF IsListed
  <2>4. QED
    BY <2>1, <2>2, <2>3
<1>9. \A m \in Numbers : \A i : ~ IsListed(T, m, i, n)
  BY DEF IsTree, EntriesUsed, IsListed
<1>10. EntriesUsed(U)
  BY <1>1, <1>6, <1>8, EntryWise DEF IsTree
<1>11. ListedSomewhere(U)
  <2> SUFFICES ASSUME NEW k \in Used(U) \ {0} PROVE \E m \in Numbers : \E i : IsListed(U, m, i, k)
    BY EntryWise
  <2>1. CASE k = n
    BY <2>1, <1>1, <1>8
  <2>2. CASE k # n
    <3>1. \E m \in Numbers : \E i : IsListed(T, m, i, k)
      BY <2>2, <1>6, EntryWise DEF IsTree
    <3>2. QED
      BY <3>1, <1>8
  <2>3. QED
    BY <2>1, <2>2
<1>12. ListedOnce(U)
  BY <1>8, <1>9, EntryWise DEF IsTree
<1>13. Connected(U)
  <2> SUFFICES ASSUME NEW ns \in SUBSET Numbers, ClosedIn(U, ns) PROVE Used(U) \subseteq ns
    BY DEF Connected
  <2>1. 0 \in ns /\ \A m \in ns : \A i, k : IsListed(U, m, i, k) => k \in ns
    BY EntryWise
  <2>2. ClosedIn(T, ns)
    BY <2>1, <1>8, EntryWise
  <2>3. Used(T) \subseteq ns
    BY <2>2 DEF IsTree, Connected
  <2>4. IsListed(U, d, Len(es) + 1, n)
    BY <1>8
  <2>5. QED
    BY <2>1, <2>3, <2>4, <1>1, <1>6
<1>14. QED
  BY <1>7, <1>10, <1>11, <1>12, <1>13 DEF IsTree, U, e, es

(* A directory lists an object once: which entry Without takes away. *)
LEMMA WithoutListed ==
    ASSUME NEW T, IsTree(T), NEW n \in Numbers, NEW d \in Numbers, NEW k,
           IsListed(T, d, k, n)
    PROVE  LET es == T[d].entries
           IN  /\ es \in Seq(Item) /\ k \in 1..Len(es) /\ Len(es) \in Nat \ {0}
               /\ Without(es, n) = RemoveAt(es, k)
               /\ Without(es, n) \in Seq(Item) /\ Len(Without(es, n)) = Len(es) - 1
               /\ \A j \in 1..Len(es) - 1 : Without(es, n)[j] = IF j < k THEN es[j] ELSE es[j + 1]
               /\ \A j \in 1..Len(es) : es[j].no = n => j = k
               /\ Without(es, n) # es
               /\ Without(Without(es, n), n) = Without(es, n)
<1> DEFINE es == T[d].entries
           rest == Without(es, n)
<1>1. es \in Seq(Item) /\ DOMAIN es = 1..Len(es) /\ Len(es) \in Nat
  <2>1. es \in Seq(Item)
    BY DEF IsTree, Shape, Tables, Node, Item
  <2>2. QED
    BY <2>1, LenProperties
<1>2. k \in 1..Len(es) /\ es[k].no = n
  BY <1>1 DEF IsListed
<1>3. \A j \in 1..Len(es) : es[j].no = n => j = k
  BY <1>1, <1>2 DEF IsTree, ListedOnce
<1> HIDE DEF es
<1>4. Without(es, n) = RemoveAt(es, k)
  <2>1. \/ Without(es, n) = es /\ \A i \in 1..Len(es) : es[i].no # n
        \/ \E i \in 1..Len(es) : es[i].no = n /\ Without(es, n) = RemoveAt(es, i)
    BY <1>1, WithoutProperties
  <2>2. QED
    BY <2>1, <1>2, <1>3
<1>5. /\ rest \in Seq(Item) /\ Len(rest) = Len(es) - 1
      /\ \A j \in 1..Len(es) - 1 : rest[j] = IF j < k THEN es[j] ELSE es[j + 1]
  BY <1>1, <1>2, <1>4, RemoveAtProperties
<1> HIDE DEF rest
<1>6. \A j \in 1..Len(rest) : rest[j].no # n
  <2> SUFFICES ASSUME NEW j \in 1..Len(es) - 1 PROVE rest[j].no # n
    BY <1>5
  <2>1. CASE j < k
    <3>1. rest[j] = es[j] /\ j \in 1..Len(es) /\ j # k
      BY <2>1, <1>1, <1>2, <1>5
    <3>2. QED
      BY <3>1, <1>3
  <2>2. CASE ~ (j < k)
    <3>1. rest[j] = es[j + 1] /\ j + 1 \in 1..Len(es) /\ j + 1 # k
      BY <2>2, <1>1, <1>2, <1>5
    <3>2. QED
      BY <3>1, <1>3
  <2>3. QED
    BY <2>1, <2>2
<1>7. Without(rest, n) = rest
  <2>1. \/ Without(rest, n) = rest /\ \A i \in 1..Len(rest) : rest[i].no # n
        \/ \E i \in 1..Len(rest) : rest[i].no = n /\ Without(rest, n) = RemoveAt(rest, i)
    BY <1>5, WithoutProperties
  <2>2. QED
    BY <2>1, <1>6
<1>8. Len(es) \in Nat \ {0} /\ rest # es
  BY <1>1, <1>2, <1>5
<1>9. QED
  BY <1>1, <1>2, <1>3, <1>4, <1>5, <1>7, <1>8 DEF es, rest

(* An object that lists nothing goes, with the entry that lists it. *)
LEMMA RemoveTree ==
    ASSUME NEW T, IsTree(T), NEW n \in Used(T) \ {0}, T[n].entries = <<>>,
           NEW d \in Numbers, NEW k, IsListed(T, d, k, n)
    PROVE  /\ d # n /\ T[d].type = "dir"
           /\ IsTree(Put(T, n, None, d, Without(T[d].entries, n)))
<1> DEFINE es == T[d].entries
           rest == Without(es, n)
           U == Put(T, n, None, d, rest)
<1>1. T \in Tables /\ n \in Numbers /\ 0 \in Numbers
  BY ObjectsAssumption DEF IsTree, Shape, Used
<1>2. /\ es \in Seq(Item) /\ k \in 1..Len(es) /\ Len(es) \in Nat \ {0}
      /\ rest \in Seq(Item) /\ Len(rest) = Len(es) - 1
      /\ \A j \in 1..Len(es) - 1 : rest[j] = IF j < k THEN es[j] ELSE es[j + 1]
      /\ \A j \in 1..Len(es) : es[j].no = n => j = k
  BY <1>1, WithoutListed
<1>3. d # n /\ T[d].type = "dir"
  BY <1>1, <1>2 DEF IsTree, Shape
<1>4. /\ DOMAIN rest = 1..Len(es) - 1 /\ DOMAIN es = 1..Len(es)
  BY <1>2, LenProperties
<1>u. U = Put(T, n, None, d, rest) /\ T[d].entries = es
  OBVIOUS
<1> HIDE DEF U, es, rest
<1>5. IsPut(U, T, n, None, d, rest)
  BY <1>u, <1>1, <1>2, <1>3, NodeTypes, PutProperties
<1>6. None.type = "none" /\ None.entries = <<>>
  BY DEF None
<1>7. /\ U \in Tables /\ U[n] = None /\ U[d].entries = rest
      /\ U[d].type = "dir" /\ U[d].full = T[d].full
      /\ \A m \in Numbers \ {n, d} : U[m] = T[m]
  BY <1>3, <1>5 DEF IsPut
<1>8. Used(U) = Used(T) \ {n}
  BY <1>3, <1>6, <1>7 DEF Used
<1>9. Shape(U)
  BY <1>1, <1>3, <1>6, <1>7 DEF IsTree, Shape
<1>10. /\ \A i \in 1..Len(es) : IsListed(T, d, i, es[i].no)
       /\ \A i, x : IsListed(T, d, i, x) <=> i \in 1..Len(es) /\ es[i].no = x
       /\ \A i, x : IsListed(U, d, i, x) <=> i \in 1..Len(es) - 1 /\ rest[i].no = x
       /\ \A i, x : ~ IsListed(U, n, i, x) /\ ~ IsListed(T, n, i, x)
       /\ \A m \in Numbers \ {n, d} : \A i, x : IsListed(U, m, i, x) <=> IsListed(T, m, i, x)
  BY <1>4, <1>6, <1>7, <1>u DEF IsListed
\* Each entry of the new table was an entry of the old one.
<1>11. \A m \in Numbers : \A i, x : IsListed(U, m, i, x) =>
          x # n /\ IsListed(T, m, IF m = d /\ k <= i THEN i + 1 ELSE i, x)
  <2> SUFFICES ASSUME NEW m \in Numbers, NEW i, NEW x, IsListed(U, m, i, x)
               PROVE  x # n /\ IsListed(T, m, IF m = d /\ k <= i THEN i + 1 ELSE i, x)
    OBVIOUS
  <2>1. CASE m = d
    <3>1. i \in 1..Len(es) - 1 /\ rest[i].no = x
      BY <2>1, <1>10
    <3>2. CASE k <= i
      <4>1. i + 1 \in 1..Len(es) /\ i + 1 # k /\ rest[i] = es[i + 1]
        BY <3>1, <3>2, <1>2
      <4>2. QED
        BY <2>1, <3>1, <3>2, <4>1, <1>2, <1>10
    <3>3. CASE ~ (k <= i)
      <4>1. i \in 1..Len(es) /\ i # k /\ rest[i] = es[i]
        BY <3>1, <3>3, <1>2
      <4>2. QED
        BY <2>1, <3>1, <3>3, <4>1, <1>2, <1>10
    <3>4. QED
      BY <3>2, <3>3
  <2>2. CASE m # d
    <3>1. IsListed(T, m, i, x) /\ m # n
      BY <2>2, <1>10
    <3>2. x # n
      BY <2>2, <3>1, EntryWise DEF IsTree
    <3>3. QED
      BY <2>2, <3>1, <3>2
  <2>3. QED
    BY <2>1, <2>2
\* And every old entry of another object is still there.
<1>12. \A m \in Numbers : \A i, x : IsListed(T, m, i, x) /\ x # n => \E j : IsListed(U, m, j, x)
  <2> SUFFICES ASSUME NEW m \in Numbers, NEW i, NEW x, IsListed(T, m, i, x), x # n
               PROVE  \E j : IsListed(U, m, j, x)
    OBVIOUS
  <2>1. CASE m = d
    <3>1. i \in 1..Len(es) /\ es[i].no = x /\ i # k
      <4>1. es[k].no = n
        BY <1>4, <1>u DEF IsListed
      <4>2. QED
        BY <2>1, <1>10, <4>1
    <3>2. CASE i < k
      <4>1. i \in 1..Len(es) - 1 /\ rest[i] = es[i]
        BY <3>1, <3>2, <1>2
      <4>2. QED
        BY <2>1, <3>1, <4>1, <1>10
    <3>3. CASE k < i
      <4>1. i - 1 \in 1..Len(es) - 1 /\ ~ (i - 1 < k) /\ i - 1 + 1 = i
        BY <3>1, <3>3, <1>2
      <4>2. rest[i - 1] = es[i]
        BY <4>1, <1>2
      <4>3. QED
        BY <2>1, <3>1, <4>1, <4>2, <1>10
    <3>4. QED
      BY <3>1, <3>2, <3>3, <1>2
  <2>2. CASE m # d
    BY <2>2, <1>10
  <2>3. QED
    BY <2>1, <2>2
<1>13. EntriesUsed(U)
  BY <1>8, <1>11, EntryWise DEF IsTree
<1>14. ListedSomewhere(U)
  <2> SUFFICES ASSUME NEW x \in Used(U) \ {0} PROVE \E m \in Numbers : \E j : IsListed(U, m, j, x)
    BY EntryWise
  <2>1. \E m \in Numbers : \E i : IsListed(T, m, i, x)
    BY <1>8, EntryWise DEF IsTree
  <2>2. QED
    BY <2>1, <1>8, <1>12
<1>15. ListedOnce(U)
  <2> SUFFICES ASSUME NEW l \in Numbers, NEW m \in Numbers, NEW i, NEW j, NEW x,
                      IsListed(U, l, i, x), IsListed(U, m, j, x)
               PROVE  l = m /\ i = j
    BY EntryWise
  <2>1. l = m /\ (IF l = d /\ k <= i THEN i + 1 ELSE i) = (IF m = d /\ k <= j THEN j + 1 ELSE j)
    <3>1. /\ IsListed(T, l, IF l = d /\ k <= i THEN i + 1 ELSE i, x)
          /\ IsListed(T, m, IF m = d /\ k <= j THEN j + 1 ELSE j, x)
      BY <1>11
    <3>2. QED
      BY <3>1, EntryWise DEF IsTree
  <2>2. CASE l = d
    <3>1. i \in 1..Len(es) - 1 /\ j \in 1..Len(es) - 1
      BY <2>1, <2>2, <1>10
    <3>2. QED
      BY <2>1, <2>2, <3>1, <1>2
  <2>3. CASE l # d
    BY <2>1, <2>3
  <2>4. QED
    BY <2>2, <2>3
<1>16. Connected(U)
  <2> SUFFICES ASSUME NEW ns \in SUBSET Numbers, ClosedIn(U, ns) PROVE Used(U) \subseteq ns
    BY DEF Connected
  <2>1. 0 \in ns /\ \A m \in ns : \A i, x : IsListed(U, m, i, x) => x \in ns
    BY EntryWise
  <2>2. ns \cup {n} \in SUBSET Numbers
    BY <1>1
  <2>3. \A m \in ns \cup {n} : \A i, x : IsListed(T, m, i, x) => x \in ns \cup {n}
    BY <2>1, <1>10, <1>12
  <2>4. ClosedIn(T, ns \cup {n})
    BY <2>1, <2>2, <2>3, EntryWise
  <2>5. Used(T) \subseteq ns \cup {n}
    BY <2>2, <2>4 DEF IsTree, Connected
  <2>6. QED
    BY <2>5, <1>8
<1>17. QED
  BY <1>3, <1>9, <1>13, <1>14, <1>15, <1>16 DEF IsTree, U, rest, es

(* An inode that keeps its type and what it lists. *)
LEMMA ChangeTree ==
    ASSUME NEW T, IsTree(T), NEW n \in Used(T), NEW node \in Node,
           node.type = T[n].type, node.entries = T[n].entries,
           node.type = "dir" => ~ node.full
    PROVE  IsTree([T EXCEPT ![n] = node])
<1> DEFINE U == [T EXCEPT ![n] = node]
<1>1. T \in Tables /\ n \in Numbers
  BY DEF IsTree, Shape, Used
<1>2. /\ U \in Tables /\ U[n] = node /\ \A m \in Numbers \ {n} : U[m] = T[m]
  BY <1>1 DEF Tables
<1> HIDE DEF U
<1>3. \A m \in Numbers : U[m].type = T[m].type /\ U[m].entries = T[m].entries
  BY <1>2
<1>4. Used(U) = Used(T)
  BY <1>3 DEF Used
<1>5. \A m \in Numbers : \A i, x : IsListed(U, m, i, x) <=> IsListed(T, m, i, x)
  BY <1>3 DEF IsListed
<1>6. Shape(U)
  BY <1>1, <1>2, <1>3, ObjectsAssumption DEF IsTree, Shape, Used
<1>7. EntriesUsed(U) /\ ListedSomewhere(U) /\ ListedOnce(U)
  BY <1>4, <1>5, EntryWise DEF IsTree
<1>8. Connected(U)
  <2> SUFFICES ASSUME NEW ns \in SUBSET Numbers, ClosedIn(U, ns) PROVE Used(U) \subseteq ns
    BY DEF Connected
  <2>1. ClosedIn(T, ns)
    BY <1>5, EntryWise
  <2>2. QED
    BY <2>1, <1>4 DEF IsTree, Connected
<1>9. QED
  BY <1>6, <1>7, <1>8 DEF IsTree, U

----------------------------------------------------------------------------
(* What a call makes of a tree *)

Requests ==
    [op : {"none", "create", "remove", "truncate", "chmod", "write"}, type : Types,
     name : Names \cup {"none"}, dir : Numbers, no : Numbers]

\* What holds of a call that has begun, and of one that is not refused.
Begun(T, p) ==
    \/ /\ p.op = "create" /\ p.no \notin Used(T) /\ T[p.dir].type = "dir"
       /\ p.type \in {"dir", "file"} /\ p.name \in Names
    \/ /\ p.op = "remove" /\ p.no \in Used(T)
       /\ \/ p.no = 0 /\ p.dir = 0
          \/ \E i \in DOMAIN T[p.dir].entries : T[p.dir].entries[i].no = p.no
    \/ p.op \in {"truncate", "chmod"} /\ p.no \in Used(T)
    \/ p.op = "write" /\ T[p.no].type = "file"

Allowed(T, p) ==
    /\ Begun(T, p)
    /\ p.op = "remove" => p.no # 0
    /\ p.op \in {"remove", "truncate"} => MayTruncate(T[p.no])
    /\ p.op = "write" => T[p.no].writable

WithEntry(T, p) == Append(T[p.dir].entries, [name |-> p.name, no |-> p.no])
WithoutEntry(T, p) == Without(T[p.dir].entries, p.no)

\* T with node as the inode of the call, and with these entries in its directory.
Stage(T, p, node, entries) == Put(T, p.no, node, p.dir, entries)

Done(T, p) ==
    CASE p.op = "create" -> Stage(T, p, NewInode(p.type), WithEntry(T, p))
      [] p.op = "remove" -> Stage(T, p, None, WithoutEntry(T, p))
      [] p.op = "truncate" -> [T EXCEPT ![p.no] = Emptied(@)]
      [] p.op = "write" -> [T EXCEPT ![p.no].full = TRUE]
      [] p.op = "chmod" -> [T EXCEPT ![p.no].writable = ~@]

ObjectsOf(T) == [n \in Used(T) |-> T[n]]

(* In a tree, an inode that may be truncated lists nothing. *)
LEMMA TruncatedIsEmpty ==
    ASSUME NEW T, IsTree(T), NEW n \in Numbers, MayTruncate(T[n])
    PROVE  T[n].entries = <<>> /\ T[n].writable
  BY DEF IsTree, Shape, MayTruncate

(* The directory and the inode of a removal are two inodes of the tree. *)
LEMMA RemovalApart ==
    ASSUME NEW T, IsTree(T), NEW p \in Requests, p.op = "remove", Allowed(T, p)
    PROVE  /\ p.no \in Used(T) \ {0} /\ p.dir # p.no /\ T[p.dir].type = "dir"
           /\ T[p.no].entries = <<>> /\ T[p.no].writable
           /\ IsTree(Done(T, p))
           /\ \E k : IsListed(T, p.dir, k, p.no)
<1>1. p.no \in Used(T) \ {0} /\ p.dir \in Numbers /\ p.no \in Numbers
  BY DEF Allowed, Begun, Requests
<1>2. PICK k : IsListed(T, p.dir, k, p.no)
  BY <1>1 DEF Allowed, Begun, IsListed
<1>3. T[p.no].entries = <<>> /\ T[p.no].writable
  BY <1>1, TruncatedIsEmpty DEF Allowed
<1>4. /\ p.dir # p.no /\ T[p.dir].type = "dir"
      /\ IsTree(Put(T, p.no, None, p.dir, Without(T[p.dir].entries, p.no)))
  BY <1>1, <1>2, <1>3, RemoveTree
<1>5. QED
  BY <1>1, <1>2, <1>3, <1>4 DEF Done, Stage, WithoutEntry

(* A call that is done makes a tree of a tree. *)
LEMMA DoneIsTree ==
    ASSUME NEW T, IsTree(T), NEW p \in Requests, Allowed(T, p)
    PROVE  IsTree(Done(T, p))
<1>1. p.no \in Numbers /\ p.dir \in Numbers /\ T \in Tables /\ T[p.no] \in Node
  BY DEF Requests, IsTree, Shape, Tables
<1>2. CASE p.op = "create"
  <2>1. p.no \notin Used(T) /\ T[p.dir].type = "dir" /\ p.type \in {"dir", "file"} /\ p.name \in Names
    BY <1>2 DEF Allowed, Begun
  <2>2. IsTree(Put(T, p.no, NewInode(p.type), p.dir, WithEntry(T, p)))
    BY <1>1, <2>1, CreateTree DEF WithEntry
  <2>3. QED
    BY <1>2, <2>2 DEF Done, Stage
<1>3. CASE p.op = "remove"
  BY <1>3, RemovalApart
<1>4. CASE p.op = "truncate"
  <2>1. p.no \in Used(T) /\ MayTruncate(T[p.no])
    BY <1>4 DEF Allowed, Begun
  <2>2. T[p.no].entries = <<>>
    BY <1>1, <2>1, TruncatedIsEmpty
  <2>3. /\ Emptied(T[p.no]) \in Node /\ Emptied(T[p.no]).type = T[p.no].type
        /\ Emptied(T[p.no]).entries = <<>> /\ Emptied(T[p.no]).full = FALSE
    BY <1>1, NodeTypes DEF Emptied, Node
  <2>4. IsTree([T EXCEPT ![p.no] = Emptied(T[p.no])])
    BY <2>1, <2>2, <2>3, ChangeTree
  <2>5. QED
    BY <1>4, <2>4 DEF Done
<1>5. CASE p.op = "write"
  <2> DEFINE node == [T[p.no] EXCEPT !.full = TRUE]
  <2>1. T[p.no].type = "file" /\ p.no \in Used(T)
    BY <1>1, <1>5 DEF Allowed, Begun, Used
  <2>2. node \in Node /\ node.type = T[p.no].type /\ node.entries = T[p.no].entries
    BY <1>1, NodeTypes DEF Node
  <2> HIDE DEF node
  <2>3. IsTree([T EXCEPT ![p.no] = node])
    BY <2>1, <2>2, ChangeTree
  <2>4. QED
    BY <1>5, <2>3 DEF Done, node
<1>6. CASE p.op = "chmod"
  <2> DEFINE node == [T[p.no] EXCEPT !.writable = ~ T[p.no].writable]
  <2>1. p.no \in Used(T)
    BY <1>6 DEF Allowed, Begun
  <2>2. (~ T[p.no].writable) \in BOOLEAN
    BY <1>1 DEF Node
  <2>3. /\ node \in Node /\ node.type = T[p.no].type /\ node.entries = T[p.no].entries
        /\ node.full = T[p.no].full
    BY <1>1, <2>2, NodeTypes DEF Node
  <2>4. node.type = "dir" => ~ node.full
    BY <1>1, <2>3 DEF IsTree, Shape
  <2> HIDE DEF node
  <2>5. IsTree([T EXCEPT ![p.no] = node])
    BY <2>1, <2>3, <2>4, ChangeTree
  <2>6. QED
    BY <1>6, <2>5 DEF Done, node
<1>7. QED
  BY <1>2, <1>3, <1>4, <1>5, <1>6 DEF Allowed, Begun

(* And it is what ObjectTree lets the call make of the objects. *)
LEMMA DoneIsChanged ==
    ASSUME NEW T, IsTree(T), NEW p \in Requests, Allowed(T, p)
    PROVE  ObjectsOf(Done(T, p)) \in Tree!Changed(ObjectsOf(T), p)
<1> DEFINE U == Done(T, p)
           objs == ObjectsOf(T)
<1>1. p.no \in Numbers /\ p.dir \in Numbers /\ T \in Tables /\ T[p.no] \in Node
  BY DEF Requests, IsTree, Shape, Tables
<1>2. DOMAIN objs = Used(T) /\ \A n \in Used(T) : objs[n] = T[n]
  BY DEF ObjectsOf
<1>3. CASE p.op = "create"
  <2>1. /\ p.no \notin Used(T) /\ T[p.dir].type = "dir" /\ p.dir # p.no
        /\ p.type \in {"dir", "file"} /\ p.name \in Names /\ p.dir \in Used(T)
    BY <1>1, <1>3 DEF Allowed, Begun, Used
  <2>2. U = Put(T, p.no, NewInode(p.type), p.dir, WithEntry(T, p))
    BY <1>3 DEF Done, Stage
  <2>3. NewInode(p.type) = Tree!Object(p.type, TRUE, FALSE, <<>>)
    <3> DEFINE new == NewInode(p.type)
               object == Tree!Object(p.type, TRUE, FALSE, <<>>)
    <3>1. new \in Node /\ object \in Node
      BY <2>1, NodeTypes DEF Node, Types, Tree!Object
    <3>2. /\ new.type = p.type /\ new.writable = TRUE /\ new.full = FALSE /\ new.entries = <<>>
          /\ object.type = p.type /\ object.writable = TRUE /\ object.full = FALSE
          /\ object.entries = <<>>
      BY DEF NewInode, None, Tree!Object
    <3> HIDE DEF new, object
    <3>3. new = object
      BY <3>1, <3>2 DEF Node
    <3>4. QED
      BY <3>3 DEF new, object
  <2>4. Used(U) = Used(T) \cup {p.no}
    <3>1. NewInode(p.type).type = p.type
      BY DEF NewInode, None
    <3>2. [T[p.dir] EXCEPT !.entries = WithEntry(T, p)].type = T[p.dir].type
      BY <1>1 DEF Tables, Node
    <3>3. \A n \in Numbers : U[n].type = IF n = p.no THEN p.type ELSE T[n].type
      BY <2>2, <3>1, <3>2 DEF Put
    <3>4. QED
      BY <2>1, <3>3, <1>1 DEF Used
  <2>5. Tree!With(objs, p.no, Tree!Object(p.type, TRUE, FALSE, <<>>), p.dir, p.name) = ObjectsOf(U)
    <3>1. \A n \in Used(T) \cup {p.no} :
             U[n] = IF n = p.no THEN NewInode(p.type)
                    ELSE IF n = p.dir THEN [T[n] EXCEPT !.entries = WithEntry(T, p)] ELSE T[n]
      BY <2>2, <1>1 DEF Put, Used
    <3>2. [T[p.dir] EXCEPT !.entries = Append(@, [name |-> p.name, no |-> p.no])]
            = [T[p.dir] EXCEPT !.entries = WithEntry(T, p)]
      BY DEF WithEntry
    <3> DEFINE F == Tree!With(objs, p.no, Tree!Object(p.type, TRUE, FALSE, <<>>), p.dir, p.name)
    <3> HIDE DEF U, objs
    <3>3. DOMAIN F = Used(U) /\ F = [n \in Used(U) |-> F[n]]
      BY <1>2, <2>4 DEF Tree!With
    <3>4. \A n \in Used(U) : F[n] = U[n]
      <4> SUFFICES ASSUME NEW n \in Used(T) \cup {p.no} PROVE F[n] = U[n]
        BY <2>4
      <4>1. CASE n = p.no
        BY <1>2, <2>3, <3>1, <4>1 DEF Tree!With
      <4>2. CASE n = p.dir
        BY <1>2, <2>1, <3>1, <3>2, <4>2 DEF Tree!With
      <4>3. CASE n \notin {p.no, p.dir}
        BY <1>2, <3>1, <4>3 DEF Tree!With
      <4>4. QED
        BY <4>1, <4>2, <4>3
    <3> HIDE DEF F
    <3>5. F = ObjectsOf(U)
      BY <3>3, <3>4 DEF ObjectsOf
    <3>6. QED
      BY <3>5 DEF F
  <2>6. ObjectsOf(U) \in Tree!Created(objs, p)
    <3>1. p.no \in Numbers \ DOMAIN objs /\ objs[p.dir].type = "dir"
      BY <1>1, <1>2, <2>1
    <3> HIDE DEF U, objs
    <3>2. QED
      BY <3>1, <2>5 DEF Tree!Created
  <2>7. QED
    BY <1>3, <2>6 DEF Tree!Changed
<1>4. CASE p.op = "remove"
  <2>1. /\ p.no \in Used(T) \ {0} /\ p.dir # p.no /\ T[p.dir].type = "dir" /\ p.dir \in Used(T)
        /\ T[p.no].entries = <<>> /\ T[p.no].writable
    BY <1>1, <1>4, RemovalApart DEF Used
  <2>2. PICK k : IsListed(T, p.dir, k, p.no)
    BY <1>4, RemovalApart
  <2>3. WithoutEntry(T, p) = RemoveAt(T[p.dir].entries, k)
    BY <1>1, <2>2, WithoutListed DEF WithoutEntry
  <2>4. U = Put(T, p.no, None, p.dir, WithoutEntry(T, p))
    BY <1>4 DEF Done, Stage
  <2>5. Used(U) = Used(T) \ {p.no}
    <3>1. None.type = "none"
      BY DEF None
    <3>2. [T[p.dir] EXCEPT !.entries = WithoutEntry(T, p)].type = T[p.dir].type
      BY <1>1 DEF Tables, Node
    <3>3. \A n \in Numbers : U[n].type = IF n = p.no THEN "none" ELSE T[n].type
      BY <2>4, <3>1, <3>2 DEF Put
    <3>4. QED
      BY <2>1, <3>3, <1>1 DEF Used
  <2>6. [n \in DOMAIN objs \ {p.no} |->
            IF n = p.dir THEN [objs[n] EXCEPT !.entries = RemoveAt(@, k)] ELSE objs[n]]
          = ObjectsOf(U)
    <3>1. \A n \in Used(T) \ {p.no} :
             U[n] = IF n = p.dir THEN [T[n] EXCEPT !.entries = WithoutEntry(T, p)] ELSE T[n]
      BY <2>4 DEF Put, Used
    <3> DEFINE F == [n \in DOMAIN objs \ {p.no} |->
                       IF n = p.dir THEN [objs[n] EXCEPT !.entries = RemoveAt(@, k)] ELSE objs[n]]
    <3> HIDE DEF U, objs
    <3>2. DOMAIN F = Used(U) /\ F = [n \in Used(U) |-> F[n]]
      BY <1>2, <2>5
    <3>3. \A n \in Used(U) : F[n] = U[n]
      <4> SUFFICES ASSUME NEW n \in Used(T) \ {p.no} PROVE F[n] = U[n]
        BY <2>5
      <4>1. CASE n = p.dir
        BY <1>2, <2>3, <3>1, <4>1
      <4>2. CASE n # p.dir
        BY <1>2, <3>1, <4>2
      <4>3. QED
        BY <4>1, <4>2
    <3> HIDE DEF F
    <3>4. F = ObjectsOf(U)
      BY <3>2, <3>3 DEF ObjectsOf
    <3>5. QED
      BY <3>4 DEF F
  <2>7. k \in Tree!Listed(objs, p)
    BY <1>2, <2>1, <2>2 DEF Tree!Listed, IsListed
  <2>8. Tree!MayEmpty(objs, p.no)
    BY <1>2, <2>1 DEF Tree!MayEmpty
  <2>9. ObjectsOf(U) \in Tree!Removed(objs, p)
    <3>1. \A s, i : Tree!RemoveAt(s, i) = RemoveAt(s, i)
      BY DEF Tree!RemoveAt, RemoveAt
    <3> HIDE DEF U, objs
    <3>2. QED
      BY <2>1, <2>6, <2>7, <2>8, <3>1 DEF Tree!Removed
  <2>10. QED
    BY <1>4, <2>9 DEF Tree!Changed
<1>5. ASSUME NEW node, node.type = T[p.no].type, p.no \in Used(T), U = [T EXCEPT ![p.no] = node]
      PROVE  ObjectsOf(U) = [objs EXCEPT ![p.no] = node]
  <2>1. Used(U) = Used(T)
    BY <1>1, <1>5 DEF Used, Tables
  <2>2. \A n \in Used(T) : U[n] = IF n = p.no THEN node ELSE T[n]
    BY <1>1, <1>5 DEF Used, Tables
  <2> HIDE DEF U
  <2>3. QED
    BY <1>5, <2>1, <2>2 DEF ObjectsOf
<1>6. CASE p.op = "truncate"
  <2>1. p.no \in Used(T) /\ MayTruncate(T[p.no])
    BY <1>6 DEF Allowed, Begun
  <2>2. T[p.no].entries = <<>> /\ T[p.no].writable
    BY <1>1, <2>1, TruncatedIsEmpty
  <2>3. Emptied(T[p.no]) = [T[p.no] EXCEPT !.full = FALSE]
    BY <1>1, <2>2 DEF Emptied, Node
  <2>4. [T[p.no] EXCEPT !.full = FALSE].type = T[p.no].type
    BY <1>1 DEF Node
  <2>5. U = [T EXCEPT ![p.no] = [T[p.no] EXCEPT !.full = FALSE]]
    BY <1>6, <2>3 DEF Done
  <2>6. ObjectsOf(U) = [objs EXCEPT ![p.no] = [T[p.no] EXCEPT !.full = FALSE]]
    BY <1>5, <2>1, <2>4, <2>5
  <2>7. ObjectsOf(U) = [objs EXCEPT ![p.no].full = FALSE]
    BY <1>2, <2>1, <2>6
  <2>8. Tree!MayEmpty(objs, p.no)
    BY <1>2, <2>1, <2>2 DEF Tree!MayEmpty
  <2>9. QED
    BY <1>6, <2>7, <2>8 DEF Tree!Changed
<1>7. CASE p.op = "write"
  <2>1. p.no \in Used(T) /\ T[p.no].writable
    BY <1>1, <1>7 DEF Allowed, Begun, Used
  <2>2. [T[p.no] EXCEPT !.full = TRUE].type = T[p.no].type
    BY <1>1 DEF Node
  <2>3. U = [T EXCEPT ![p.no] = [T[p.no] EXCEPT !.full = TRUE]]
    BY <1>7 DEF Done
  <2>4. ObjectsOf(U) = [objs EXCEPT ![p.no] = [T[p.no] EXCEPT !.full = TRUE]]
    BY <1>5, <2>1, <2>2, <2>3
  <2>5. ObjectsOf(U) = [objs EXCEPT ![p.no].full = TRUE] /\ objs[p.no].writable
    BY <1>2, <2>1, <2>4
  <2>6. QED
    BY <1>7, <2>5 DEF Tree!Changed
<1>8. CASE p.op = "chmod"
  <2>1. p.no \in Used(T)
    BY <1>8 DEF Allowed, Begun
  <2>2. [T[p.no] EXCEPT !.writable = ~ T[p.no].writable].type = T[p.no].type
    BY <1>1 DEF Node
  <2>3. U = [T EXCEPT ![p.no] = [T[p.no] EXCEPT !.writable = ~ T[p.no].writable]]
    BY <1>8 DEF Done
  <2>4. ObjectsOf(U) = [objs EXCEPT ![p.no] = [T[p.no] EXCEPT !.writable = ~ T[p.no].writable]]
    BY <1>5, <2>1, <2>2, <2>3
  <2>5. ObjectsOf(U) = [objs EXCEPT ![p.no].writable = ~@]
    BY <1>2, <2>1, <2>4
  <2>6. QED
    BY <1>8, <2>5 DEF Tree!Changed
<1>9. QED
  BY <1>3, <1>4, <1>6, <1>7, <1>8 DEF Allowed, Begun

(* In a tree, every inode in use can be reached from the root directory. *)
LEMMA TreeIsReached ==
    ASSUME IsTree(table)
    PROVE  Reachable = InUse /\ InUse = Used(table) /\ Objects = ObjectsOf(table)
<1>1. InUse = Used(table)
  BY DEF InUse, Used
<1>2. ASSUME NEW ns \in SUBSET Numbers, Closed(ns)
      PROVE  ClosedIn(table, ns)
  <2> SUFFICES ASSUME NEW d \in ns, NEW i \in DOMAIN table[d].entries
               PROVE  table[d].entries[i].no \in ns
    BY <1>2 DEF Closed, ClosedIn
  <2>1. table[d].type = "dir"
    BY DEF IsTree, Shape
  <2>2. table[d].entries[i].no \in Lists(d)
    BY <2>1 DEF Lists, ToSet
  <2>3. QED
    BY <1>2, <2>2 DEF Closed
<1>3. Reachable = InUse
  BY <1>1, <1>2 DEF Reachable, IsTree, Connected
<1>4. QED
  BY <1>1, <1>3 DEF Objects, ObjectsOf

----------------------------------------------------------------------------
(* The invariant: what is in the table and in the log at every step *)

\* The table before the call, from the objects it had.
TableOf(objs) == [n \in Numbers |-> IF n \in DOMAIN objs THEN objs[n] ELSE None]
Was == TableOf(before)

\* The inode and the entries of a call, before it and on the way.
Node0 == Was[pending.no]
Entries0 == Was[pending.dir].entries
Made == Stage(Was, pending, NewInode(pending.type), Entries0)
Cleared == Stage(Was, pending, Emptied(Node0), Entries0)
Unlinked == Stage(Was, pending, Emptied(Node0), WithoutEntry(Was, pending))
Removals(nodes) ==
    {Stage(Was, pending, node, entries) :
        node \in nodes, entries \in {Entries0, WithoutEntry(Was, pending)}}

\* The last notes in the log.
NoNote == log = <<>> \/ Last(log).op = "removeObj"
NotedNew == log # <<>> /\ Last(log) = MkObjInode(pending.no)
NotedEntry == /\ Len(log) > 1 /\ Last(log) = InsertIntoDir(pending.dir)
              /\ log[Len(log) - 1] = MkObjInode(pending.no)
NotedRemoval == log # <<>> /\ Last(log) = RemoveObj(pending.no, pending.dir)

Resting == pending = Idle /\ IsTree(table) /\ NoNote

Running ==
    /\ pending # Idle /\ Begun(Was, pending)
    /\ call.no = pending.no /\ call.dir = pending.dir
    /\ call.name = pending.name /\ call.type = pending.type
    /\ \/ At("mkObjInode") /\ pending.op = "create" /\ NoNote /\ table = Was
       \/ At("insertInode") /\ pending.op = "create" /\ NotedNew /\ table = Was
       \/ At("insertIntoDir") /\ pending.op = "create" /\ NotedNew /\ table = Made
       \/ At("writeDir") /\ pending.op = "create" /\ NotedEntry /\ table = Made
       \/ At("truncateObj") /\ pending.op = "truncate" /\ NoNote /\ table = Was
       \/ At("writeFile") /\ pending.op = "write" /\ NoNote /\ table = Was
       \/ At("updateInode") /\ pending.op = "chmod" /\ NoNote /\ table = Was
       \/ At("removeObj") /\ pending.op = "remove" /\ NoNote /\ table = Was
       \/ At("truncate") /\ pending.op = "remove" /\ NotedRemoval /\ table = Was
       \/ At("unlist") /\ pending.op = "remove" /\ NotedRemoval /\ MayTruncate(Node0)
            /\ table = Cleared
       \/ At("unlisted") /\ pending.op = "remove" /\ NotedRemoval
            /\ Allowed(Was, pending) /\ table = Unlinked
       \/ At("deleteInode") /\ pending.op = "remove" /\ (NotedRemoval \/ log = <<>>)
            /\ Allowed(Was, pending) /\ table = Unlinked
       \/ /\ At("checkpoint") /\ Allowed(Was, pending) /\ table = Done(Was, pending)
          /\ \/ pending.op = "create" /\ NotedEntry
             \/ pending.op = "remove" /\ (NotedRemoval \/ log = <<>>)
             \/ pending.op \in {"truncate", "write"} /\ NoNote

\* What a mount finds: a call that is done, or one that its notes let it complete
\* or revert.
MountFinds ==
    \/ log = <<>> /\ table = Was
    \/ log = <<>> /\ pending # Idle /\ Allowed(Was, pending) /\ table = Done(Was, pending)
    \/ /\ pending.op = "create" /\ Begun(Was, pending)
       /\ \/ NotedNew /\ table \in {Was, Made}
          \/ NotedEntry /\ table \in {Was, Made, Done(Was, pending)}
    \/ /\ pending.op = "remove" /\ Allowed(Was, pending) /\ NotedRemoval
       /\ table \in Removals({Node0, Emptied(Node0), None})

Mounting ==
    \/ At("endOfLog") /\ MountFinds
    \/ /\ pending.op = "create" /\ Begun(Was, pending) /\ call.no = pending.no
       /\ \/ At("deleteInode") /\ (NotedNew \/ NotedEntry) /\ table \in {Was, Made}
          \/ At("checkpoint") /\ (NotedNew \/ NotedEntry) /\ table = Was
          \/ At("checkpoint") /\ NotedEntry /\ table = Done(Was, pending)
    \/ /\ pending.op = "remove" /\ Allowed(Was, pending)
       /\ call.no = pending.no /\ call.dir = pending.dir
       /\ \/ At("truncate") /\ NotedRemoval /\ table \in Removals({Node0, Emptied(Node0)})
          \/ At("deleteInode") /\ NotedRemoval /\ table \in Removals({Node0, Emptied(Node0)})
          \/ At("unlist") /\ NotedRemoval /\ table \in Removals({None})
          \/ At("unlisted") /\ NotedRemoval /\ table = Done(Was, pending)
          \/ At("checkpoint") /\ (NotedRemoval \/ log = <<>>) /\ table = Done(Was, pending)

TreeInv ==
    /\ AtRest => Resting
    /\ ~ AtRest => /\ IsTree(Was) /\ before = ObjectsOf(Was) /\ answer = "none"
                   /\ call.mount => Mounting
                   /\ ~ call.mount => Running

(* The objects of a tree determine its table. *)
LEMMA TableOfObjects ==
    ASSUME NEW T, IsTree(T)
    PROVE  TableOf(ObjectsOf(T)) = T
<1>1. /\ T \in Tables /\ \A n \in Numbers : n \notin Used(T) => T[n] = None
  BY DEF IsTree, Shape, Used
<1>2. T = [n \in Numbers |-> T[n]]
  BY <1>1 DEF Tables
<1>3. \A n \in Numbers : (IF n \in DOMAIN ObjectsOf(T) THEN ObjectsOf(T)[n] ELSE None) = T[n]
  BY <1>1 DEF ObjectsOf
<1>4. QED
  BY <1>2, <1>3 DEF TableOf

(* The types that the lemmas about trees need. *)
LEMMA CallTypes ==
    ASSUME TypeInv
    PROVE  /\ pending \in Requests /\ table \in Tables
           /\ pending.no \in Numbers /\ pending.dir \in Numbers
           /\ call.no \in Numbers /\ call.dir \in Numbers /\ 0 \in Numbers
           /\ log \in Seq(Entry) /\ call.mount \in BOOLEAN
           /\ Idle.op = "none" /\ NoCall.at = "none" /\ NoCall.mount = FALSE
  BY ObjectsAssumption DEF TypeInv, TypeOK, Requests, Types, Tables, Entry, Idle, Pending, NoCall

(* A formatted device is the tree that holds only its root. *)
LEMMA TreeInit == Init => TreeInv /\ Tree!Init
<1> SUFFICES ASSUME Init PROVE TreeInv /\ Tree!Init
  OBVIOUS
<1> DEFINE root == NewInode("dir")
<1>1. /\ table = [n \in Numbers |-> IF n = 0 THEN root ELSE None] /\ 0 \in Numbers
      /\ AtRest /\ pending = Idle /\ log = <<>> /\ answer = "none"
  BY ObjectsAssumption DEF Init, AtRest
<1>2. /\ root \in Node /\ None \in Node
      /\ root.type = "dir" /\ root.entries = <<>> /\ root.full = FALSE /\ root.writable = TRUE
      /\ None.type = "none" /\ None.entries = <<>>
  BY NodeTypes DEF NewInode, None, Types
<1> HIDE DEF root
<1>3. /\ \A n \in Numbers : table[n] = IF n = 0 THEN root ELSE None
      /\ table \in Tables /\ Used(table) = {0}
  BY <1>1, <1>2 DEF Tables, Used
<1>4. \A n \in Numbers : table[n].entries = <<>>
  BY <1>2, <1>3
<1>5. IsTree(table)
  <2>1. Shape(table)
    BY <1>1, <1>2, <1>3 DEF Shape
  <2>2. \A d \in Numbers : DOMAIN table[d].entries = {}
    BY <1>4
  <2>3. EntriesUsed(table) /\ ListedSomewhere(table) /\ ListedOnce(table)
    BY <1>3, <2>2 DEF EntriesUsed, ListedSomewhere, ListedOnce
  <2>4. Connected(table)
    BY <1>3 DEF Connected, ClosedIn
  <2>5. QED
    BY <2>1, <2>3, <2>4 DEF IsTree
<1>6. TreeInv
  BY <1>1, <1>5 DEF TreeInv, Resting, NoNote
<1>7. Objects = [n \in {0} |-> Tree!Object("dir", TRUE, FALSE, <<>>)]
  <2>1. Objects = [n \in {0} |-> root]
    BY <1>1, <1>3, <1>5, TreeIsReached DEF ObjectsOf
  <2>2. Tree!Object("dir", TRUE, FALSE, <<>>) = root
    <3> DEFINE object == Tree!Object("dir", TRUE, FALSE, <<>>)
    <3>1. object \in Node
      BY DEF Node, Tree!Object
    <3>2. /\ object.type = "dir" /\ object.writable = TRUE /\ object.full = FALSE
          /\ object.entries = <<>>
      BY DEF Tree!Object
    <3> HIDE DEF object
    <3>3. object = root
      BY <1>2, <3>1, <3>2 DEF Node
    <3>4. QED
      BY <3>3 DEF object
  <2>3. QED
    BY <2>1, <2>2
<1>8. Tree!Init
  BY <1>1, <1>7 DEF Tree!Init, Tree!Idle, Tree!Call, Idle, Pending
<1>9. QED
  BY <1>6, <1>8

(* A step within a call or a mount changes nothing for the caller. *)
LEMMA WithinCall ==
    ASSUME TreeInv, ~ AtRest, ~ AtRest', UNCHANGED <<pending, answer, before>>
    PROVE  /\ [Tree!Next]_Tree!vars
           /\ Was' = Was
           /\ (call'.mount => Mounting') /\ (~ call'.mount => Running') => TreeInv'
<1>1. Was' = Was
  BY DEF Was, TableOf
<1>2. IsTree(Was) /\ before = ObjectsOf(Was) /\ answer = "none"
  BY DEF TreeInv
<1>3. ObjectsOf(Was)' = ObjectsOf(Was) /\ IsTree(Was)' = IsTree(Was)
  BY <1>1 DEF ObjectsOf, Used, IsTree, Shape, EntriesUsed, ListedSomewhere, ListedOnce,
              Connected, ClosedIn
<1>4. IsTree(Was)' /\ before' = ObjectsOf(Was)' /\ answer' = "none"
  BY <1>2, <1>3
<1>5. [Tree!Next]_Tree!vars
  BY DEF Tree!vars
<1>6. QED
  BY <1>1, <1>4, <1>5 DEF TreeInv

\* What goes on to a step when the call or the mount does.
OnTo(step) ==
    /\ [Tree!Next]_Tree!vars
    /\ Was' = Was /\ pending' = pending
    /\ call'.at = step /\ call'.mount = call.mount /\ call'.no = call.no
    /\ call'.dir = call.dir /\ call'.name = call.name /\ call'.type = call.type
    /\ (call.mount => Mounting') /\ (~ call.mount => Running') => TreeInv'

(* A call that goes on with its next step keeps the invariant if that step may
   be taken with the tables and notes as they now are. *)
LEMMA GoesOn ==
    ASSUME TypeInv, TreeInv, ~ AtRest, NEW step \in Steps \ {"none"}, Goto(step),
           UNCHANGED <<pending, answer, before>>
    PROVE  OnTo(step)
<1>1. /\ call'.at = step /\ call'.mount = call.mount /\ call'.no = call.no
      /\ call'.dir = call.dir /\ call'.name = call.name /\ call'.type = call.type
  BY GotoType DEF TypeInv
<1>2. ~ AtRest'
  BY <1>1 DEF AtRest, NoCall
<1>3. QED
  BY <1>1, <1>2, WithinCall DEF OnTo

(* A call or a mount that ends, as ObjectTree allows it. *)
LEMMA Ends ==
    ASSUME TypeInv, TreeInv, ~ AtRest, NEW result \in {"none", "ok", "refused"}, Return(result),
           NoNote',
           \/ table' = Was /\ (result = "refused" \/ call.mount)
           \/ Allowed(Was, pending) /\ table' = Done(Was, pending) /\ (result = "ok" \/ call.mount)
    PROVE  TreeInv' /\ [Tree!Next]_Tree!vars
<1>1. IsTree(Was) /\ before = ObjectsOf(Was) /\ (~ call.mount => pending # Idle)
  BY DEF TreeInv, Running
<1>2. /\ AtRest' /\ pending' = Idle
      /\ answer' = IF call.mount THEN "none" ELSE result
  BY DEF Return, AtRest
<1>3. pending \in Requests /\ Idle.op = "none" /\ Idle = Tree!Idle
  BY CallTypes DEF Idle, Pending, Tree!Idle, Tree!Call
<1>4. IsTree(table')
  BY <1>1, <1>3, DoneIsTree
<1>5. TreeInv'
  BY <1>2, <1>4 DEF TreeInv, Resting
<1>6. (IF AtRest THEN Objects ELSE before)' = ObjectsOf(table')
  <2>1. IsTree(table)'
    BY <1>4
  <2>2. (Objects = ObjectsOf(table))'
    BY <2>1, TreeIsReached, PTL
  <2>3. QED
    BY <1>2, <2>2
<1>7. ASSUME table' = Was, result = "refused" \/ call.mount
      PROVE  Tree!Next
  BY <1>1, <1>2, <1>3, <1>6, <1>7 DEF Tree!Next, Tree!Refuse, Tree!Mount
<1>8. ASSUME Allowed(Was, pending), table' = Done(Was, pending), result = "ok" \/ call.mount
      PROVE  Tree!Next
  <2>1. pending # Idle
    BY <1>3, <1>8 DEF Allowed, Begun
  <2>2. ObjectsOf(table') \in Tree!Changed(before, pending)
    BY <1>1, <1>3, <1>8, DoneIsChanged
  <2>3. QED
    BY <1>2, <1>3, <1>6, <1>8, <2>1, <2>2 DEF Tree!Next, Tree!Return, Tree!Mount
<1>9. QED
  BY <1>5, <1>7, <1>8

----------------------------------------------------------------------------
(* Calls that begin *)

(* The number for a new inode is not in use. *)
LEMMA FreeNumber ==
    ASSUME IsTree(table)
    PROVE  findFirstFreeNo \notin InUse
<1>1. InUse \in SUBSET Nat /\ IsFiniteSet(InUse) /\ InUse # {}
  <2>1. InUse \subseteq Numbers /\ 0 \in InUse
    BY ObjectsAssumption DEF InUse, IsTree, Shape
  <2>2. QED
    BY <2>1, ObjectsAssumption, FS_Subset
<1> DEFINE used == InUse
<1> HIDE DEF used
<1>2. used \in SUBSET Nat /\ IsFiniteSet(used) /\ used # {}
  BY <1>1 DEF used
<1>3. PICK x \in used : \A y \in used : y <= x
  BY <1>2, LargestElement
<1>4. Max(used) \in used /\ \A y \in used : Max(used) >= y
  <2>1. \E z \in used : \A y \in used : z >= y
    BY <1>2, <1>3
  <2>2. QED
    BY <2>1 DEF Max
<1>5. Max(used) + 1 \notin used
  <2> SUFFICES ASSUME Max(used) + 1 \in used PROVE FALSE
    OBVIOUS
  <2>1. Max(used) >= Max(used) + 1
    BY <1>4
  <2>2. Max(used) \in Nat
    BY <1>2, <1>4
  <2>3. QED
    BY <2>1, <2>2
<1>6. QED
  BY <1>5 DEF findFirstFreeNo, used

(* What the search along a path finds in a tree: the root, or an inode that the
   directory of the path lists. *)
LEMMA FoundIsListed ==
    ASSUME IsTree(table), NEW path \in Paths, getInodeOfElem(path).result = "ok"
    PROVE  \/ getInodeOfElem(path).no = 0 /\ getParentDir(path).no = 0
           \/ \E i \in DOMAIN table[getParentDir(path).no].entries :
                 table[getParentDir(path).no].entries[i].no = getInodeOfElem(path).no
<1>1. path \in Seq(Names)
  BY PathsAreSequences
<1>2. CASE path = <<>>
  <2>1. Len(path) = 0 /\ getParentDir(path) = getInodeOfElem(path)
    BY <1>2 DEF getParentDir
  <2>2. getInodeOfElem(path) = Root
    BY <2>1, <1>1, ElemsDefined
  <2>3. QED
    BY <2>1, <2>2 DEF Root, Found, Failed
<1>3. CASE path # <<>>
  <2> DEFINE up == getParentDir(path)
             name == Last(path)
             entries == table[up.no].entries
             hits == {i \in DOMAIN entries : entries[i].name \in {name, NoName}}
  <2>1. up \in Answers /\ getInodeOfElem(path) = Further(up, name)
    BY <1>1, <1>3, ElemOfParent, ElemAnswers
  <2>2. up.result = "ok" /\ getInodeOfElem(path) = Lookup(up.no, name)
    BY <2>1 DEF Further
  <2>3. hits # {} /\ getInodeOfElem(path).no = entries[Min(hits)].no
    <3>1. \A r \in {"invalidInput", "notFound", "bug"} : Failed(r).result # "ok"
      BY DEF Failed
    <3>2. hits # {} /\ getInodeOfElem(path) = Found(entries[Min(hits)].no)
      BY <2>2, <3>1 DEF Lookup
    <3>3. QED
      BY <3>2 DEF Found
  <2>4. hits \in SUBSET Nat
    <3>1. up.no \in Numbers
      BY <2>1 DEF Answers
    <3>2. entries \in Seq(Item)
      BY <3>1 DEF IsTree, Shape, Tables, Node, Item
    <3> HIDE DEF entries
    <3>3. DOMAIN entries \subseteq Nat
      BY <3>2, LenProperties
    <3>4. QED
      BY <3>3
  <2>5. Min(hits) \in DOMAIN entries
    <3>1. hits \subseteq DOMAIN entries
      OBVIOUS
    <3> HIDE DEF hits, entries
    <3>2. \E x \in hits : \A y \in hits : x <= y
      BY <2>3, <2>4, LeastElement
    <3>3. Min(hits) \in hits
      BY <3>2 DEF Min
    <3>4. QED
      BY <3>1, <3>3
  <2>6. QED
    BY <2>3, <2>5
<1>4. QED
  BY <1>2, <1>3

(* createFile is told "notFound" only of a name in a directory. *)
LEMMA NotFoundInDirectory ==
    ASSUME NEW path \in Paths, path # <<>>, getParentDir(path).result = "ok",
           getInodeOfElem(path).result = "notFound"
    PROVE  table[getParentDir(path).no].type = "dir"
<1>1. getInodeOfElem(path) = Lookup(getParentDir(path).no, Last(path))
  BY PathsAreSequences, ElemOfParent DEF Further
<1>2. Failed("invalidInput").result # "notFound"
  BY DEF Failed
<1>3. QED
  BY <1>1, <1>2 DEF Lookup

\* The first step of each call.
FirstStep(op, step) ==
    \/ op = "create" /\ step = "mkObjInode"
    \/ op = "remove" /\ step = "removeObj"
    \/ op = "truncate" /\ step = "truncateObj"
    \/ op = "chmod" /\ step = "updateInode"
    \/ op = "write" /\ step = "writeFile"

(* A call that has found its objects begins with the tree as it was; the abstract
   tree does not move. *)
LEMMA Starts ==
    ASSUME TypeInv, TreeInv, AtRest, NEW op, NEW step, NEW type, NEW name, NEW dir, NEW no,
           FirstStep(op, step), Start(op, step, type, name, dir, no),
           Begun(table, Pending(op, type, name, dir, no))
    PROVE  TreeInv' /\ [Tree!Next]_Tree!vars
<1> DEFINE p == Pending(op, type, name, dir, no)
<1>1. /\ pending' = p /\ before' = Objects /\ answer' = "none"
      /\ table' = table /\ log' = log
      /\ call' = [at |-> step, mount |-> FALSE, no |-> no, dir |-> dir, name |-> name,
                  type |-> type]
  BY DEF Start
<1>2. pending = Idle /\ IsTree(table) /\ NoNote
  BY DEF TreeInv, Resting
<1>3. /\ call'.at = step /\ call'.mount = FALSE /\ call'.no = no /\ call'.dir = dir
      /\ call'.name = name /\ call'.type = type
  BY <1>1
<1>4. /\ p.op = op /\ p.no = no /\ p.dir = dir /\ p.name = name /\ p.type = type
      /\ p # Idle /\ p.op # "none"
  BY DEF Pending, FirstStep, Idle
<1>5. ~ AtRest'
  BY <1>3 DEF AtRest, NoCall, FirstStep
<1>6. Was' = table
  <2>1. before' = ObjectsOf(table)
    BY <1>1, <1>2, TreeIsReached
  <2>2. TableOf(before') = table
    BY <2>1, <1>2, TableOfObjects
  <2>3. QED
    BY <2>2 DEF Was, TableOf
<1>7. IsTree(Was') /\ before' = ObjectsOf(Was')
  BY <1>1, <1>2, <1>6, TreeIsReached
<1> HIDE DEF p
<1>8. Running'
  <2>1. Begun(Was', pending') /\ table' = Was' /\ NoNote'
    BY <1>1, <1>2, <1>6 DEF p, NoNote
  <2>2. /\ At(step)' /\ pending'.op = op
    BY <1>1, <1>3, <1>4 DEF At
  <2>3. QED
    BY <1>1, <1>3, <1>4, <2>1, <2>2 DEF Running, FirstStep
<1>9. TreeInv'
  BY <1>1, <1>3, <1>5, <1>7, <1>8 DEF TreeInv
<1>10. Tree!Next
  <2>1. (IF AtRest THEN Objects ELSE before)' = Objects
    BY <1>1, <1>5
  <2>2. pending = Tree!Idle
    BY <1>2 DEF Idle, Pending, Tree!Idle, Tree!Call
  <2>3. Tree!Begin
    BY <1>1, <1>4, <2>1, <2>2 DEF Tree!Begin
  <2>4. QED
    BY <2>3 DEF Tree!Next
<1>11. QED
  BY <1>9, <1>10

(* A reference that is taken or given back changes no object, nor does a
   checkpoint between calls. *)
LEMMA Referenced ==
    ASSUME TypeInv, TreeInv, AtRest, UNCHANGED <<table, call, pending, answer, before>>,
           log' \in {<<>>, log}
    PROVE  TreeInv' /\ [Tree!Next]_Tree!vars
<1>1. AtRest' /\ Resting' /\ Objects' = Objects
  BY DEF TreeInv, AtRest, Resting, NoNote, Objects, Reachable, Closed, Lists, InUse
<1>2. TreeInv'
  BY <1>1 DEF TreeInv
<1>3. UNCHANGED Tree!vars
  BY <1>1 DEF Tree!vars
<1>4. QED
  BY <1>2, <1>3

(* Every call that begins finds what its path names, or answers at once. *)
LEMMA BeginTree ==
    ASSUME TypeInv, TreeInv, Careful, NEW path \in Paths, Begin(path)
    PROVE  TreeInv' /\ [Tree!Next]_Tree!vars
<1> DEFINE found == getInodeOfElem(path)
           up == getParentDir(path)
<1>1. AtRest
  BY DEF Begin, MkDir, CreateFile, RemoveObject, Truncate, Chmod, Open
<1>2. IsTree(table) /\ InUse = Used(table)
  BY <1>1, TreeIsReached DEF TreeInv, Resting
<1>3. found.result = "ok" => found.no \in Used(table)
  BY <1>2, PathsAreSequences, ElemAnswers DEF Answers
<1>4. findFirstFreeNo \notin Used(table)
  BY <1>2, FreeNumber
<1>5. path # <<>> => Last(path) \in Names
  BY PathsAreSequences, ElemOfParent
<1> HIDE DEF found, up
<1>c. ASSUME NEW type \in {"dir", "file"}, path # <<>>, table[up.no].type = "dir",
             Start("create", "mkObjInode", type, Last(path), up.no, findFirstFreeNo)
      PROVE  TreeInv' /\ [Tree!Next]_Tree!vars
  <2>1. Begun(table, Pending("create", type, Last(path), up.no, findFirstFreeNo))
    BY <1>4, <1>5, <1>c DEF Begun, Pending
  <2>2. QED
    BY <1>1, <1>c, <2>1, Starts DEF FirstStep
<1>6. CASE MkDir(path)
  <2>1. table[up.no].type = "dir" /\ path # <<>>
    BY <1>6 DEF MkDir, Careful, up
  <2>2. QED
    BY <1>6, <1>c, <2>1 DEF MkDir, up
<1>7. CASE CreateFile(path)
  <2>1. table[up.no].type = "dir"
    BY <1>7, NotFoundInDirectory DEF CreateFile, up
  <2>2. QED
    BY <1>7, <1>c, <2>1 DEF CreateFile, up
<1>8. CASE RemoveObject(path)
  <2>1. found.result = "ok" /\ Start("remove", "removeObj", "none", "none", up.no, found.no)
    BY <1>8 DEF RemoveObject, found, up
  <2>2. \/ found.no = 0 /\ up.no = 0
        \/ \E i \in DOMAIN table[up.no].entries : table[up.no].entries[i].no = found.no
    BY <1>2, <2>1, FoundIsListed DEF found, up
  <2>3. Begun(table, Pending("remove", "none", "none", up.no, found.no))
    BY <1>3, <2>1, <2>2 DEF Begun, Pending
  <2>4. QED
    BY <1>1, <2>1, <2>3, Starts DEF FirstStep
<1>9. CASE Truncate(path)
  <2>1. found.result = "ok" /\ Start("truncate", "truncateObj", "none", "none", 0, found.no)
    BY <1>9 DEF Truncate, found
  <2>2. Begun(table, Pending("truncate", "none", "none", 0, found.no))
    BY <1>3, <2>1 DEF Begun, Pending
  <2>3. QED
    BY <1>1, <2>1, <2>2, Starts DEF FirstStep
<1>10. CASE Chmod(path)
  <2>1. found.result = "ok" /\ Start("chmod", "updateInode", "none", "none", 0, found.no)
    BY <1>10 DEF Chmod, found
  <2>2. Begun(table, Pending("chmod", "none", "none", 0, found.no))
    BY <1>3, <2>1 DEF Begun, Pending
  <2>3. QED
    BY <1>1, <2>1, <2>2, Starts DEF FirstStep
<1>11. CASE Open(path)
  BY <1>1, <1>11, Referenced DEF Open
<1>12. QED
  BY <1>6, <1>7, <1>8, <1>9, <1>10, <1>11 DEF Begin

(* So does a write to a file that is open. *)
LEMMA WriteTree ==
    ASSUME TypeInv, TreeInv, NEW no \in Numbers, Write(no)
    PROVE  TreeInv' /\ [Tree!Next]_Tree!vars
<1>1. AtRest /\ Start("write", "writeFile", "none", "none", 0, no) /\ table[no].type = "file"
  BY DEF Write
<1>2. Begun(table, Pending("write", "none", "none", 0, no))
  BY <1>1 DEF Begun, Pending
<1>3. QED
  BY <1>1, <1>2, Starts DEF FirstStep

----------------------------------------------------------------------------
(* Tables and notes on the way *)

(* A table on the way, said of the two inodes it differs in. *)
LEMMA StageProperties ==
    ASSUME NEW T, IsTree(T), NEW p \in Requests, p.dir # p.no
    PROVE  /\ \A node, entries, other :
                 [Stage(T, p, node, entries) EXCEPT ![p.no] = other] = Stage(T, p, other, entries)
           /\ \A node, entries, rest :
                 [Stage(T, p, node, entries) EXCEPT ![p.dir].entries = rest]
                    = Stage(T, p, node, rest)
           /\ T = Stage(T, p, T[p.no], T[p.dir].entries)
           /\ \A node, entries : /\ Stage(T, p, node, entries)[p.no] = node
                                 /\ Stage(T, p, node, entries)[p.dir].entries = entries
                                 /\ Stage(T, p, node, entries)[p.dir].type = T[p.dir].type
<1>1. T \in Tables /\ p.no \in Numbers /\ p.dir \in Numbers /\ T[p.dir] \in Node
  BY DEF IsTree, Shape, Requests, Tables
<1>2. \A entries : /\ [T[p.dir] EXCEPT !.entries = entries].entries = entries
                   /\ [T[p.dir] EXCEPT !.entries = entries].type = T[p.dir].type
  BY <1>1 DEF Node
<1>3. \A node, entries :
        /\ \A other : [Put(T, p.no, node, p.dir, entries) EXCEPT ![p.no] = other]
                         = Put(T, p.no, other, p.dir, entries)
        /\ \A rest : [Put(T, p.no, node, p.dir, entries) EXCEPT ![p.dir].entries = rest]
                         = Put(T, p.no, node, p.dir, rest)
        /\ T = Put(T, p.no, T[p.no], p.dir, T[p.dir].entries)
  <2> TAKE node, entries
  <2> DEFINE n == p.no
             d == p.dir
  <2>1. n \in Numbers /\ d \in Numbers /\ d # n
    BY <1>1
  <2> HIDE DEF n, d
  <2>2. /\ \A other : [Put(T, n, node, d, entries) EXCEPT ![n] = other] = Put(T, n, other, d, entries)
        /\ \A rest : [Put(T, n, node, d, entries) EXCEPT ![d].entries = rest] = Put(T, n, node, d, rest)
        /\ T = Put(T, n, T[n], d, T[d].entries)
    BY <1>1, <2>1, PutAgain
  <2>3. QED
    BY <2>2 DEF n, d
<1>4. \A node, entries : /\ Put(T, p.no, node, p.dir, entries)[p.no] = node
                         /\ Put(T, p.no, node, p.dir, entries)[p.dir].entries = entries
                         /\ Put(T, p.no, node, p.dir, entries)[p.dir].type = T[p.dir].type
  BY <1>1, <1>2 DEF Put
<1>5. QED
  BY <1>3, <1>4 DEF Stage

(* Nor does it matter whether the directory is the inode itself. *)
LEMMA StageOfOne ==
    ASSUME NEW T, IsTree(T), NEW p \in Requests, NEW other
    PROVE  [T EXCEPT ![p.no] = other] = Stage(T, p, other, T[p.dir].entries)
<1>1. T \in Tables /\ p.no \in Numbers /\ p.dir \in Numbers /\ T[p.dir] \in Node
  BY DEF IsTree, Shape, Requests, Tables
<1>2. [T[p.dir] EXCEPT !.entries = T[p.dir].entries] = T[p.dir]
  BY <1>1 DEF Node
<1>3. QED
  BY <1>1, <1>2 DEF Stage, Put, Tables

(* What the kinds of notes say. *)
LEMMA NotesSay ==
    /\ NotedNew => Last(log).op = "mkObjInode" /\ Last(log).no = pending.no
    /\ NotedEntry => Last(log).op = "insertIntoDir" /\ Last(log).dir = pending.dir
    /\ NotedRemoval => /\ Last(log).op = "removeObj" /\ Last(log).no = pending.no
                       /\ Last(log).dir = pending.dir
    /\ NotedRemoval => NoNote
  BY DEF NotedNew, NotedEntry, NotedRemoval, NoNote, MkObjInode, InsertIntoDir, RemoveObj

(* A note that is added. *)
LEMMA NoteAdded ==
    ASSUME TypeInv, NEW entry \in Entry
    PROVE  /\ Append(log, entry) # <<>> /\ Last(Append(log, entry)) = entry
           /\ log # <<>> => /\ Len(Append(log, entry)) > 1
                            /\ Append(log, entry)[Len(Append(log, entry)) - 1] = Last(log)
<1>1. log \in Seq(Entry)
  BY CallTypes
<1>2. /\ Append(log, entry) # <<>> /\ Last(Append(log, entry)) = entry /\ Len(log) \in Nat
      /\ \A i \in 1..Len(log) : Append(log, entry)[i] = log[i]
  BY <1>1, AppendType
<1>3. Len(Append(log, entry)) = Len(log) + 1
  BY <1>1, AppendProperties
<1>4. ASSUME log # <<>>
      PROVE  /\ Len(Append(log, entry)) > 1
             /\ Append(log, entry)[Len(Append(log, entry)) - 1] = Last(log)
  <2>1. Len(log) \in 1..Len(log)
    BY <1>1, <1>2, <1>4, EmptySeq
  <2>2. Len(log) + 1 > 1 /\ (Len(log) + 1) - 1 = Len(log)
    BY <1>2, <2>1
  <2>3. QED
    BY <1>2, <1>3, <2>1, <2>2 DEF Last
<1>5. QED
  BY <1>2, <1>4

(* The inode that a mount turns to is the one of the call. *)
LEMMA TargetIsNoted ==
    ASSUME TypeInv, NotedNew \/ NotedEntry \/ NotedRemoval
    PROVE  TargetInode = pending.no
<1> DEFINE named == {i \in DOMAIN log : log[i].op # "insertIntoDir"}
           n == Len(log)
<1>1. log \in Seq(Entry) /\ n \in Nat \ {0} /\ DOMAIN log = 1..n /\ Last(log) = log[n]
  <2>1. log \in Seq(Entry) /\ log # <<>>
    <3>1. log = <<>> => Len(log) = 0
      BY EmptySeq
    <3>2. QED
      BY <3>1, CallTypes DEF NotedNew, NotedEntry, NotedRemoval
  <2>2. QED
    BY <2>1, LenProperties, EmptySeq DEF Last
<1> HIDE DEF n
<1>2. PICK k \in named : log[k].no = pending.no /\ \A i \in named : i <= k
  <2>1. CASE NotedNew \/ NotedRemoval
    <3>1. log[n].op # "insertIntoDir" /\ log[n].no = pending.no
      BY <1>1, <2>1, NotesSay
    <3>2. QED
      BY <1>1, <3>1
  <2>2. CASE NotedEntry
    <3>1. n > 1 /\ log[n].op = "insertIntoDir" /\ log[n - 1] = MkObjInode(pending.no)
      BY <1>1, <2>2, NotesSay DEF NotedEntry, n
    <3>2. log[n - 1].op = "mkObjInode" /\ log[n - 1].no = pending.no
      BY <3>1 DEF MkObjInode
    <3>3. n - 1 \in 1..n /\ \A i \in 1..n : i # n => i <= n - 1
      BY <1>1, <3>1
    <3>4. QED
      BY <1>1, <3>1, <3>2, <3>3
  <2>3. QED
    BY <2>1, <2>2
<1>3. named \subseteq Nat
  BY <1>1
<1> HIDE DEF named
<1>4. Max(named) \in named /\ \A y \in named : Max(named) >= y
  <2>1. \E z \in named : \A y \in named : z >= y
    BY <1>2, <1>3
  <2>2. QED
    BY <2>1 DEF Max
<1>5. Max(named) = k
  <2>1. Max(named) \in Nat /\ k \in Nat
    BY <1>2, <1>3, <1>4
  <2>2. Max(named) >= k /\ Max(named) <= k
    BY <1>2, <1>4
  <2>3. QED
    BY <2>1, <2>2
<1>6. QED
  BY <1>2, <1>5 DEF TargetInode, named

----------------------------------------------------------------------------
(* The steps of createFile and mkDir *)

(* The new inode, its entry, the write of the directory. *)
LEMMA CreateTreeSteps ==
    ASSUME TypeInv, TreeInv, Careful, Create
    PROVE  TreeInv' /\ [Tree!Next]_Tree!vars
<1>1. /\ ~ AtRest /\ ~ call.mount /\ Running
      /\ pending.op = "create" /\ call.no = pending.no /\ call.dir = pending.dir
      /\ call.name = pending.name /\ call.type = pending.type
      /\ Begun(Was, pending) /\ IsTree(Was)
      /\ pending \in Requests /\ Was \in Tables
  <2>1. At("mkObjInode") \/ At("insertInode") \/ At("insertIntoDir") \/ At("writeDir")
    BY DEF Create, LogMkObjInode, LogInsertIntoDir, LogStep, InsertInode, InsertInodeInDir
  <2>2. ~ AtRest
    BY <2>1 DEF AtRest, NoCall, At
  <2>3. ~ call.mount /\ Running /\ IsTree(Was)
    BY <2>1, <2>2, CallTypes DEF TreeInv, Mounting, At
  <2>4. QED
    BY <2>1, <2>2, <2>3, CallTypes DEF Running, At, IsTree, Shape
<1>2. pending.no \notin Used(Was) /\ Was[pending.dir].type = "dir" /\ pending.dir # pending.no
  BY <1>1, CallTypes DEF Begun, Used
<1>3. Made = [Was EXCEPT ![pending.no] = NewInode(pending.type)]
  BY <1>1, StageOfOne DEF Made, Entries0
<1>4. CASE LogMkObjInode
  <2>1. /\ table = Was /\ log' = Append(log, MkObjInode(call.no)) /\ Goto("insertInode")
        /\ UNCHANGED <<table, pending, answer, before>> /\ "insertInode" \in Steps \ {"none"}
    BY <1>1, <1>4 DEF LogMkObjInode, LogStep, Running, At, Steps
  <2>2. MkObjInode(call.no) \in Entry
    BY CallTypes DEF MkObjInode, Entry
  <2>3. OnTo("insertInode")
    BY <1>1, <2>1, GoesOn
  <2>4. NotedNew'
    BY <1>1, <2>1, <2>2, NoteAdded DEF NotedNew, MkObjInode, OnTo
  <2>5. Begun(Was', pending')
    BY <1>1, <2>3 DEF OnTo
  <2>6. Running'
    BY <1>1, <2>1, <2>3, <2>4, <2>5 DEF Running, At, OnTo
  <2>7. QED
    BY <1>1, <2>3, <2>6 DEF OnTo
<1>5. CASE InsertInode
  <2>1. /\ table = Was /\ NotedNew /\ log' = log /\ Goto("insertIntoDir")
        /\ table' = [table EXCEPT ![call.no] = NewInode(call.type)]
        /\ UNCHANGED <<pending, answer, before>> /\ "insertIntoDir" \in Steps \ {"none"}
    BY <1>1, <1>5 DEF InsertInode, Running, At, Steps
  <2>2. table' = Made
    BY <1>1, <1>3, <2>1
  <2>3. OnTo("insertIntoDir")
    BY <1>1, <2>1, GoesOn
  <2>4. NotedNew' /\ Made' = Made /\ Begun(Was', pending')
    BY <1>1, <2>1, <2>3 DEF NotedNew, Made, Entries0, OnTo
  <2>5. Running'
    BY <1>1, <2>1, <2>2, <2>3, <2>4 DEF Running, At, OnTo
  <2>6. QED
    BY <1>1, <2>3, <2>5 DEF OnTo
<1>6. CASE LogInsertIntoDir
  <2>1. /\ table = Made /\ NotedNew /\ log' = Append(log, InsertIntoDir(call.dir))
        /\ Goto("writeDir")
        /\ UNCHANGED <<table, pending, answer, before>> /\ "writeDir" \in Steps \ {"none"}
    BY <1>1, <1>6 DEF LogInsertIntoDir, LogStep, Running, At, Steps
  <2>2. InsertIntoDir(call.dir) \in Entry
    BY CallTypes DEF InsertIntoDir, Entry
  <2>3. OnTo("writeDir")
    BY <1>1, <2>1, GoesOn
  <2>4. NotedEntry'
    BY <1>1, <2>1, <2>2, NoteAdded DEF NotedNew, NotedEntry, MkObjInode, InsertIntoDir
  <2>5. Made' = Made /\ Begun(Was', pending')
    BY <1>1, <2>3 DEF Made, Entries0, OnTo
  <2>6. Running'
    BY <1>1, <2>1, <2>3, <2>4, <2>5 DEF Running, At, OnTo
  <2>7. QED
    BY <1>1, <2>3, <2>6 DEF OnTo
<1>7. CASE InsertInodeInDir
  <2>1. /\ table = Made /\ NotedEntry /\ log' = log /\ Goto("checkpoint")
        /\ table' = [table EXCEPT ![call.dir].entries =
                        Append(@, [name |-> call.name, no |-> call.no])]
        /\ UNCHANGED <<pending, answer, before>> /\ "checkpoint" \in Steps \ {"none"}
    BY <1>1, <1>7 DEF InsertInodeInDir, Careful, Running, At, Steps
  <2>2. /\ Made[pending.dir].entries = Entries0
        /\ \A rest : [Made EXCEPT ![pending.dir].entries = rest]
                        = Stage(Was, pending, NewInode(pending.type), rest)
    BY <1>1, <1>2, StageProperties DEF Made
  <2>3. table' = Done(Was, pending)
    <3>1. table' = [Made EXCEPT ![pending.dir].entries = WithEntry(Was, pending)]
      BY <1>1, <2>1, <2>2 DEF WithEntry, Entries0
    <3>2. Done(Was, pending) = Stage(Was, pending, NewInode(pending.type), WithEntry(Was, pending))
      BY <1>1 DEF Done
    <3>3. QED
      BY <2>2, <3>1, <3>2
  <2>4. OnTo("checkpoint")
    BY <1>1, <2>1, GoesOn
  <2>5. Allowed(Was, pending)
    BY <1>1 DEF Allowed
  <2>6. NotedEntry' /\ Allowed(Was', pending') /\ Begun(Was', pending')
        /\ table' = Done(Was', pending')
    BY <1>1, <2>1, <2>3, <2>4, <2>5 DEF NotedEntry, OnTo
  <2>7. Running'
    BY <1>1, <2>1, <2>4, <2>6 DEF Running, At, OnTo
  <2>8. QED
    BY <1>1, <2>4, <2>7 DEF OnTo
<1>8. QED
  BY <1>4, <1>5, <1>6, <1>7 DEF Create

----------------------------------------------------------------------------
(* truncate, write, chmod, and the checkpoint with which a call or a mount ends *)

(* One write of the inode does the whole call. *)
LEMMA ChangeTreeSteps ==
    ASSUME TypeInv, TreeInv, TruncateObj \/ WriteFile \/ UpdateInode
    PROVE  TreeInv' /\ [Tree!Next]_Tree!vars
<1>1. /\ ~ AtRest /\ ~ call.mount /\ Running /\ call.no = pending.no
      /\ Begun(Was, pending) /\ NoNote /\ table = Was
  <2>1. At("truncateObj") \/ At("writeFile") \/ At("updateInode")
    BY DEF TruncateObj, WriteFile, UpdateInode
  <2>2. ~ AtRest
    BY <2>1 DEF AtRest, NoCall, At
  <2>3. ~ call.mount /\ Running
    BY <2>1, <2>2, CallTypes DEF TreeInv, Mounting, At
  <2>4. QED
    BY <2>1, <2>2, <2>3 DEF Running, At
<1>2. ASSUME log' = log PROVE NoNote'
  BY <1>1, <1>2 DEF NoNote
<1>3. ASSUME Goto("checkpoint"), UNCHANGED <<pending, answer, before, log>>,
             Allowed(Was, pending), table' = Done(Was, pending),
             pending.op \in {"truncate", "write"}
      PROVE  TreeInv' /\ [Tree!Next]_Tree!vars
  <2>1. OnTo("checkpoint")
    BY <1>1, <1>3, GoesOn DEF Steps
  <2>2. /\ NoNote' /\ Allowed(Was', pending') /\ Begun(Was', pending')
        /\ table' = Done(Was', pending')
    BY <1>1, <1>2, <1>3, <2>1 DEF OnTo
  <2>3. Running'
    BY <1>1, <1>3, <2>1, <2>2 DEF Running, At, OnTo
  <2>4. QED
    BY <1>1, <2>1, <2>3 DEF OnTo
<1>4. ASSUME Return("refused"), log' = log, table' = Was
      PROVE  TreeInv' /\ [Tree!Next]_Tree!vars
  BY <1>1, <1>2, <1>4, Ends
<1>5. CASE TruncateObj
  <2>1. pending.op = "truncate"
    BY <1>1, <1>5 DEF TruncateObj, Running, At
  <2>2. CASE MayTruncate(Was[pending.no])
    <3>1. /\ table' = [Was EXCEPT ![pending.no] = Emptied(@)] /\ Goto("checkpoint")
          /\ UNCHANGED <<pending, answer, before, log>>
      BY <1>1, <1>5, <2>2 DEF TruncateObj
    <3>2. Allowed(Was, pending) /\ table' = Done(Was, pending)
      BY <1>1, <2>1, <2>2, <3>1 DEF Allowed, Done
    <3>3. QED
      BY <1>3, <2>1, <3>1, <3>2
  <2>3. CASE ~ MayTruncate(Was[pending.no])
    BY <1>1, <1>4, <1>5, <2>3 DEF TruncateObj
  <2>4. QED
    BY <2>2, <2>3
<1>6. CASE WriteFile
  <2>1. pending.op = "write"
    BY <1>1, <1>6 DEF WriteFile, Running, At
  <2>2. CASE Was[pending.no].writable
    <3>1. /\ table' = [Was EXCEPT ![pending.no].full = TRUE] /\ Goto("checkpoint")
          /\ UNCHANGED <<pending, answer, before, log>>
      BY <1>1, <1>6, <2>2 DEF WriteFile
    <3>2. Allowed(Was, pending) /\ table' = Done(Was, pending)
      BY <1>1, <2>1, <2>2, <3>1 DEF Allowed, Done
    <3>3. QED
      BY <1>3, <2>1, <3>1, <3>2
  <2>3. CASE ~ Was[pending.no].writable
    BY <1>1, <1>4, <1>6, <2>3 DEF WriteFile
  <2>4. QED
    BY <2>2, <2>3
<1>7. CASE UpdateInode
  <2>1. pending.op = "chmod"
    BY <1>1, <1>7 DEF UpdateInode, Running, At
  <2>2. table' = [Was EXCEPT ![pending.no].writable = ~@] /\ Return("ok") /\ log' = log
    BY <1>1, <1>7 DEF UpdateInode
  <2>3. Allowed(Was, pending) /\ table' = Done(Was, pending)
    BY <1>1, <2>1, <2>2 DEF Allowed, Done
  <2>4. QED
    BY <1>1, <1>2, <2>2, <2>3, Ends
<1>8. QED
  BY <1>5, <1>6, <1>7

(* The checkpoint that ends a call, or a mount that completed or reverted one, is
   where the abstract tree takes its step. *)
LEMMA CheckpointTree ==
    ASSUME TypeInv, TreeInv, Checkpoint
    PROVE  TreeInv' /\ [Tree!Next]_Tree!vars
<1>1. At("checkpoint") /\ log' = <<>> /\ Return("ok") /\ table' = table
  BY DEF Checkpoint
<1>2. ~ AtRest
  BY <1>1 DEF AtRest, NoCall, At
<1>3. NoNote'
  BY <1>1 DEF NoNote
<1>4. CASE ~ call.mount
  <2>1. Allowed(Was, pending) /\ table = Done(Was, pending)
    BY <1>1, <1>2, <1>4 DEF TreeInv, Running, At
  <2>2. QED
    BY <1>1, <1>2, <1>3, <2>1, Ends
<1>5. CASE call.mount
  <2>1. \/ table = Was
        \/ Allowed(Was, pending) /\ table = Done(Was, pending)
    BY <1>1, <1>2, <1>5 DEF TreeInv, Mounting, At, Allowed
  <2>2. QED
    BY <1>1, <1>2, <1>3, <1>5, <2>1, Ends
<1>6. QED
  BY <1>4, <1>5

----------------------------------------------------------------------------
(* The steps of a removal, by the program and by a mount *)

(* The stages of a removal that is allowed. *)
LEMMA RemovalStages ==
    ASSUME TypeInv, IsTree(Was), pending.op = "remove", Allowed(Was, pending)
    PROVE  /\ pending.no \in Used(Was) \ {0} /\ pending.dir # pending.no
           /\ Was[pending.dir].type = "dir" /\ Node0.type # "none"
           /\ Emptied(Emptied(Node0)) = Emptied(Node0) /\ Emptied(Node0).type = Node0.type
           /\ Was = Stage(Was, pending, Node0, Entries0)
           /\ Done(Was, pending) = Stage(Was, pending, None, WithoutEntry(Was, pending))
           /\ Without(Entries0, pending.no) = WithoutEntry(Was, pending)
           /\ Without(WithoutEntry(Was, pending), pending.no) = WithoutEntry(Was, pending)
           /\ WithoutEntry(Was, pending) # Entries0
           /\ \A node, entries :
                 /\ Stage(Was, pending, node, entries)[pending.no] = node
                 /\ Stage(Was, pending, node, entries)[pending.dir].entries = entries
                 /\ Stage(Was, pending, node, entries)[pending.dir].type = "dir"
           /\ \A node, entries, other :
                 [Stage(Was, pending, node, entries) EXCEPT ![pending.no] = other]
                    = Stage(Was, pending, other, entries)
           /\ \A node, entries, rest :
                 [Stage(Was, pending, node, entries) EXCEPT ![pending.dir].entries = rest]
                    = Stage(Was, pending, node, rest)
<1>1. /\ pending \in Requests /\ pending.no \in Numbers /\ pending.dir \in Numbers
  BY CallTypes
<1>2. /\ pending.no \in Used(Was) \ {0} /\ pending.dir # pending.no
      /\ Was[pending.dir].type = "dir"
  BY <1>1, RemovalApart
<1>3. PICK k : IsListed(Was, pending.dir, k, pending.no)
  BY <1>1, RemovalApart
<1>4. Node0 \in Node
  BY <1>1 DEF Node0, IsTree, Shape, Tables
<1>5. Emptied(Emptied(Node0)) = Emptied(Node0) /\ Emptied(Node0).type = Node0.type
  BY <1>4 DEF Emptied, Node
<1>6. Node0.type # "none"
  BY <1>2 DEF Node0, Used
<1>7. Done(Was, pending) = Stage(Was, pending, None, WithoutEntry(Was, pending))
  BY DEF Done
<1>8. /\ Without(Entries0, pending.no) = WithoutEntry(Was, pending)
      /\ Without(WithoutEntry(Was, pending), pending.no) = WithoutEntry(Was, pending)
      /\ WithoutEntry(Was, pending) # Entries0
  BY <1>1, <1>3, WithoutListed DEF Entries0, WithoutEntry
<1>9. QED
  BY <1>1, <1>2, <1>5, <1>6, <1>7, <1>8, StageProperties DEF Node0, Entries0

(* The note of a removal, and the contents that go. *)
LEMMA LogRemoveTree ==
    ASSUME TypeInv, TreeInv, LogRemoveObj
    PROVE  TreeInv' /\ [Tree!Next]_Tree!vars
<1>1. /\ At("removeObj") /\ log' = Append(log, RemoveObj(call.no, call.dir)) /\ Goto("truncate")
      /\ UNCHANGED <<table, pending, answer, before>> /\ "truncate" \in Steps \ {"none"}
  BY DEF LogRemoveObj, LogStep, Steps
<1>2. ~ AtRest
  BY <1>1 DEF AtRest, NoCall, At
<1>3. ~ call.mount /\ Running
  BY <1>1, <1>2, CallTypes DEF TreeInv, Mounting, At
<1>4. /\ pending.op = "remove" /\ table = Was /\ call.no = pending.no /\ call.dir = pending.dir
      /\ Begun(Was, pending)
  BY <1>1, <1>3 DEF Running, At
<1>5. OnTo("truncate")
  BY <1>1, <1>2, GoesOn
<1>6. RemoveObj(call.no, call.dir) \in Entry
  BY CallTypes DEF RemoveObj, Entry
<1>7. NotedRemoval' /\ Begun(Was', pending')
  BY <1>1, <1>4, <1>5, <1>6, NoteAdded DEF NotedRemoval, RemoveObj, OnTo
<1>8. Running'
  BY <1>1, <1>3, <1>4, <1>5, <1>7 DEF Running, At, OnTo
<1>9. QED
  BY <1>3, <1>5, <1>8 DEF OnTo

(* The contents of the inode go, in the call or in a mount that completes it. *)
LEMMA RemoveContentsTree ==
    ASSUME TypeInv, TreeInv, RemoveContents
    PROVE  TreeInv' /\ [Tree!Next]_Tree!vars
<1>1. At("truncate") /\ log' = log
  BY DEF RemoveContents
<1>2. ~ AtRest /\ IsTree(Was)
  BY <1>1 DEF AtRest, NoCall, At, TreeInv
<1>3. CASE ~ call.mount
  <2>1. /\ pending.op = "remove" /\ table = Was /\ call.no = pending.no /\ call.dir = pending.dir
        /\ Begun(Was, pending) /\ NotedRemoval /\ Running
    BY <1>1, <1>2, <1>3 DEF TreeInv, Running, At
  <2>2. CASE MayTruncate(Node0)
    <3>1. /\ table' = [Was EXCEPT ![pending.no] = Emptied(Node0)] /\ Goto("unlist")
          /\ UNCHANGED <<pending, answer, before>> /\ "unlist" \in Steps \ {"none"}
      BY <1>3, <2>1, <2>2 DEF RemoveContents, AfterTruncate, Node0, Steps
    <3>2. table' = Cleared
      BY <1>2, <3>1, StageOfOne, CallTypes DEF Cleared, Entries0
    <3>3. OnTo("unlist")
      BY <1>2, <3>1, GoesOn
    <3>4. NotedRemoval' /\ Begun(Was', pending') /\ MayTruncate(Node0)' /\ Cleared' = Cleared
      BY <1>1, <2>1, <2>2, <3>3 DEF NotedRemoval, Node0, Cleared, Entries0, OnTo
    <3>5. Running'
      BY <1>3, <2>1, <3>2, <3>3, <3>4 DEF Running, At, OnTo
    <3>6. QED
      BY <1>3, <3>3, <3>5 DEF OnTo
  <2>3. CASE ~ MayTruncate(Node0)
    <3>1. Return("refused") /\ table' = Was
      BY <1>3, <2>1, <2>3 DEF RemoveContents, Node0
    <3>2. NoNote'
      BY <1>1, <2>1, NotesSay DEF NoNote
    <3>3. QED
      BY <1>2, <3>1, <3>2, Ends
  <2>4. QED
    BY <2>2, <2>3
<1>4. CASE call.mount
  <2>1. /\ pending.op = "remove" /\ call.no = pending.no /\ call.dir = pending.dir
        /\ Allowed(Was, pending) /\ NotedRemoval
        /\ table \in Removals({Node0, Emptied(Node0)})
    BY <1>1, <1>2, <1>4 DEF TreeInv, Mounting, At
  <2>2. PICK node \in {Node0, Emptied(Node0)}, entries \in {Entries0, WithoutEntry(Was, pending)} :
            table = Stage(Was, pending, node, entries)
    BY <2>1 DEF Removals
  <2>3. /\ table' = [table EXCEPT ![pending.no] = Emptied(table[pending.no])] /\ Goto("deleteInode")
        /\ UNCHANGED <<pending, answer, before>> /\ "deleteInode" \in Steps \ {"none"}
    BY <1>4, <2>1 DEF RemoveContents, AfterTruncate, Steps
  <2>4. /\ table[pending.no] = node /\ Emptied(node) = Emptied(Node0)
        /\ table' = Stage(Was, pending, Emptied(Node0), entries)
    BY <1>2, <2>1, <2>2, <2>3, RemovalStages
  <2>5. OnTo("deleteInode")
    BY <1>2, <2>3, GoesOn
  <2>6. /\ NotedRemoval' /\ Allowed(Was', pending') /\ Node0' = Node0
        /\ Removals({Node0, Emptied(Node0)})' = Removals({Node0, Emptied(Node0)})
    BY <1>1, <2>1, <2>5 DEF NotedRemoval, Node0, Removals, Entries0, OnTo
  <2>7. table' \in Removals({Node0, Emptied(Node0)})
    BY <2>4 DEF Removals
  <2>8. Mounting'
    BY <2>1, <2>5, <2>6, <2>7 DEF Mounting, At, OnTo
  <2>9. QED
    BY <1>4, <2>5, <2>8 DEF OnTo
<1>5. QED
  BY <1>3, <1>4

(* removeInodeFromDir: the root directory is refused, and a mount takes an entry
   that is gone for done. *)
LEMMA UnlistTree ==
    ASSUME TypeInv, TreeInv, RemoveInodeFromDir
    PROVE  TreeInv' /\ [Tree!Next]_Tree!vars
<1> DEFINE rest == Without(table[call.dir].entries, call.no)
<1>1. /\ At("unlist") /\ log' = log
      /\ table' = [table EXCEPT ![call.dir].entries = rest]
      /\ IF rest = table[call.dir].entries /\ (~ call.mount \/ call.dir \notin InUse)
           THEN Return("refused")
           ELSE /\ Goto(IF rest \notin {<<>>, table[call.dir].entries}
                          THEN "unlisted" ELSE AfterUnlist)
                /\ UNCHANGED <<pending, answer, before>>
  BY DEF RemoveInodeFromDir
<1>2. ~ AtRest /\ IsTree(Was)
  BY <1>1 DEF AtRest, NoCall, At, TreeInv
<1>3. CASE ~ call.mount
  <2>1. /\ pending.op = "remove" /\ table = Cleared /\ call.no = pending.no
        /\ call.dir = pending.dir
        /\ Begun(Was, pending) /\ NotedRemoval /\ MayTruncate(Node0) /\ Running
    BY <1>1, <1>2, <1>3 DEF TreeInv, Running, At
  <2>2. CASE pending.no = 0
    <3>1. pending.dir = 0
      <4>1. \A i : ~ IsListed(Was, pending.dir, i, 0)
        BY <1>2, CallTypes, EntryWise DEF IsTree
      <4>2. QED
        BY <2>1, <2>2, <4>1 DEF Begun, IsListed
    <3>2. /\ Was \in Tables /\ Was[0] \in Node /\ Was[0].entries = <<>> /\ Was[0].full = FALSE
      <4>1. Was \in Tables /\ Was[0].type = "dir" /\ 0 \in Numbers
        BY <1>2, CallTypes DEF IsTree, Shape
      <4>2. Was[0] \in Node
        BY <4>1 DEF Tables
      <4>3. Was[0].entries = <<>>
        BY <1>2, <2>1, <2>2, <4>1, TruncatedIsEmpty DEF Node0
      <4>4. Was[0].full = FALSE
        BY <1>2, <4>1, <4>2 DEF IsTree, Shape, Node
      <4>5. QED
        BY <4>1, <4>2, <4>3, <4>4
    <3>3. Emptied(Was[0]) = Was[0]
      BY <3>2 DEF Emptied, Node
    <3>4. table = Was
      <4>1. Cleared = [Was EXCEPT ![pending.no] = Emptied(Node0)]
        BY <1>2, CallTypes, StageOfOne DEF Cleared, Entries0
      <4>2. [Was EXCEPT ![0] = Was[0]] = Was
        BY <3>2 DEF Tables
      <4>3. QED
        BY <2>1, <2>2, <3>3, <4>1, <4>2 DEF Node0
    <3>5. rest = <<>> /\ table[call.dir].entries = <<>>
      <4>1. Without(<<>>, 0) = <<>>
        BY DEF Without
      <4>2. QED
        BY <2>1, <2>2, <3>1, <3>2, <3>4, <4>1
    <3>6. table' = Was
      <4>1. [Was[0] EXCEPT !.entries = <<>>] = Was[0]
        BY <3>2 DEF Node
      <4>2. [Was EXCEPT ![0].entries = <<>>] = [Was EXCEPT ![0] = [Was[0] EXCEPT !.entries = <<>>]]
        OBVIOUS
      <4>3. [Was EXCEPT ![0] = Was[0]] = Was
        BY <3>2 DEF Tables
      <4>4. table' = [Was EXCEPT ![0].entries = <<>>]
        BY <1>1, <2>1, <3>1, <3>4, <3>5
      <4>5. QED
        BY <4>1, <4>2, <4>3, <4>4
    <3>7. Return("refused")
      BY <1>1, <1>3, <3>5
    <3>8. NoNote'
      BY <1>1, <2>1, NotesSay DEF NoNote
    <3>9. QED
      BY <1>2, <3>6, <3>7, <3>8, Ends
  <2>3. CASE pending.no # 0
    <3>1. Allowed(Was, pending)
      BY <2>1, <2>3 DEF Allowed, Node0
    <3>2. /\ table[call.dir].entries = Entries0 /\ rest = WithoutEntry(Was, pending)
          /\ rest # table[call.dir].entries /\ table' = Unlinked
      BY <1>1, <1>2, <2>1, <3>1, RemovalStages DEF Cleared, Unlinked
    <3>3. PICK step \in {"unlisted", "deleteInode"} : Goto(step)
      BY <1>1, <1>3, <3>2 DEF AfterUnlist
    <3>4. UNCHANGED <<pending, answer, before>> /\ step \in Steps \ {"none"}
      BY <1>1, <3>2 DEF Steps
    <3>5. OnTo(step)
      BY <1>2, <3>3, <3>4, GoesOn
    <3>6. /\ NotedRemoval' /\ Begun(Was', pending') /\ Allowed(Was', pending')
          /\ Unlinked' = Unlinked
      BY <1>1, <2>1, <3>1, <3>5 DEF NotedRemoval, Unlinked, Node0, OnTo
    <3>7. Running'
      BY <1>3, <2>1, <3>2, <3>5, <3>6 DEF Running, At, OnTo
    <3>8. QED
      BY <1>3, <3>5, <3>7 DEF OnTo
  <2>4. QED
    BY <2>2, <2>3
<1>4. CASE call.mount
  <2>1. /\ pending.op = "remove" /\ call.no = pending.no /\ call.dir = pending.dir
        /\ Allowed(Was, pending) /\ NotedRemoval /\ table \in Removals({None})
    BY <1>1, <1>2, <1>4 DEF TreeInv, Mounting, At
  <2>2. PICK entries \in {Entries0, WithoutEntry(Was, pending)} :
            table = Stage(Was, pending, None, entries)
    BY <2>1 DEF Removals
  <2>3. /\ table[call.dir].entries = entries /\ rest = WithoutEntry(Was, pending)
        /\ table[call.dir].type = "dir" /\ table' = Done(Was, pending)
    BY <1>1, <1>2, <2>1, <2>2, RemovalStages
  <2>4. call.dir \in InUse
    BY <2>3, CallTypes DEF InUse
  <2>5. PICK step \in {"unlisted", "checkpoint"} : Goto(step)
    BY <1>1, <1>4, <2>4 DEF AfterUnlist
  <2>6. UNCHANGED <<pending, answer, before>> /\ step \in Steps \ {"none"}
    BY <1>1, <1>4, <2>4 DEF Steps
  <2>7. OnTo(step)
    BY <1>2, <2>5, <2>6, GoesOn
  <2>8. /\ NotedRemoval' /\ Allowed(Was', pending') /\ table' = Done(Was', pending')
    BY <1>1, <2>1, <2>3, <2>7 DEF NotedRemoval, OnTo
  <2>9. Mounting'
    BY <2>1, <2>7, <2>8 DEF Mounting, At, OnTo
  <2>10. QED
    BY <1>4, <2>7, <2>9 DEF OnTo
<1>5. QED
  BY <1>3, <1>4

(* The checkpoint between unlisting an entry and deleting its inode. *)
LEMMA CheckpointUnlistedTree ==
    ASSUME TypeInv, TreeInv, CheckpointUnlisted
    PROVE  TreeInv' /\ [Tree!Next]_Tree!vars
<1>1. /\ At("unlisted") /\ log' = <<>> /\ Goto(AfterUnlist)
      /\ UNCHANGED <<table, pending, answer, before>> /\ AfterUnlist \in Steps \ {"none"}
  BY DEF CheckpointUnlisted, AfterUnlist, Steps
<1>2. ~ AtRest /\ IsTree(Was)
  BY <1>1 DEF AtRest, NoCall, At, TreeInv
<1>3. OnTo(AfterUnlist)
  BY <1>1, <1>2, GoesOn
<1>4. CASE ~ call.mount
  <2>1. /\ pending.op = "remove" /\ table = Unlinked /\ Allowed(Was, pending) /\ Running
    BY <1>1, <1>2, <1>4 DEF TreeInv, Running, At
  <2>2. /\ Begun(Was', pending') /\ Allowed(Was', pending') /\ Unlinked' = Unlinked
    BY <2>1, <1>3 DEF Running, Unlinked, Node0, OnTo
  <2>3. AfterUnlist = "deleteInode"
    BY <1>4 DEF AfterUnlist
  <2>4. Running'
    BY <1>1, <1>3, <1>4, <2>1, <2>2, <2>3 DEF Running, At, OnTo
  <2>5. QED
    BY <1>3, <1>4, <2>4 DEF OnTo
<1>5. CASE call.mount
  <2>1. /\ pending.op = "remove" /\ table = Done(Was, pending) /\ Allowed(Was, pending)
        /\ call.no = pending.no /\ call.dir = pending.dir
    BY <1>1, <1>2, <1>5 DEF TreeInv, Mounting, At
  <2>2. /\ Allowed(Was', pending') /\ table' = Done(Was', pending')
    BY <1>1, <2>1, <1>3 DEF OnTo
  <2>3. AfterUnlist = "checkpoint"
    BY <1>5 DEF AfterUnlist
  <2>4. Mounting'
    BY <1>1, <1>3, <2>1, <2>2, <2>3 DEF Mounting, At, OnTo
  <2>5. QED
    BY <1>3, <1>5, <2>4 DEF OnTo
<1>6. QED
  BY <1>4, <1>5

(* The inode goes: at the end of a removal, or in a mount that reverts a creation. *)
LEMMA DeleteTree ==
    ASSUME TypeInv, TreeInv, DeleteInode
    PROVE  TreeInv' /\ [Tree!Next]_Tree!vars
<1>1. /\ At("deleteInode") /\ log' = log /\ Goto(AfterDelete)
      /\ table' = [table EXCEPT ![call.no] = None]
      /\ UNCHANGED <<pending, answer, before>> /\ AfterDelete \in Steps \ {"none"}
  BY DEF DeleteInode, AfterDelete, Steps
<1>2. ~ AtRest /\ IsTree(Was)
  BY <1>1 DEF AtRest, NoCall, At, TreeInv
<1>3. OnTo(AfterDelete)
  BY <1>1, <1>2, GoesOn
<1>4. CASE ~ call.mount
  <2>1. /\ pending.op = "remove" /\ table = Unlinked /\ Allowed(Was, pending) /\ Running
        /\ call.no = pending.no /\ (NotedRemoval \/ log = <<>>)
    BY <1>1, <1>2, <1>4 DEF TreeInv, Running, At
  <2>3. table' = Done(Was, pending)
    BY <1>1, <1>2, <2>1, RemovalStages DEF Unlinked
  <2>4. /\ Begun(Was', pending') /\ Allowed(Was', pending') /\ table' = Done(Was', pending')
    BY <2>1, <2>3, <1>3 DEF Running, OnTo
  <2>5. NotedRemoval' \/ log' = <<>>
    BY <1>1, <1>3, <2>1 DEF NotedRemoval, OnTo
  <2>6. AfterDelete = "checkpoint"
    BY <1>4 DEF AfterDelete
  <2>7. Running'
    BY <1>3, <1>4, <2>1, <2>4, <2>5, <2>6 DEF Running, At, OnTo
  <2>8. QED
    BY <1>3, <1>4, <2>7 DEF OnTo
<1>5. CASE call.mount /\ pending.op = "create"
  <2>2. /\ Begun(Was, pending) /\ call.no = pending.no /\ (NotedNew \/ NotedEntry)
        /\ table \in {Was, Made}
    BY <1>1, <1>2, <1>5 DEF TreeInv, Mounting, At
  <2>3. pending.no \notin Used(Was) /\ pending.no \in Numbers /\ Was \in Tables
    BY <1>2, <1>5, <2>2, CallTypes DEF Begun, IsTree, Shape
  <2>4. Was[pending.no] = None
    BY <1>2, <2>3 DEF Used, IsTree, Shape
  <2>5. [Was EXCEPT ![pending.no] = None] = Was
    BY <2>3, <2>4 DEF Tables
  <2>6. Made = [Was EXCEPT ![pending.no] = NewInode(pending.type)]
    BY <1>2, CallTypes, StageOfOne DEF Made, Entries0
  <2>7. [[Was EXCEPT ![pending.no] = NewInode(pending.type)] EXCEPT ![pending.no] = None]
          = [Was EXCEPT ![pending.no] = None]
    BY <2>3 DEF Tables
  <2>8. table' = Was
    BY <1>1, <2>2, <2>5, <2>6, <2>7
  <2>9. AfterDelete = "checkpoint"
    BY <2>2, NotesSay DEF AfterDelete
  <2>10. /\ Begun(Was', pending') /\ (NotedNew' \/ NotedEntry') /\ table' = Was'
    BY <1>1, <1>3, <2>2, <2>8 DEF NotedNew, NotedEntry, OnTo
  <2>11. Mounting'
    BY <1>3, <1>5, <2>2, <2>9, <2>10 DEF Mounting, At, OnTo
  <2>12. QED
    BY <1>3, <1>5, <2>11 DEF OnTo
<1>6. CASE call.mount /\ pending.op # "create"
  <2>1. /\ pending.op = "remove" /\ call.no = pending.no /\ call.dir = pending.dir
        /\ Allowed(Was, pending) /\ NotedRemoval
        /\ table \in Removals({Node0, Emptied(Node0)})
    BY <1>1, <1>2, <1>6 DEF TreeInv, Mounting, At
  <2>2. PICK node \in {Node0, Emptied(Node0)}, entries \in {Entries0, WithoutEntry(Was, pending)} :
            table = Stage(Was, pending, node, entries)
    BY <2>1 DEF Removals
  <2>3. table' = Stage(Was, pending, None, entries)
    BY <1>1, <1>2, <2>1, <2>2, RemovalStages
  <2>4. table' \in Removals({None})
    BY <2>3 DEF Removals
  <2>5. AfterDelete = "unlist"
    BY <1>6, <2>1, NotesSay DEF AfterDelete
  <2>6. /\ NotedRemoval' /\ Allowed(Was', pending')
        /\ Removals({None})' = Removals({None})
    BY <1>1, <2>1, <1>3 DEF NotedRemoval, Removals, Entries0, OnTo
  <2>7. Mounting'
    BY <1>3, <2>1, <2>4, <2>5, <2>6 DEF Mounting, At, OnTo
  <2>8. QED
    BY <1>3, <1>6, <2>7 DEF OnTo
<1>7. QED
  BY <1>4, <1>5, <1>6

----------------------------------------------------------------------------
(* Loss of power and mount *)

(* signalEndOfLog finds the inode and the directory of the call in the notes, and
   the table tells it how far the call came. *)
LEMMA SignalEndOfLogTree ==
    ASSUME TypeInv, TreeInv, Careful, SignalEndOfLog
    PROVE  TreeInv' /\ [Tree!Next]_Tree!vars
<1>1. At("endOfLog") /\ UNCHANGED <<table, log>>
  BY DEF SignalEndOfLog
<1>2. ~ AtRest /\ IsTree(Was)
  BY <1>1 DEF AtRest, NoCall, At, TreeInv
<1>3. call.mount /\ MountFinds
  BY <1>1, <1>2, CallTypes DEF TreeInv, Running, Mounting, At
<1>4. /\ pending \in Requests /\ pending.no \in Numbers /\ pending.dir \in Numbers
      /\ Was \in Tables
  BY <1>2, CallTypes DEF IsTree, Shape
<1>5. CASE log = <<>>
  <2>1. Return("none") /\ NoNote'
    BY <1>1, <1>5 DEF SignalEndOfLog, NoNote
  <2>2. \/ table = Was
        \/ Allowed(Was, pending) /\ table = Done(Was, pending)
    BY <1>3, <1>5, EmptySeq DEF MountFinds, NotedNew, NotedEntry, NotedRemoval
  <2>3. QED
    BY <1>1, <1>2, <1>3, <2>1, <2>2, Ends
<1>6. ASSUME NEW step, step \in {"unlist", "truncate", "deleteInode", "checkpoint"},
             call' = [call EXCEPT !.no = TargetInode, !.dir = FolderInode, !.at = step],
             UNCHANGED <<pending, answer, before>>
      PROVE  /\ [Tree!Next]_Tree!vars /\ Was' = Was /\ pending' = pending
             /\ call'.at = step /\ call'.no = TargetInode /\ call'.dir = FolderInode
             /\ call'.mount = call.mount
             /\ Mounting' => TreeInv'
  <2>1. /\ call'.at = step /\ call'.no = TargetInode /\ call'.dir = FolderInode
        /\ call'.mount = call.mount
    BY <1>6 DEF TypeInv, TypeOK
  <2>2. ~ AtRest'
    BY <1>6, <2>1 DEF AtRest, NoCall
  <2>3. QED
    BY <1>2, <1>3, <1>6, <2>1, <2>2, WithinCall
<1>7. CASE pending.op = "create" /\ log # <<>>
  <2>1. Begun(Was, pending) /\ (NotedNew \/ NotedEntry)
    BY <1>3, <1>7 DEF MountFinds
  <2>2. TargetInode = pending.no
    BY <2>1, TargetIsNoted
  <2>3. /\ pending.no \notin Used(Was) /\ Was[pending.dir].type = "dir"
        /\ pending.dir # pending.no
    BY <1>4, <1>7, <2>1 DEF Begun, Used
  <2>4. CASE NotedNew
    <3>1. Last(log).op = "mkObjInode" /\ table \in {Was, Made}
      BY <1>3, <1>7, <2>4, NotesSay DEF MountFinds
    <3>2. /\ call' = [call EXCEPT !.no = TargetInode, !.dir = FolderInode, !.at = "deleteInode"]
          /\ UNCHANGED <<pending, answer, before>>
      BY <1>7, <3>1 DEF SignalEndOfLog, Undo
    <3>3. /\ [Tree!Next]_Tree!vars /\ Was' = Was /\ pending' = pending
          /\ call'.at = "deleteInode" /\ call'.no = pending.no
          /\ Mounting' => TreeInv'
      BY <1>6, <2>2, <3>2
    <3>4. NotedNew' /\ Begun(Was', pending') /\ Made' = Made
      BY <1>1, <2>1, <2>4, <3>3 DEF NotedNew, Made, Entries0
    <3>5. Mounting'
      BY <1>1, <1>7, <3>1, <3>3, <3>4 DEF Mounting, At
    <3>6. QED
      BY <3>3, <3>5
  <2>5. CASE NotedEntry
    <3>1. /\ Last(log).op = "insertIntoDir" /\ FolderInode = pending.dir
          /\ table \in {Was, Made, Done(Was, pending)}
      BY <1>3, <1>7, <2>5, NotesSay DEF MountFinds, FolderInode
    <3>2. /\ Was = Stage(Was, pending, Was[pending.no], Entries0)
          /\ Done(Was, pending) = Stage(Was, pending, NewInode(pending.type), WithEntry(Was, pending))
      BY <1>2, <1>4, <1>7, <2>3, StageProperties DEF Entries0, Done
    <3>3. /\ table[pending.dir].type = "dir"
          /\ table \in {Was, Made} => table[pending.dir].entries = Entries0
          /\ table \notin {Was, Made} =>
                /\ table = Done(Was, pending)
                /\ table[pending.dir].entries = WithEntry(Was, pending)
      BY <1>2, <1>4, <2>3, <3>1, <3>2, StageProperties DEF Made
    <3>4. FolderInode \in InUse
      BY <1>4, <3>1, <3>3 DEF InUse
    <3>5. Entries0 \in Seq(Item) /\ [name |-> pending.name, no |-> pending.no] \in Item
      BY <1>4, <1>7, <2>1 DEF Entries0, Tables, Node, Item, Begun
    <3>6. \A e \in ToSet(Entries0) : e.no # pending.no /\ e.name # NoName
      <4>1. \A i : ~ IsListed(Was, pending.dir, i, pending.no)
        BY <1>2, <1>4, <2>3, EntryWise DEF IsTree
      <4>2. \A e \in ToSet(Entries0) : e \in Item
        BY <3>5 DEF ToSet
      <4>3. QED
        BY <4>1, <4>2 DEF ToSet, Entries0, IsListed, Item, Careful
    <3>7. \E e \in ToSet(WithEntry(Was, pending)) : e.no = pending.no
      <4>1. /\ Len(Entries0) + 1 \in DOMAIN WithEntry(Was, pending)
            /\ WithEntry(Was, pending)[Len(Entries0) + 1] = [name |-> pending.name, no |-> pending.no]
        BY <3>5, AppendType DEF WithEntry, Entries0
      <4>2. QED
        BY <4>1 DEF ToSet
    <3>8. PICK step \in {"deleteInode", "checkpoint"} :
             /\ call' = [call EXCEPT !.no = TargetInode, !.dir = FolderInode, !.at = step]
             /\ UNCHANGED <<pending, answer, before>>
             /\ step = "deleteInode" => table \in {Was, Made}
             /\ step = "checkpoint" => table = Done(Was, pending)
      <4>1. /\ call' = [call EXCEPT !.no = TargetInode, !.dir = FolderInode, !.at = Undo]
            /\ UNCHANGED <<pending, answer, before>>
        BY <1>7, <3>1, <3>4 DEF SignalEndOfLog
      <4>2. CASE table \in {Was, Made}
        <5>1. Undo = "deleteInode"
          BY <2>2, <3>1, <3>3, <3>6, <4>2 DEF Undo
        <5>2. QED
          BY <4>1, <4>2, <5>1
      <4>3. CASE table \notin {Was, Made}
        <5>1. Undo = "checkpoint"
          BY <2>2, <3>1, <3>3, <3>7, <4>3 DEF Undo
        <5>2. QED
          BY <3>3, <4>1, <4>3, <5>1
      <4>4. QED
        BY <4>2, <4>3
    <3>9. /\ [Tree!Next]_Tree!vars /\ Was' = Was /\ pending' = pending
          /\ call'.at = step /\ call'.no = pending.no
          /\ Mounting' => TreeInv'
      BY <1>6, <2>2, <3>8
    <3>10. NotedEntry' /\ Begun(Was', pending') /\ Made' = Made
      BY <1>1, <2>1, <2>5, <3>9 DEF NotedEntry, Made, Entries0
    <3>11. Mounting'
      BY <1>1, <1>7, <3>8, <3>9, <3>10 DEF Mounting, At
    <3>12. QED
      BY <3>9, <3>11
  <2>6. QED
    BY <2>1, <2>4, <2>5
<1>8. CASE pending.op # "create" /\ log # <<>>
  <2>1. /\ pending.op = "remove" /\ Allowed(Was, pending) /\ NotedRemoval
        /\ table \in Removals({Node0, Emptied(Node0), None})
    BY <1>3, <1>8 DEF MountFinds
  <2>2. /\ TargetInode = pending.no /\ FolderInode = pending.dir
        /\ Last(log).op = "removeObj"
    BY <2>1, TargetIsNoted, NotesSay DEF FolderInode
  <2>3. PICK node \in {Node0, Emptied(Node0), None},
             entries \in {Entries0, WithoutEntry(Was, pending)} :
            table = Stage(Was, pending, node, entries)
    BY <2>1 DEF Removals
  <2>4. /\ table[pending.no] = node /\ Node0.type # "none" /\ Emptied(Node0).type # "none"
        /\ None.type = "none"
    BY <1>2, <2>1, <2>3, RemovalStages DEF None
  <2>5. pending.no \in InUse => node \in {Node0, Emptied(Node0)}
    BY <2>4 DEF InUse
  <2>6. pending.no \notin InUse => node = None
    BY <1>4, <2>4 DEF InUse
  <2>7. PICK step \in {"unlist", "truncate", "deleteInode"} :
           /\ call' = [call EXCEPT !.no = TargetInode, !.dir = FolderInode, !.at = step]
           /\ UNCHANGED <<pending, answer, before>>
           /\ step = "unlist" => node = None
           /\ step # "unlist" => node \in {Node0, Emptied(Node0)}
    BY <1>8, <2>2, <2>5, <2>6 DEF SignalEndOfLog
  <2>8. /\ [Tree!Next]_Tree!vars /\ Was' = Was /\ pending' = pending
        /\ call'.at = step /\ call'.no = pending.no /\ call'.dir = pending.dir
        /\ Mounting' => TreeInv'
    BY <1>6, <2>2, <2>7
  <2>9. /\ NotedRemoval' /\ Allowed(Was', pending') /\ Node0' = Node0
        /\ Removals({None})' = Removals({None})
        /\ Removals({Node0, Emptied(Node0)})' = Removals({Node0, Emptied(Node0)})
    BY <1>1, <2>1, <2>8 DEF NotedRemoval, Node0, Removals, Entries0
  <2>10. /\ step = "unlist" => table' \in Removals({None})
         /\ step # "unlist" => table' \in Removals({Node0, Emptied(Node0)})
    BY <1>1, <2>3, <2>7 DEF Removals
  <2>11. Mounting'
    BY <2>1, <2>7, <2>8, <2>9, <2>10 DEF Mounting, At
  <2>12. QED
    BY <2>8, <2>11
<1>9. QED
  BY <1>5, <1>7, <1>8

(* When power fails during a call or a mount, the mount finds what it can deal
   with, unless the loss of power is one that is left out. *)
LEMMA LossDuringCall ==
    ASSUME TypeInv, TreeInv, ~ AtRest, ~ Refused, ~ Unlisted
    PROVE  MountFinds
<1>1. /\ IsTree(Was) /\ (call.mount => Mounting) /\ (~ call.mount => Running)
      /\ pending \in Requests
  BY CallTypes DEF TreeInv
<1>r. ASSUME pending.op = "remove", Allowed(Was, pending)
      PROVE  /\ Was \in Removals({Node0, Emptied(Node0), None})
             /\ Cleared \in Removals({Node0, Emptied(Node0), None})
             /\ Unlinked \in Removals({Node0, Emptied(Node0), None})
             /\ Done(Was, pending) \in Removals({Node0, Emptied(Node0), None})
             /\ Removals({None}) \subseteq Removals({Node0, Emptied(Node0), None})
             /\ Removals({Node0, Emptied(Node0)}) \subseteq Removals({Node0, Emptied(Node0), None})
  BY <1>1, <1>r, RemovalStages DEF Removals, Cleared, Unlinked
<1>2. CASE call.mount
  <2>1. CASE At("endOfLog")
    BY <1>1, <1>2, <2>1 DEF Mounting, At
  <2>2. CASE pending.op = "create" /\ ~ At("endOfLog")
    BY <1>1, <1>2, <2>2 DEF Mounting, MountFinds
  <2>3. CASE pending.op # "create" /\ ~ At("endOfLog")
    <3>1. pending.op = "remove" /\ Allowed(Was, pending)
      BY <1>1, <1>2, <2>3 DEF Mounting
    <3>2. pending # Idle
      BY <3>1, CallTypes
    <3>3. CASE NotedRemoval
      <4>1. table \in Removals({Node0, Emptied(Node0), None})
        BY <1>1, <1>2, <1>r, <2>3, <3>1 DEF Mounting
      <4>2. QED
        BY <3>1, <3>3, <4>1 DEF MountFinds
    <3>4. CASE ~ NotedRemoval
      BY <1>1, <1>2, <2>3, <3>1, <3>2, <3>4 DEF Mounting, MountFinds
    <3>5. QED
      BY <3>3, <3>4
  <2>4. QED
    BY <2>1, <2>2, <2>3
<1>3. CASE ~ call.mount
  <2>1. Running /\ Begun(Was, pending) /\ pending # Idle /\ call.no = pending.no
    BY <1>1, <1>3 DEF Running
  <2>2. CASE NoNote /\ (pending.op # "remove" \/ At("removeObj"))
    <3>1. log = <<>>
      BY <1>3, <2>2 DEF Refused, NoNote
    <3>2. ~ NotedNew /\ ~ NotedEntry /\ ~ NotedRemoval
      BY <3>1 DEF NotedNew, NotedEntry, NotedRemoval
    <3>3. pending.op # "remove" => table = Was \/ (Allowed(Was, pending) /\ table = Done(Was, pending))
      BY <2>1, <3>2 DEF Running
    <3>4. At("removeObj") => table = Was
      BY <2>1 DEF Running, At
    <3>5. QED
      BY <2>1, <2>2, <3>1, <3>3, <3>4 DEF MountFinds
  <2>3. CASE pending.op = "create" /\ ~ NoNote
    BY <2>1, <2>3 DEF Running, MountFinds, NoNote
  <2>4. CASE pending.op = "remove" /\ ~ At("removeObj")
    <3>1. CASE log = <<>>
      <4>1. Allowed(Was, pending) /\ table = Done(Was, pending)
        BY <1>3, <2>1, <2>4, <3>1 DEF Running, Unlisted, At, NotedRemoval
      <4>2. QED
        BY <2>1, <3>1, <4>1 DEF MountFinds
    <3>2. CASE log # <<>>
      <4>1. NotedRemoval
        BY <2>1, <2>4, <3>2 DEF Running
      <4>2. pending.no # 0 /\ (At("truncate") => MayTruncate(table[pending.no]))
        BY <1>3, <2>1, <3>2, <4>1, NotesSay DEF Refused
      <4>3. Allowed(Was, pending) /\ table \in {Was, Cleared, Unlinked, Done(Was, pending)}
        BY <2>1, <2>4, <4>2 DEF Running, Allowed, Node0, At
      <4>4. QED
        BY <1>r, <2>4, <4>1, <4>3 DEF MountFinds
    <3>3. QED
      BY <3>1, <3>2
  <2>5. (pending.op \notin {"create", "remove"} => NoNote) /\ (At("removeObj") => NoNote)
    BY <2>1 DEF Running, At
  <2>6. QED
    BY <2>2, <2>3, <2>4, <2>5
<1>4. QED
  BY <1>2, <1>3, CallTypes

(* A power loss leaves what the notes describe; the abstract tree does not move
   until the mount has finished. *)
LEMMA PowerLossTree ==
    ASSUME TypeInv, TreeInv, Careful, PowerLoss
    PROVE  TreeInv' /\ [Tree!Next]_Tree!vars
<1>1. /\ ~ Refused /\ ~ Unlisted /\ UNCHANGED <<table, log, pending>> /\ answer' = "none"
      /\ before' = IF AtRest THEN Objects ELSE before
      /\ call' = [NoCall EXCEPT !.at = "endOfLog", !.mount = TRUE]
  BY DEF PowerLoss, Careful
<1>2. call'.at = "endOfLog" /\ call'.mount = TRUE /\ ~ AtRest'
  BY <1>1 DEF NoCall, AtRest
<1>3. CASE AtRest
  <2>1. pending = Idle /\ IsTree(table) /\ NoNote /\ call.mount = FALSE /\ pending.op = "none"
    BY <1>3, CallTypes DEF TreeInv, Resting, AtRest
  <2>2. log = <<>>
    BY <1>1, <2>1 DEF Refused, NoNote
  <2>3. before' = ObjectsOf(table) /\ before' = Objects
    BY <1>1, <1>3, <2>1, TreeIsReached
  <2>4. Was' = table
    BY <2>1, <2>3, TableOfObjects DEF Was, TableOf
  <2>5. IsTree(Was') /\ before' = ObjectsOf(Was') /\ log' = <<>> /\ table' = Was'
    BY <1>1, <2>1, <2>2, <2>3, <2>4
  <2>6. Mounting'
    BY <1>2, <2>5 DEF Mounting, MountFinds, At
  <2>7. TreeInv'
    BY <1>1, <1>2, <2>5, <2>6 DEF TreeInv
  <2>8. (IF AtRest THEN Objects ELSE before)' = Objects /\ pending' = Tree!Idle
    BY <1>1, <1>2, <2>1, <2>3 DEF Idle, Pending, Tree!Idle, Tree!Call
  <2>9. Tree!Next
    BY <1>1, <1>3, <2>8 DEF Tree!Next, Tree!Mount
  <2>10. QED
    BY <2>7, <2>9
<1>4. CASE ~ AtRest
  <2>1. MountFinds /\ answer = "none"
    BY <1>1, <1>4, LossDuringCall DEF TreeInv
  <2>2. UNCHANGED <<pending, answer, before>>
    BY <1>1, <1>4, <2>1
  <2>3. /\ [Tree!Next]_Tree!vars /\ Was' = Was
        /\ (call'.mount => Mounting') /\ (~ call'.mount => Running') => TreeInv'
    BY <1>2, <1>4, <2>2, WithinCall
  <2>4. MountFinds'
    BY <1>1, <2>1, <2>3 DEF MountFinds, NotedNew, NotedEntry, NotedRemoval, Made, Entries0,
                             Removals, Node0
  <2>5. Mounting'
    BY <1>2, <2>4 DEF Mounting, At
  <2>6. QED
    BY <1>2, <2>3, <2>5
<1>5. QED
  BY <1>3, <1>4

----------------------------------------------------------------------------
(* The theorems *)

(* Every step keeps the invariant and is one that ObjectTree allows. *)
LEMMA TreeNext == Careful /\ TypeInv /\ TreeInv /\ [Next]_vars => TreeInv' /\ [Tree!Next]_Tree!vars
<1> SUFFICES ASSUME Careful, TypeInv, TreeInv, [Next]_vars
             PROVE  TreeInv' /\ [Tree!Next]_Tree!vars
  OBVIOUS
<1>1. CASE \E path \in Paths : Begin(path)
  BY <1>1, BeginTree
<1>2. CASE \E no \in Numbers : Write(no)
  BY <1>2, WriteTree
<1>3. CASE \E no \in Numbers : Close(no) \/ Flush(no)
  BY <1>3, Referenced DEF Close, Flush
<1>4. CASE Create
  BY <1>4, CreateTreeSteps
<1>5. CASE TruncateObj \/ WriteFile \/ UpdateInode
  BY <1>5, ChangeTreeSteps
<1>6. CASE LogRemoveObj
  BY <1>6, LogRemoveTree
<1>7. CASE RemoveContents
  BY <1>7, RemoveContentsTree
<1>8. CASE RemoveInodeFromDir
  BY <1>8, UnlistTree
<1>9. CASE CheckpointUnlisted
  BY <1>9, CheckpointUnlistedTree
<1>10. CASE DeleteInode
  BY <1>10, DeleteTree
<1>11. CASE Checkpoint
  BY <1>11, CheckpointTree
<1>12. CASE SignalEndOfLog
  BY <1>12, SignalEndOfLogTree
<1>13. CASE PowerLoss
  BY <1>13, PowerLossTree
<1>14. CASE UNCHANGED vars
  <2>1. UNCHANGED <<table, log, call, pending, answer, before>>
    BY <1>14 DEF vars
  <2>2. CASE AtRest
    BY <2>1, <2>2, Referenced
  <2>3. CASE ~ AtRest
    <3>1. ~ AtRest'
      BY <2>1, <2>3 DEF AtRest
    <3>2. /\ [Tree!Next]_Tree!vars /\ Was' = Was
          /\ (call'.mount => Mounting') /\ (~ call'.mount => Running') => TreeInv'
      BY <2>1, <2>3, <3>1, WithinCall
    <3>3. (call.mount => Mounting) /\ (~ call.mount => Running)
      BY <2>3 DEF TreeInv
    <3>4. (call'.mount => Mounting') /\ (~ call'.mount => Running')
      BY <2>1, <3>2, <3>3
         DEF Mounting, Running, MountFinds, NotedNew, NotedEntry, NotedRemoval, NoNote, Made,
             Cleared, Unlinked, Entries0, Removals, Node0, At
    <3>5. QED
      BY <3>2, <3>4
  <2>4. QED
    BY <2>2, <2>3
<1>15. QED
  BY <1>1, <1>2, <1>3, <1>4, <1>5, <1>6, <1>7, <1>8, <1>9, <1>10, <1>11, <1>12, <1>13, <1>14
     DEF Next, Step, RemoveStep

(* A tree has no orphans, and its directories list only inodes that are there. *)
LEMMA TreeIsWhole == TreeInv => NoOrphans /\ EntriesExist
<1> SUFFICES ASSUME TreeInv, AtRest
             PROVE  /\ \A n \in InUse \ {0} : Cardinality(Listings(n)) = 1
                    /\ \A d \in InUse : \A e \in ToSet(table[d].entries) : e.no \in InUse
  BY DEF NoOrphans, EntriesExist
<1>1. IsTree(table) /\ Reachable = InUse /\ InUse = Used(table)
  BY TreeIsReached DEF TreeInv, Resting
<1>2. ASSUME NEW n \in InUse \ {0}
      PROVE  Cardinality(Listings(n)) = 1
  <2>1. PICK d \in Numbers : \E i : IsListed(table, d, i, n)
    BY <1>1, <1>2, EntryWise DEF IsTree
  <2>2. PICK i : IsListed(table, d, i, n)
    BY <2>1
  <2>3. d \in Reachable /\ table[d].type = "dir"
    BY <1>1, <2>2 DEF IsListed, IsTree, Shape, Used
  <2>4. \A e \in Numbers : \A j : IsListed(table, e, j, n) => e = d /\ j = i
    BY <1>1, <2>2, EntryWise DEF IsTree
  <2>5. Listings(n) = {<<d, i>>}
    <3>1. <<d, i>> \in Listings(n)
      BY <2>2, <2>3 DEF Listings, IsListed
    <3>2. ASSUME NEW l \in Listings(n) PROVE l = <<d, i>>
      <4>1. PICK e \in Reachable : l \in {<<e, j>> : j \in {k \in DOMAIN table[e].entries :
                                                              table[e].entries[k].no = n}}
        BY <3>2 DEF Listings
      <4>2. PICK j \in DOMAIN table[e].entries : table[e].entries[j].no = n /\ l = <<e, j>>
        BY <4>1
      <4>3. e \in Numbers /\ IsListed(table, e, j, n)
        BY <4>2 DEF IsListed, Reachable, InUse
      <4>4. QED
        BY <2>4, <4>2, <4>3
    <3>3. QED
      BY <3>1, <3>2
  <2>6. QED
    BY <2>5, FS_Singleton
<1>3. ASSUME NEW d \in InUse, NEW e \in ToSet(table[d].entries)
      PROVE  e.no \in InUse
  <2>1. PICK i \in DOMAIN table[d].entries : e = table[d].entries[i]
    BY DEF ToSet
  <2>2. d \in Numbers
    BY DEF InUse
  <2>3. QED
    BY <1>1, <2>1, <2>2 DEF IsTree, EntriesUsed
<1>4. QED
  BY <1>2, <1>3

(* Between calls every inode but the root is listed by one directory, once, for
   all sequences of calls and losses of power, but for those that are left out. *)
THEOREM TreeHasNoOrphans == Careful /\ Spec => []NoOrphans
<1>1. Careful => Careful'
  BY DEF Careful
<1>2. QED
  BY <1>1, TypeInit, TypeNext, TreeInit, TreeNext, TreeIsWhole, PTL DEF Spec

(* Between calls no directory lists an inode that is not there. *)
THEOREM TreeEntriesExist == Careful /\ Spec => []EntriesExist
<1>1. Careful => Careful'
  BY DEF Careful
<1>2. QED
  BY <1>1, TypeInit, TypeNext, TreeInit, TreeNext, TreeIsWhole, PTL DEF Spec

(* The calls of the device implement ObjectTree: each is done as a whole or
   refused, and after a loss of power a mount leaves all of the call that was
   interrupted or nothing. *)
THEOREM DeviceImplementsTree == Careful /\ Spec => ImplementsTree
<1>1. Careful => Careful'
  BY DEF Careful
<1>2. QED
  BY <1>1, TypeInit, TypeNext, TreeInit, TreeNext, PTL DEF Spec, ImplementsTree, Tree!Spec

=============================================================================

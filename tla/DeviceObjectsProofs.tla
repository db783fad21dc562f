------------------------ MODULE DeviceObjectsProofs ------------------------
(***************************************************************************)
(* Proofs about DeviceObjects, for any numbers of inodes, names, lengths   *)
(* of paths, references and losses of power.                               *)
(***************************************************************************)
EXTENDS DeviceObjects, InductionLemmas, SequenceTheorems, FiniteSetTheorems, TLAPS

(* A path element is found from the one before it. *)
Further(r, name) == IF r.result = "ok" THEN Lookup(r.no, name) ELSE r

(* The elements of a path, as getInodeOfElem finds them. *)
Elems(path) ==
    CHOOSE f : f = [i \in 0..Len(path) |->
                       IF i = 0 THEN Root
                       ELSE IF f[i - 1].result = "ok" THEN Lookup(f[i - 1].no, path[i])
                       ELSE f[i - 1]]

(* What a search gives: an inode that is in the tree, or why there is none. *)
Answers ==
    {r \in [result : {"ok", "fail", "notFound", "invalidInput", "bug"}, no : Numbers] :
        r.result = "ok" => r.no \in InUse}

(* One search in a directory answers with a status and an inode number. *)
LEMMA LookupAnswers ==
    ASSUME NEW no, NEW name
    PROVE  Lookup(no, name) \in Answers
<1>1. 0 \in Numbers
  BY ObjectsAssumption
<1>2. \A r \in {"invalidInput", "notFound", "bug"} : Failed(r) \in Answers
  BY <1>1 DEF Failed, Answers
<1>3. \A n \in InUse : Found(n) \in Answers
  BY DEF Found, Answers, InUse
<1>4. QED
  BY <1>2, <1>3 DEF Lookup

(* So does the search for the root, also when its inode is missing. *)
LEMMA RootAnswers == Root \in Answers
  BY ObjectsAssumption DEF Root, Found, Failed, Answers, InUse

(* The search along a path is the function its definition describes. *)
LEMMA ElemsDefined ==
    ASSUME NEW path \in Seq(Names)
    PROVE  /\ getInodeOfElem(path) = Elems(path)[Len(path)]
           /\ Elems(path) \in [0..Len(path) -> Answers]
           /\ Elems(path)[0] = Root
           /\ \A i \in 1..Len(path) : Elems(path)[i] = Further(Elems(path)[i - 1], path[i])
<1> DEFINE n == Len(path)
           step == [i \in 1..n |-> [r \in Answers |-> Further(r, path[i])]]
           Solves(f) == f = [i \in 0..n |->
                                IF i = 0 THEN Root
                                ELSE IF f[i - 1].result = "ok" THEN Lookup(f[i - 1].no, path[i])
                                ELSE f[i - 1]]
<1>1. n \in Nat
  BY LenProperties
<1>2. \A r \in Answers, i \in 1..n : Further(r, path[i]) \in Answers
  BY LookupAnswers DEF Further
<1>3. /\ step \in [1..n -> [Answers -> Answers]]
      /\ \A i \in 1..n, r \in Answers : step[i][r] = Further(r, path[i])
  BY <1>2
<1>4. Root \in Answers
  BY RootAnswers
<1> HIDE DEF n, step
<1>5. PICK f \in [0..n -> Answers] :
          f[0] = Root /\ \A i \in 1..n : f[i] = step[i][f[i - 1]]
  <2>1. Solutions(n, Answers, Root, step) # {}
    BY <1>1, <1>3, <1>4, RecursionExists
  <2>2. QED
    BY <2>1 DEF Solutions
<1>6. \A i \in 1..n : f[i] = Further(f[i - 1], path[i])
  <2>1. \A i \in 1..n : f[i - 1] \in Answers
    BY <1>1
  <2>2. QED
    BY <2>1, <1>3, <1>5
<1>7. Solves(f)
  <2>1. f = [i \in 0..n |-> f[i]]
    OBVIOUS
  <2>2. ASSUME NEW i \in 0..n
        PROVE  f[i] = IF i = 0 THEN Root
                      ELSE IF f[i - 1].result = "ok" THEN Lookup(f[i - 1].no, path[i])
                      ELSE f[i - 1]
    <3>1. i = 0 \/ i \in 1..n
      BY <1>1
    <3>2. QED
      BY <3>1, <1>5, <1>6 DEF Further
  <2>3. QED
    BY <2>1, <2>2
<1>8. Elems(path) = CHOOSE g : Solves(g)
  BY DEF Elems, n
<1> HIDE DEF Solves
<1>9. Solves(Elems(path))
  BY <1>7, <1>8
<1>10. /\ Elems(path) = [i \in 0..n |-> Elems(path)[i]]
       /\ \A i \in 0..n :
             Elems(path)[i] = IF i = 0 THEN Root
                              ELSE IF Elems(path)[i - 1].result = "ok"
                                   THEN Lookup(Elems(path)[i - 1].no, path[i])
                                   ELSE Elems(path)[i - 1]
  BY <1>9 DEF Solves
<1>11. /\ Elems(path)[0] = Root
       /\ \A i \in 1..n : Elems(path)[i] = Further(Elems(path)[i - 1], path[i])
  <2>1. 0 \in 0..n /\ \A i \in 1..n : i \in 0..n /\ i # 0
    BY <1>1
  <2>2. QED
    BY <2>1, <1>10 DEF Further
<1>12. \A i \in 0..n : Elems(path)[i] = f[i]
  <2>1. ASSUME NEW i \in 1..n, Elems(path)[i - 1] = f[i - 1]
        PROVE  Elems(path)[i] = f[i]
    BY <2>1, <1>6, <1>11
  <2>2. Elems(path)[0] = f[0]
    BY <1>5, <1>11
  <2>3. Agree(n, Elems(path), f)
    BY <2>1, <2>2 DEF Agree
  <2>4. QED
    BY <2>3, <1>1, RecursionAgrees
<1>13. Elems(path) \in [0..n -> Answers]
  BY <1>10, <1>12
<1>14. getInodeOfElem(path) = Elems(path)[n]
  BY DEF getInodeOfElem, Elems, n
<1>15. QED
  BY <1>11, <1>13, <1>14 DEF n

(* So does the search along a path. *)
LEMMA ElemAnswers ==
    ASSUME NEW path \in Seq(Names)
    PROVE  getInodeOfElem(path) \in Answers
  BY ElemsDefined, LenProperties

(* The last element of a path is looked for in the directory of the others. *)
LEMMA ElemOfParent ==
    ASSUME NEW path \in Seq(Names), path # <<>>
    PROVE  /\ Front(path) \in Seq(Names) /\ Last(path) \in Names
           /\ getParentDir(path) = getInodeOfElem(Front(path))
           /\ getInodeOfElem(path) = Further(getParentDir(path), Last(path))
<1> DEFINE n == Len(path)
           up == Front(path)
<1>1. n \in Nat \ {0}
  BY EmptySeq
<1>2. /\ up \in Seq(Names) /\ Len(up) = n - 1
      /\ \A i \in 1..n - 1 : up[i] = path[i]
  <2>1. \A i \in 1..n - 1 : path[i] \in Names
    BY <1>1, ElementOfSeq
  <2>2. 1 \in Int /\ n - 1 \in Int
    BY <1>1
  <2>3. /\ SubSeq(path, 1, n - 1) \in Seq(Names)
        /\ Len(SubSeq(path, 1, n - 1)) = IF 1 <= n - 1 THEN (n - 1) - 1 + 1 ELSE 0
        /\ \A i \in 1..(n - 1) - 1 + 1 : SubSeq(path, 1, n - 1)[i] = path[1 + i - 1]
    BY <2>1, <2>2, SubSeqProperties
  <2>4. (n - 1) - 1 + 1 = n - 1 /\ \A i \in 1..n - 1 : 1 + i - 1 = i
    BY <1>1
  <2>5. up = SubSeq(path, 1, n - 1)
    BY DEF Front
  <2> HIDE DEF n, up
  <2>6. (IF 1 <= n - 1 THEN (n - 1) - 1 + 1 ELSE 0) = n - 1
    <3>1. n = 1 \/ 1 <= n - 1
      BY <1>1
    <3>2. QED
      BY <3>1, <1>1
  <2>7. QED
    BY <2>3, <2>4, <2>5, <2>6
<1>3. Last(path) = path[n] /\ Last(path) \in Names
  BY <1>1, ElementOfSeq DEF Last
<1>4. getParentDir(path) = getInodeOfElem(up)
  BY DEF getParentDir
<1> HIDE DEF up
<1>5. \A i \in 0..n - 1 : Elems(path)[i] = Elems(up)[i]
  <2>1. Elems(path)[0] = Elems(up)[0]
    BY <1>2, ElemsDefined
  <2>2. ASSUME NEW i \in 1..n - 1, Elems(path)[i - 1] = Elems(up)[i - 1]
        PROVE  Elems(path)[i] = Elems(up)[i]
    <3>1. i \in 1..n /\ i \in 1..Len(up)
      BY <1>1, <1>2
    <3>2. /\ Elems(path)[i] = Further(Elems(path)[i - 1], path[i])
          /\ Elems(up)[i] = Further(Elems(up)[i - 1], up[i])
      BY <3>1, <1>2, ElemsDefined
    <3>3. QED
      BY <2>2, <3>2, <1>2
  <2>3. n - 1 \in Nat
    BY <1>1
  <2>4. Agree(n - 1, Elems(path), Elems(up))
    BY <2>1, <2>2 DEF Agree
  <2>5. QED
    BY <2>3, <2>4, RecursionAgrees
<1>6. getInodeOfElem(up) = Elems(path)[n - 1]
  <2>1. n - 1 \in 0..n - 1
    BY <1>1
  <2>2. QED
    BY <2>1, <1>2, <1>5, ElemsDefined
<1>7. getInodeOfElem(path) = Further(Elems(path)[n - 1], path[n])
  <2>1. n \in 1..n
    BY <1>1
  <2>2. QED
    BY <2>1, ElemsDefined
<1>8. QED
  BY <1>2, <1>3, <1>4, <1>6, <1>7 DEF up

(* A path is a sequence of names. *)
LEMMA PathsAreSequences == Paths \subseteq Seq(Names)
<1> SUFFICES ASSUME NEW path \in Paths PROVE path \in Seq(Names)
  OBVIOUS
<1>1. PICK k \in 0..MaxPath : path \in [1..k -> Names \ {NoName}]
  BY DEF Paths
<1>2. QED
  BY <1>1, ObjectsAssumption

-----------------------------------------------------------------------------
(* Sequences without one element *)

(* Removing one element of a sequence moves the later ones up by one. *)
LEMMA RemoveAtProperties ==
    ASSUME NEW E, NEW s \in Seq(E), NEW i \in 1..Len(s)
    PROVE  /\ RemoveAt(s, i) \in Seq(E)
           /\ Len(RemoveAt(s, i)) = Len(s) - 1
           /\ \A j \in 1..Len(s) - 1 : RemoveAt(s, i)[j] = IF j < i THEN s[j] ELSE s[j + 1]
<1> DEFINE n == Len(s)
           left == SubSeq(s, 1, i - 1)
           right == SubSeq(s, i + 1, n)
<1>1. n \in Nat /\ \A k \in 1..n : s[k] \in E
  BY LenProperties, ElementOfSeq
<1>2. /\ left \in Seq(E) /\ Len(left) = i - 1
      /\ \A k \in 1..i - 1 : left[k] = s[k]
  <2>1. \A k \in 1..i - 1 : s[k] \in E
    BY <1>1
  <2>2. 1 \in Int /\ i - 1 \in Int
    OBVIOUS
  <2>3. /\ left \in Seq(E)
        /\ Len(left) = IF 1 <= i - 1 THEN (i - 1) - 1 + 1 ELSE 0
        /\ \A k \in 1..(i - 1) - 1 + 1 : left[k] = s[1 + k - 1]
    BY <2>1, <2>2, SubSeqProperties
  <2> HIDE DEF n, left
  <2>4. /\ (IF 1 <= i - 1 THEN (i - 1) - 1 + 1 ELSE 0) = i - 1
        /\ (i - 1) - 1 + 1 = i - 1 /\ \A k \in 1..i - 1 : 1 + k - 1 = k
    BY <1>1 DEF n
  <2>5. QED
    BY <2>3, <2>4
<1>3. /\ right \in Seq(E) /\ Len(right) = n - i
      /\ \A k \in 1..n - i : right[k] = s[i + k]
  <2>1. \A k \in i + 1..n : s[k] \in E
    BY <1>1
  <2>2. i + 1 \in Int /\ n \in Int
    BY <1>1
  <2>3. /\ right \in Seq(E)
        /\ Len(right) = IF i + 1 <= n THEN n - (i + 1) + 1 ELSE 0
        /\ \A k \in 1..n - (i + 1) + 1 : right[k] = s[i + 1 + k - 1]
    BY <2>1, <2>2, SubSeqProperties
  <2>0. i \in 1..n
    OBVIOUS
  <2> HIDE DEF n, right
  <2>4. /\ (IF i + 1 <= n THEN n - (i + 1) + 1 ELSE 0) = n - i
        /\ n - (i + 1) + 1 = n - i /\ \A k \in 1..n - i : i + 1 + k - 1 = i + k
    BY <1>1, <2>0
  <2>5. QED
    BY <2>3, <2>4
<1>4. RemoveAt(s, i) = left \o right
  BY DEF RemoveAt
<1>0. i \in 1..n
  OBVIOUS
<1> HIDE DEF n, left, right
<1>5. /\ left \o right \in Seq(E)
      /\ Len(left \o right) = Len(left) + Len(right)
      /\ \A j \in 1..Len(left) + Len(right) :
            (left \o right)[j] = IF j <= Len(left) THEN left[j] ELSE right[j - Len(left)]
  BY <1>2, <1>3, ConcatProperties
<1>6. Len(left) = i - 1 /\ Len(left) + Len(right) = n - 1
  BY <1>0, <1>1, <1>2, <1>3
<1>7. ASSUME NEW j \in 1..n - 1
      PROVE  (left \o right)[j] = IF j < i THEN s[j] ELSE s[j + 1]
  <2>1. CASE j < i
    <3>1. j \in 1..i - 1 /\ j <= i - 1
      BY <2>1, <1>0, <1>1
    <3>2. QED
      BY <3>1, <1>2, <1>5, <1>6, <2>1
  <2>2. CASE ~ (j < i)
    <3>1. ~ (j <= i - 1) /\ j - (i - 1) \in 1..n - i /\ i + (j - (i - 1)) = j + 1
      BY <2>2, <1>0, <1>1
    <3>2. QED
      BY <3>1, <1>3, <1>5, <1>6, <2>2
  <2>3. QED
    BY <2>1, <2>2
<1>8. QED
  BY <1>4, <1>5, <1>6, <1>7 DEF n

Item == [name : Names, no : Numbers]

(* A directory without the entry of an object: unchanged, or one is gone. *)
LEMMA WithoutProperties ==
    ASSUME NEW s \in Seq(Item), NEW no
    PROVE  \/ Without(s, no) = s /\ \A i \in 1..Len(s) : s[i].no # no
           \/ \E i \in 1..Len(s) : s[i].no = no /\ Without(s, no) = RemoveAt(s, i)
<1> DEFINE listed == {i \in DOMAIN s : s[i].no = no}
<1>1. DOMAIN s = 1..Len(s) /\ Len(s) \in Nat
  BY LenProperties
<1>2. CASE listed = {}
  BY <1>1, <1>2 DEF Without
<1>3. CASE listed # {}
  <2>1. listed \in SUBSET Nat
    BY <1>1
  <2> HIDE DEF listed
  <2>2. \E i \in listed : \A j \in listed : i <= j
    BY <1>3, <2>1, LeastElement
  <2>3. Min(listed) \in listed
    BY <2>2 DEF Min
  <2>4. Without(s, no) = RemoveAt(s, Min(listed))
    BY <1>3 DEF Without, listed
  <2>5. QED
    BY <1>1, <2>3, <2>4 DEF listed
<1>4. QED
  BY <1>2, <1>3

(* A listing without one entry is a listing. *)
LEMMA WithoutType ==
    ASSUME NEW s \in Seq(Item), NEW no
    PROVE  Without(s, no) \in Seq(Item)
  BY WithoutProperties, RemoveAtProperties

-----------------------------------------------------------------------------
(* Types, and that notes about a directory follow one about an inode *)

Entry == [op : {"mkObjInode", "insertIntoDir", "removeObj"}, no : Numbers, dir : Numbers]

Types == {"none", "dir", "file"}

LogPaired ==
    /\ \A i \in DOMAIN log : log[i].op = "insertIntoDir" => i > 1 /\ log[i - 1].op = "mkObjInode"
    /\ call.at \in {"insertInode", "insertIntoDir"} => log # <<>> /\ Last(log).op = "mkObjInode"

\* The steps of createFile and mkDir before the checkpoint, and the others.
Creating == {"mkObjInode", "insertInode", "insertIntoDir", "writeDir"}
Later == Steps \ Creating

TypeInv ==
    /\ TypeOK
    /\ LogPaired
    /\ call.at \in Creating => call.type \in {"dir", "file"} /\ call.name \in Names

(* Every way the calls change an inode gives an inode. *)
LEMMA NodeTypes ==
    /\ None \in Node
    /\ \A type \in Types : NewInode(type) \in Node
    /\ \A node \in Node : Emptied(node) \in Node
    /\ \A node \in Node, b \in BOOLEAN : [node EXCEPT !.writable = b] \in Node
    /\ \A node \in Node, b \in BOOLEAN : [node EXCEPT !.full = b] \in Node
    /\ \A node \in Node, s \in Seq(Item) : [node EXCEPT !.entries = s] \in Node
<1>1. <<>> \in Seq([name : Names, no : Numbers])
  OBVIOUS
<1>2. QED
  BY <1>1 DEF None, NewInode, Emptied, Node, Types, Item

(* What Append does to a sequence, as the notes in the log use it. *)
LEMMA AppendType ==
    ASSUME NEW E, NEW s \in Seq(E), NEW e \in E
    PROVE  /\ Append(s, e) \in Seq(E) /\ Append(s, e) # <<>>
           /\ DOMAIN Append(s, e) = 1..Len(s) + 1 /\ DOMAIN s = 1..Len(s) /\ Len(s) \in Nat
           /\ Last(Append(s, e)) = e
           /\ \A i \in 1..Len(s) : Append(s, e)[i] = s[i]
           /\ Append(s, e)[Len(s) + 1] = e
  BY AppendProperties, LenProperties DEF Last

(* The notes of the log have inode numbers of the device. *)
LEMMA NotesType ==
    ASSUME TypeInv, log # <<>>
    PROVE  /\ FolderInode \in Numbers
           /\ TargetInode \in Numbers
<1>1. /\ log \in Seq(Entry) /\ Len(log) \in Nat \ {0} /\ DOMAIN log = 1..Len(log)
  BY LenProperties, EmptySeq DEF TypeInv, TypeOK, Entry
<1>2. Len(log) \in 1..Len(log)
  BY <1>1
<1>3. \A i \in 1..Len(log) : log[i] \in Entry
  BY <1>1, ElementOfSeq
<1>4. FolderInode \in Numbers
  BY <1>2, <1>3 DEF FolderInode, Last, Entry
<1> DEFINE named == {i \in DOMAIN log : log[i].op # "insertIntoDir"}
<1>5. named # {}
  <2>1. CASE log[Len(log)].op # "insertIntoDir"
    BY <2>1, <1>1, <1>2
  <2>2. CASE log[Len(log)].op = "insertIntoDir"
    <3>1. Len(log) - 1 \in 1..Len(log) /\ log[Len(log) - 1].op = "mkObjInode"
      BY <2>2, <1>1, <1>2 DEF TypeInv, LogPaired
    <3>2. QED
      BY <3>1, <1>1
  <2>3. QED
    BY <2>1, <2>2
<1>6. named \in SUBSET Nat /\ IsFiniteSet(named)
  <2>1. IsFiniteSet(1..Len(log))
    BY <1>1, FS_Interval
  <2>2. named \subseteq 1..Len(log)
    BY <1>1
  <2>3. QED
    BY <1>1, <2>1, <2>2, FS_Subset
<1> HIDE DEF named
<1>7. PICK x \in named : \A y \in named : y <= x
  BY <1>5, <1>6, LargestElement
<1>8. Max(named) \in named
  <2>1. \E z \in named : \A y \in named : z >= y
    BY <1>6, <1>7
  <2>2. QED
    BY <2>1 DEF Max
<1>9. TargetInode = log[Max(named)].no
  BY DEF TargetInode, named
<1>10. log[Max(named)] \in Entry
  BY <1>1, <1>3, <1>8 DEF named
<1>11. QED
  BY <1>4, <1>9, <1>10 DEF Entry

(* A formatted device has the types. *)
LEMMA TypeInit == Init => TypeInv
<1> SUFFICES ASSUME Init PROVE TypeInv
  OBVIOUS
<1>1. 0 \in Numbers /\ 0 \in 0..MaxOpen /\ 0 \in 0..MaxLosses
  BY ObjectsAssumption
<1>2. table \in [Numbers -> Node]
  BY NodeTypes DEF Init, Types
<1>3. log = <<>> /\ log \in Seq(Entry) /\ DOMAIN log = {}
  BY DEF Init
<1>4. /\ call = NoCall /\ pending = Idle /\ answer = "none"
      /\ refs \in [Numbers -> 0..MaxOpen] /\ losses \in 0..MaxLosses
  BY <1>1 DEF Init
<1>5. TypeOK
  BY <1>1, <1>2, <1>3, <1>4 DEF TypeOK, Entry, NoCall, Idle, Pending, Steps
<1>6. QED
  BY <1>3, <1>4, <1>5 DEF TypeInv, LogPaired, NoCall, Creating

(* A call that begins. *)
LEMMA StartType ==
    ASSUME TypeInv, NEW op \in {"create", "remove", "truncate", "chmod", "write"},
           NEW step \in {"mkObjInode", "removeObj", "truncateObj", "writeFile", "updateInode"},
           NEW type \in Types, NEW name \in Names \cup {"none"},
           NEW dir \in Numbers, NEW no \in Numbers,
           step = "mkObjInode" => type \in {"dir", "file"} /\ name \in Names,
           Start(op, step, type, name, dir, no)
    PROVE  TypeInv'
<1>1. /\ table' = table /\ log' = log /\ refs' = refs /\ losses' = losses
      /\ pending' = Pending(op, type, name, dir, no) /\ answer' = "none"
      /\ call' = [at |-> step, mount |-> FALSE, no |-> no, dir |-> dir, name |-> name,
                  type |-> type]
  BY DEF Start
<1>2. call' \in [at : Steps, mount : BOOLEAN, no : Numbers, dir : Numbers,
                 name : Names \cup {"none"}, type : Types]
  BY <1>1 DEF Steps
<1>3. pending' \in [op : {"none", "create", "remove", "truncate", "chmod", "write"},
                    type : Types, name : Names \cup {"none"}, dir : Numbers, no : Numbers]
  BY <1>1 DEF Pending
<1>4. TypeOK'
  BY <1>1, <1>2, <1>3 DEF TypeInv, TypeOK, Types
<1>5. call'.at = step /\ call'.type = type /\ call'.name = name
  BY <1>1
<1>6. QED
  BY <1>1, <1>4, <1>5 DEF TypeInv, LogPaired, Creating

(* A call that ends. *)
LEMMA ReturnType ==
    ASSUME NEW result \in {"none", "ok", "refused"}, Return(result)
    PROVE  /\ call' = NoCall /\ pending' = Idle /\ answer' \in {"none", "ok", "refused"}
           /\ call' \in [at : Steps, mount : BOOLEAN, no : Numbers, dir : Numbers,
                         name : Names \cup {"none"}, type : Types]
           /\ pending' \in [op : {"none", "create", "remove", "truncate", "chmod", "write"},
                            type : Types, name : Names \cup {"none"},
                            dir : Numbers, no : Numbers]
  BY ObjectsAssumption DEF Return, NoCall, Idle, Pending, Steps, Types

(* A step that only goes on to another one. *)
LEMMA GotoType ==
    ASSUME TypeOK, NEW step \in Steps, Goto(step)
    PROVE  /\ call' \in [at : Steps, mount : BOOLEAN, no : Numbers, dir : Numbers,
                         name : Names \cup {"none"}, type : Types]
           /\ call'.at = step /\ call'.type = call.type /\ call'.no = call.no
           /\ call'.dir = call.dir /\ call'.name = call.name /\ call'.mount = call.mount
  BY DEF TypeOK, Goto, Types

(* What the calls pass to Start has the types it needs. *)
LEMMA BeginType ==
    ASSUME TypeInv, NEW path \in Paths, Begin(path)
    PROVE  TypeInv'
<1> USE DEF Types
<1>0. 0 \in Numbers
  BY ObjectsAssumption
<1>1. path \in Seq(Names)
  BY PathsAreSequences
<1>2. /\ getInodeOfElem(path).no \in Numbers
      /\ getInodeOfElem(path) \in Answers
  BY <1>1, ElemAnswers DEF Answers
<1>3. /\ getParentDir(path).no \in Numbers
      /\ path # <<>> => Last(path) \in Names
  <2>1. CASE path = <<>>
    BY <2>1, <1>2 DEF getParentDir
  <2>2. CASE path # <<>>
    <3>1. getParentDir(path) \in Answers /\ Last(path) \in Names
      BY <2>2, <1>1, ElemOfParent, ElemAnswers
    <3>2. QED
      BY <3>1 DEF Answers
  <2>3. QED
    BY <2>1, <2>2
<1>4. CASE MkDir(path)
  <2>1. PICK name \in Names :
           /\ findFirstFreeNo \in Numbers
           /\ Start("create", "mkObjInode", "dir", name, getParentDir(path).no, findFirstFreeNo)
    BY <1>4 DEF MkDir
  <2>2. QED
    BY <2>1, <1>3, StartType
<1>5. CASE CreateFile(path)
  <2>1. /\ findFirstFreeNo \in Numbers /\ path # <<>>
        /\ Start("create", "mkObjInode", "file", Last(path), getParentDir(path).no, findFirstFreeNo)
    BY <1>5 DEF CreateFile
  <2>2. QED
    BY <2>1, <1>3, StartType
<1>6. CASE RemoveObject(path)
  BY <1>6, <1>2, <1>3, StartType DEF RemoveObject
<1>7. CASE Truncate(path)
  BY <1>0, <1>7, <1>2, StartType DEF Truncate
<1>8. CASE Chmod(path)
  BY <1>0, <1>8, <1>2, StartType DEF Chmod
<1>9. CASE Open(path)
  <2>1. PICK no \in Numbers : /\ refs[no] < MaxOpen
                              /\ refs' = [refs EXCEPT ![no] = @ + 1]
    BY <1>2, <1>9 DEF Open
  <2>2. refs[no] + 1 \in 0..MaxOpen
    BY <2>1, ObjectsAssumption DEF TypeInv, TypeOK
  <2>3. refs' \in [Numbers -> 0..MaxOpen]
    BY <2>1, <2>2 DEF TypeInv, TypeOK
  <2>4. UNCHANGED <<table, log, call, pending, answer, losses>>
    BY <1>9 DEF Open
  <2>5. QED
    BY <2>3, <2>4 DEF TypeInv, TypeOK, LogPaired
<1>10. QED
  BY <1>4, <1>5, <1>6, <1>7, <1>8, <1>9 DEF Begin

(* A note of the program. *)
LEMMA LogStepType ==
    ASSUME TypeInv, NEW step, NEW entry \in Entry, NEW next \in Steps,
           LogStep(step, entry, next),
           entry.op = "insertIntoDir" => step = "insertIntoDir",
           next \in {"insertInode", "insertIntoDir"} => entry.op = "mkObjInode",
           next # "mkObjInode", next \in Creating => step \in Creating
    PROVE  TypeInv'
<1>1. /\ call.at = step /\ log' = Append(log, entry) /\ Goto(next)
      /\ UNCHANGED <<table, refs, pending, answer, losses>>
  BY DEF LogStep, At
<1>2. log \in Seq(Entry) /\ TypeOK
  BY DEF TypeInv, TypeOK, Entry
<1>3. /\ log' \in Seq(Entry) /\ log' # <<>> /\ Last(log') = entry
      /\ DOMAIN log' = 1..Len(log) + 1 /\ DOMAIN log = 1..Len(log) /\ Len(log) \in Nat
      /\ \A i \in 1..Len(log) : log'[i] = log[i]
      /\ log'[Len(log) + 1] = entry
  BY <1>1, <1>2, AppendType
<1>4. /\ call' \in [at : Steps, mount : BOOLEAN, no : Numbers, dir : Numbers,
                    name : Names \cup {"none"}, type : Types]
      /\ call'.at = next /\ call'.type = call.type /\ call'.name = call.name
  BY <1>1, <1>2, GotoType
<1>5. TypeOK'
  BY <1>1, <1>2, <1>3, <1>4 DEF TypeOK, Entry, Types
<1>6. \A i \in DOMAIN log' : log'[i].op = "insertIntoDir" => i > 1 /\ log'[i - 1].op = "mkObjInode"
  <2> SUFFICES ASSUME NEW i \in DOMAIN log', log'[i].op = "insertIntoDir"
               PROVE  i > 1 /\ log'[i - 1].op = "mkObjInode"
    OBVIOUS
  <2>1. CASE i \in 1..Len(log)
    <3>1. i > 1 /\ log[i - 1].op = "mkObjInode"
      BY <2>1, <1>3 DEF TypeInv, LogPaired
    <3>2. i - 1 \in 1..Len(log)
      BY <2>1, <3>1, <1>3
    <3>3. QED
      BY <3>1, <3>2, <1>3
  <2>2. CASE i = Len(log) + 1
    <3>1. log # <<>> /\ Last(log).op = "mkObjInode"
      BY <2>2, <1>1, <1>3 DEF TypeInv, LogPaired
    <3>2. Len(log) \in 1..Len(log)
      BY <3>1, <1>2, EmptySeq
    <3>3. i - 1 = Len(log) /\ log'[Len(log)] = log[Len(log)] /\ i > 1
      BY <2>2, <3>2, <1>3
    <3>4. QED
      BY <3>1, <3>3 DEF Last
  <2>3. QED
    BY <2>1, <2>2, <1>3
<1>7. LogPaired'
  BY <1>3, <1>4, <1>6 DEF LogPaired
<1>8. QED
  BY <1>1, <1>4, <1>5, <1>7 DEF TypeInv, Creating

(* A step that changes at most the table, empties the log or keeps it, and
   goes on to a step without a note before it, or returns. *)
LEMMA TableStepType ==
    ASSUME TypeInv,
           table' \in [Numbers -> Node], log' \in {log, <<>>},
           UNCHANGED <<refs, losses>>,
           \/ /\ UNCHANGED <<pending, answer>>
              /\ \E step \in Later : Goto(step)
           \/ \E result \in {"none", "ok", "refused"} : Return(result)
    PROVE  TypeInv'
<1>1. log' \in Seq(Entry) /\ TypeOK
  <2>1. log \in Seq(Entry) /\ TypeOK
    BY DEF TypeInv, TypeOK, Entry
  <2>2. <<>> \in Seq(Entry)
    BY EmptySeq
  <2>3. QED
    BY <2>1, <2>2
<1>2. /\ call' \in [at : Steps, mount : BOOLEAN, no : Numbers, dir : Numbers,
                    name : Names \cup {"none"}, type : Types]
      /\ call'.at \notin Creating
      /\ pending' \in [op : {"none", "create", "remove", "truncate", "chmod", "write"},
                       type : Types, name : Names \cup {"none"}, dir : Numbers, no : Numbers]
      /\ answer' \in {"none", "ok", "refused"}
  <2>1. CASE /\ UNCHANGED <<pending, answer>>
             /\ \E step \in Later : Goto(step)
    BY <2>1, <1>1, GotoType DEF TypeOK, Types, Later
  <2>2. CASE \E result \in {"none", "ok", "refused"} : Return(result)
    BY <2>2, ReturnType DEF NoCall, Creating
  <2>3. QED
    BY <2>1, <2>2
<1>3. TypeOK'
  BY <1>1, <1>2 DEF TypeOK, Entry, Types
<1>4. LogPaired'
  BY <1>2 DEF LogPaired, TypeInv, Creating
<1>5. QED
  BY <1>2, <1>3, <1>4 DEF TypeInv

(* Between calls references come and go, and the notes can be dropped. *)
LEMMA RestTypes ==
    ASSUME TypeInv, AtRest, refs' \in [Numbers -> 0..MaxOpen], log' \in {<<>>, log},
           UNCHANGED <<table, call, pending, answer, losses>>
    PROVE  TypeInv'
<1>1. CASE log' = log
  BY <1>1 DEF TypeInv, TypeOK, LogPaired
<1>2. CASE log' = <<>>
  <2>1. TypeOK'
    BY <1>2 DEF TypeInv, TypeOK
  <2>2. call'.at = "none" /\ DOMAIN log' = {}
    BY <1>2 DEF AtRest, NoCall
  <2>3. QED
    BY <2>1, <2>2 DEF TypeInv, LogPaired, Creating
<1>3. QED
  BY <1>1, <1>2

(* Every step keeps the types. *)
LEMMA TypeNext == TypeInv /\ [Next]_vars => TypeInv'
<1> SUFFICES ASSUME TypeInv, [Next]_vars PROVE TypeInv'
  OBVIOUS
<1>0. /\ TypeOK
      /\ table \in [Numbers -> Node] /\ (table' = table => table' \in [Numbers -> Node])
      /\ call.no \in Numbers /\ call.dir \in Numbers /\ call.name \in Names \cup {"none"}
      /\ call.type \in Types /\ call.mount \in BOOLEAN
      /\ \A n \in Numbers : table[n] \in Node /\ table[n].entries \in Seq(Item)
  BY DEF TypeInv, TypeOK, Node, Item, Types
<1>t. \A n \in Numbers, node \in Node : [table EXCEPT ![n] = node] \in [Numbers -> Node]
  <2> SUFFICES ASSUME table \in [Numbers -> Node]
               PROVE  \A n \in Numbers, node \in Node : [table EXCEPT ![n] = node] \in [Numbers -> Node]
    BY <1>0
  <2> QED
    OBVIOUS
<1>e. \A n \in Numbers, s \in Seq(Item) :
         [table EXCEPT ![n].entries = s] \in [Numbers -> Node]
  BY <1>0, <1>t, NodeTypes
<1>g. \A step \in Steps : Goto(step) => call'.at = step /\ call'.type = call.type /\ call'.name = call.name
  BY <1>0, GotoType
<1>1. ASSUME NEW path \in Paths, Begin(path)
      PROVE  TypeInv'
  BY <1>1, BeginType
<1>2. ASSUME NEW no \in Numbers, Write(no)
      PROVE  TypeInv'
  <2>1. 0 \in Numbers
    BY ObjectsAssumption
  <2>2. QED
    BY <1>2, <2>1, StartType DEF Write, Types
<1>3. ASSUME NEW no \in Numbers, Close(no)
      PROVE  TypeInv'
  <2>1. refs[no] - 1 \in 0..MaxOpen
    BY <1>0, <1>3, ObjectsAssumption DEF Close, TypeOK
  <2>2. refs' \in [Numbers -> 0..MaxOpen]
    BY <2>1, <1>0, <1>3 DEF Close, TypeOK
  <2>3. UNCHANGED <<table, call, pending, answer, losses>> /\ log' \in {<<>>, log}
    BY <1>3 DEF Close
  <2>4. QED
    BY <1>3, <2>2, <2>3, RestTypes DEF Close
<1>f. ASSUME NEW no \in Numbers, Flush(no)
      PROVE  TypeInv'
  BY <1>f, RestTypes DEF Flush, TypeInv, TypeOK
<1>4. CASE LogMkObjInode
  <2>1. MkObjInode(call.no) \in Entry /\ MkObjInode(call.no).op = "mkObjInode"
    BY <1>0, ObjectsAssumption DEF MkObjInode, Entry
  <2>2. QED
    BY <1>4, <2>1, LogStepType DEF LogMkObjInode, Steps, Creating
<1>5. CASE InsertInode
  <2>1. call.type \in {"dir", "file"} /\ call.name \in Names
    BY <1>5 DEF InsertInode, At, TypeInv, Creating
  <2>2. /\ call' = [call EXCEPT !.at = "insertIntoDir"] /\ log' = log
        /\ UNCHANGED <<refs, pending, answer, losses>>
    BY <1>5 DEF InsertInode, Goto
  <2>3. call' \in [at : Steps, mount : BOOLEAN, no : Numbers, dir : Numbers,
                   name : Names \cup {"none"}, type : {"none", "dir", "file"}]
    BY <2>2, <1>0 DEF TypeOK, Steps
  <2>4. table' \in [Numbers -> Node]
    BY <1>5, <1>0, <1>t, NodeTypes DEF InsertInode
  <2>5. call'.at = "insertIntoDir" /\ call'.type = call.type /\ call'.name = call.name
    BY <2>2, <1>0 DEF TypeOK
  <2>6. LogPaired'
    BY <1>5, <2>2, <2>5 DEF LogPaired, TypeInv, InsertInode, At
  <2>7. QED
    BY <2>1, <2>2, <2>3, <2>4, <2>5, <2>6, <1>0 DEF TypeInv, TypeOK
<1>6. CASE LogInsertIntoDir
  <2>1. InsertIntoDir(call.dir) \in Entry
    BY <1>0, ObjectsAssumption DEF InsertIntoDir, Entry
  <2>2. QED
    BY <1>6, <2>1, LogStepType DEF LogInsertIntoDir, Steps, Creating
<1>7. CASE InsertInodeInDir
  <2>1. CASE /\ table' = [table EXCEPT ![call.dir].entries =
                             Append(@, [name |-> call.name, no |-> call.no])]
             /\ Goto("checkpoint") /\ UNCHANGED <<pending, answer, before>>
    <3>1. call.name \in Names
      BY <1>7 DEF InsertInodeInDir, At, TypeInv, Creating
    <3>2. [name |-> call.name, no |-> call.no] \in Item
      BY <3>1, <1>0 DEF Item
    <3>3. Append(table[call.dir].entries, [name |-> call.name, no |-> call.no]) \in Seq(Item)
      BY <3>2, <1>0, AppendProperties
    <3>4. table' \in [Numbers -> Node]
      BY <3>3, <2>1, <1>0, <1>e
    <3>5. log' = log /\ UNCHANGED <<refs, losses>> /\ "checkpoint" \in Later
      BY <1>7 DEF InsertInodeInDir, Later, Creating, Steps
    <3>6. QED
      BY <3>4, <3>5, <2>1, TableStepType
  <2>2. CASE Return("refused") /\ UNCHANGED table
    <3>1. log' = log /\ UNCHANGED <<refs, losses>>
      BY <1>7 DEF InsertInodeInDir
    <3>2. QED
      BY <3>1, <1>0, <2>2, TableStepType
  <2>3. QED
    BY <1>7, <2>1, <2>2 DEF InsertInodeInDir
<1>8. CASE Checkpoint
  BY <1>0, <1>8, TableStepType DEF Checkpoint
<1>9. CASE TruncateObj
  <2>1. [table EXCEPT ![call.no] = Emptied(@)] \in [Numbers -> Node]
    BY <1>0, <1>t, NodeTypes
  <2>2. QED
    BY <1>0, <1>9, <2>1, TableStepType DEF TruncateObj, Steps, Later, Creating
<1>10. CASE WriteFile
  <2>1. [table EXCEPT ![call.no].full = TRUE] \in [Numbers -> Node]
    BY <1>0, <1>t, NodeTypes
  <2>2. QED
    BY <1>0, <1>10, <2>1, TableStepType DEF WriteFile, Steps, Later, Creating
<1>11. CASE UpdateInode
  <2>1. [table EXCEPT ![call.no].writable = ~@] \in [Numbers -> Node]
    <3>1. (~ table[call.no].writable) \in BOOLEAN
      BY <1>0 DEF Node
    <3>2. QED
      BY <3>1, <1>0, <1>t, NodeTypes
  <2>2. QED
    BY <1>0, <1>11, <2>1, TableStepType DEF UpdateInode
<1>12. CASE LogRemoveObj
  <2>1. RemoveObj(call.no, call.dir) \in Entry /\ RemoveObj(call.no, call.dir).op = "removeObj"
    BY <1>0 DEF RemoveObj, Entry
  <2>2. QED
    BY <1>12, <2>1, LogStepType DEF LogRemoveObj, Steps, Creating
<1>13. CASE RemoveContents
  <2>1. [table EXCEPT ![call.no] = Emptied(@)] \in [Numbers -> Node]
    BY <1>0, <1>t, NodeTypes
  <2>2. AfterTruncate \in Later
    BY DEF AfterTruncate, Steps, Later, Creating
  <2>3. QED
    BY <1>0, <1>13, <2>1, <2>2, TableStepType DEF RemoveContents
<1>14. CASE RemoveInodeFromDir
  <2>1. Without(table[call.dir].entries, call.no) \in Seq(Item)
    BY <1>0, WithoutType
  <2>2. table' \in [Numbers -> Node]
    BY <1>0, <1>14, <1>e, <2>1 DEF RemoveInodeFromDir
  <2>3. AfterUnlist \in Later
    BY DEF AfterUnlist, Steps, Later, Creating
  <2>4. "unlisted" \in Later
    BY DEF Steps, Later, Creating
  <2>5. log' = log /\ UNCHANGED <<refs, losses>>
    BY <1>14 DEF RemoveInodeFromDir
  <2>6. \/ Return("refused")
        \/ /\ UNCHANGED <<pending, answer>>
           /\ \E step \in Later : Goto(step)
    BY <1>14, <2>3, <2>4 DEF RemoveInodeFromDir
  <2>7. QED
    BY <2>2, <2>5, <2>6, TableStepType
<1>15. CASE CheckpointUnlisted
  <2>1. AfterUnlist \in Later
    BY DEF AfterUnlist, Steps, Later, Creating
  <2>2. /\ log' = <<>> /\ Goto(AfterUnlist)
        /\ UNCHANGED <<table, refs, losses>> /\ UNCHANGED <<pending, answer>>
    BY <1>15 DEF CheckpointUnlisted
  <2>3. QED
    BY <1>0, <2>1, <2>2, TableStepType
<1>16. CASE DeleteInode
  <2>1. AfterDelete \in Later
    BY DEF AfterDelete, Steps, Later, Creating
  <2>2. table' \in [Numbers -> Node]
    BY <1>16, <1>0, <1>t, NodeTypes DEF DeleteInode
  <2>3. /\ log' = log /\ Goto(AfterDelete)
        /\ UNCHANGED <<refs, losses>> /\ UNCHANGED <<pending, answer>>
    BY <1>16 DEF DeleteInode
  <2>4. QED
    BY <2>1, <2>2, <2>3, TableStepType
<1>17. CASE SignalEndOfLog
  <2>1. CASE Return("none")
    BY <1>0, <1>17, <2>1, TableStepType DEF SignalEndOfLog
  <2>2. CASE ~ Return("none")
    <3>1. PICK step \in Later :
              /\ log # <<>>
              /\ call' = [call EXCEPT !.no = TargetInode, !.dir = FolderInode, !.at = step]
              /\ UNCHANGED <<pending, answer, before>>
      BY <1>17, <2>2 DEF SignalEndOfLog, Undo, Steps, Later, Creating
    <3>2. UNCHANGED <<table, log, refs, losses>>
      BY <1>17 DEF SignalEndOfLog
    <3>3. /\ call' \in [at : Steps, mount : BOOLEAN, no : Numbers, dir : Numbers,
                        name : Names \cup {"none"}, type : {"none", "dir", "file"}]
          /\ call'.at = step
      BY <3>1, <1>0, NotesType DEF TypeOK, Later
    <3>4. LogPaired'
      BY <3>2, <3>3 DEF LogPaired, TypeInv, Later, Creating
    <3>5. QED
      BY <3>1, <3>2, <3>3, <3>4, <1>0 DEF TypeInv, TypeOK, Later
  <2>3. QED
    BY <2>1, <2>2
<1>18. CASE PowerLoss
  <2>1. /\ UNCHANGED <<table, log, pending>> /\ answer' = "none" /\ losses' = losses + 1
        /\ losses < MaxLosses /\ refs' = [n \in Numbers |-> 0]
        /\ call' = [NoCall EXCEPT !.at = "endOfLog", !.mount = TRUE]
    BY <1>18 DEF PowerLoss
  <2>2. /\ losses' \in 0..MaxLosses /\ refs' \in [Numbers -> 0..MaxOpen]
    BY <2>1, <1>0, ObjectsAssumption DEF TypeOK
  <2>3. /\ call' \in [at : Steps, mount : BOOLEAN, no : Numbers, dir : Numbers,
                      name : Names \cup {"none"}, type : {"none", "dir", "file"}]
        /\ call'.at = "endOfLog"
    BY <2>1, ObjectsAssumption DEF NoCall, Steps
  <2>4. LogPaired'
    BY <2>1, <2>3 DEF LogPaired, TypeInv
  <2>5. QED
    BY <2>1, <2>2, <2>3, <2>4, <1>0 DEF TypeInv, TypeOK, Creating
<1>19. CASE UNCHANGED vars
  BY <1>19 DEF vars, TypeInv, TypeOK, LogPaired
<1>20. QED
  BY <1>1, <1>2, <1>3, <1>f, <1>4, <1>5, <1>6, <1>7, <1>8, <1>9, <1>10, <1>11, <1>12,
     <1>13, <1>14, <1>15, <1>16, <1>17, <1>18, <1>19
     DEF Next, Step, Create, RemoveStep

(* Every variable always has its type, and so every step the code takes has the
   inodes, names and notes it needs: the numbers that a mount reads from the log
   are numbers of inodes, and a note of an entry follows the note of its inode. *)
THEOREM TypeCorrect == Spec => []TypeOK
<1>1. TypeInv /\ UNCHANGED vars => TypeInv'
  BY TypeNext
<1>2. TypeInv => TypeOK
  BY DEF TypeInv
<1>3. QED
  BY <1>2, TypeInit, TypeNext, PTL DEF Spec

----------------------------------------------------------------------------
(* Open objects *)

\* The steps of a removal, and those of a mount that does the same.
Removing == {"removeObj", "truncate", "unlist", "unlisted", "deleteInode"}

\* Nothing is open while a mount runs, nor is the object that is being removed.
OpenInv ==
    /\ OpenIsKept
    /\ call.at = "endOfLog" => call.mount
    /\ call.mount => \A n \in Numbers : refs[n] = 0
    /\ call.at \in Removing => refs[call.no] = 0

(* Nothing is open on a formatted device. *)
LEMMA OpenInit == Init => OpenInv
  BY ObjectsAssumption DEF Init, OpenInv, OpenIsKept, NoCall, Removing

(* A step that takes no inode out of the tree, opens nothing and does not turn
   to the removal of another object. *)
LEMMA KeepsOpen ==
    ASSUME TypeInv, OpenInv,
           \A n \in Numbers : table[n].type # "none" => table'[n].type # "none",
           refs' = refs,
           \/ call' = NoCall
           \/ \E step \in Steps \ {"endOfLog"} :
                 /\ Goto(step)
                 /\ step \in Removing => call.at \in Removing \/ call.mount
    PROVE  OpenInv'
<1>1. OpenIsKept'
  BY DEF OpenInv, OpenIsKept, InUse
<1>2. CASE call' = NoCall
  BY <1>1, <1>2 DEF OpenInv, NoCall, Removing
<1>3. ASSUME NEW step \in Steps \ {"endOfLog"}, Goto(step),
             step \in Removing => call.at \in Removing \/ call.mount
      PROVE  OpenInv'
  <2>1. call'.at = step /\ call'.no = call.no /\ call'.mount = call.mount
    BY <1>3, GotoType DEF TypeInv
  <2>2. call.no \in Numbers
    BY DEF TypeInv, TypeOK
  <2>3. QED
    BY <1>1, <1>3, <2>1, <2>2 DEF OpenInv
<1>4. QED
  BY <1>2, <1>3

(* No step takes an inode that is open out of use. *)
LEMMA OpenNext == TypeInv /\ OpenInv /\ [Next]_vars => OpenInv'
<1> SUFFICES ASSUME TypeInv, OpenInv, [Next]_vars PROVE OpenInv'
  OBVIOUS
<1>0. /\ table \in [Numbers -> Node] /\ refs \in [Numbers -> 0..MaxOpen] /\ MaxOpen \in Nat
      /\ call.no \in Numbers /\ call.dir \in Numbers /\ call.mount \in BOOLEAN
      /\ 0 \in Numbers /\ \A n \in Numbers : refs[n] \in Nat
  BY ObjectsAssumption DEF TypeInv, TypeOK
<1>r. ASSUME NEW result, Return(result)
      PROVE  call' = NoCall
  BY <1>r DEF Return
<1>k. ASSUME NEW m \in Numbers, NEW node, node.type = table[m].type,
             table' = [table EXCEPT ![m] = node] \/ table' = table
      PROVE  \A n \in Numbers : table'[n].type = table[n].type
  BY <1>0, <1>k
<1>m. \A m \in Numbers : Emptied(table[m]).type = table[m].type
  BY <1>0 DEF Emptied, Node
<1>s. ASSUME NEW op, NEW step, NEW type, NEW name, NEW dir, NEW no \in Numbers,
             Start(op, step, type, name, dir, no),
             step # "endOfLog", step \in Removing => refs[no] = 0
      PROVE  OpenInv'
  <2>1. /\ UNCHANGED <<table, refs>>
        /\ call' = [at |-> step, mount |-> FALSE, no |-> no, dir |-> dir, name |-> name,
                    type |-> type]
    BY <1>s DEF Start
  <2>2. call'.at = step /\ call'.mount = FALSE /\ call'.no = no
    BY <2>1
  <2>3. OpenIsKept'
    BY <2>1 DEF OpenInv, OpenIsKept, InUse
  <2>4. QED
    BY <1>s, <2>1, <2>2, <2>3 DEF OpenInv
<1>1. ASSUME NEW path \in Paths, Begin(path)
      PROVE  OpenInv'
  <2>1. /\ getInodeOfElem(path) \in Answers
        /\ getInodeOfElem(path).no \in Numbers
        /\ getInodeOfElem(path).result = "ok" => getInodeOfElem(path).no \in InUse
    BY PathsAreSequences, ElemAnswers DEF Answers, TypeInv
  <2>2. CASE MkDir(path)
    BY <2>2, <1>s DEF MkDir, Removing
  <2>3. CASE CreateFile(path)
    BY <2>3, <1>s DEF CreateFile, Removing
  <2>4. CASE RemoveObject(path)
    <3>1. refs[getInodeOfElem(path).no] = 0
      BY <1>0, <2>1, <2>4 DEF RemoveObject, IsOpen
    <3>2. QED
      BY <2>1, <2>4, <3>1, <1>s DEF RemoveObject
  <2>5. CASE Truncate(path)
    BY <2>1, <2>5, <1>s DEF Truncate, Removing
  <2>6. CASE Chmod(path)
    BY <2>1, <2>6, <1>s DEF Chmod, Removing
  <2>7. CASE Open(path)
    <3>1. PICK no \in InUse : refs' = [refs EXCEPT ![no] = @ + 1]
      BY <2>1, <2>7 DEF Open
    <3>2. call = NoCall /\ UNCHANGED <<table, call>> /\ InUse' = InUse
      BY <2>7 DEF Open, AtRest, InUse
    <3>3. \A n \in Numbers \ {no} : refs'[n] = refs[n]
      BY <1>0, <3>1
    <3>4. OpenIsKept'
      BY <3>1, <3>2, <3>3 DEF OpenInv, OpenIsKept
    <3>5. QED
      BY <3>2, <3>4 DEF OpenInv, NoCall, Removing
  <2>8. QED
    BY <1>1, <2>2, <2>3, <2>4, <2>5, <2>6, <2>7 DEF Begin
<1>2. ASSUME NEW no \in Numbers, Write(no)
      PROVE  OpenInv'
  BY <1>2, <1>s DEF Write, Removing
<1>3. ASSUME NEW no \in Numbers, Close(no)
      PROVE  OpenInv'
  <2>1. call = NoCall /\ UNCHANGED <<table, call>> /\ InUse' = InUse
    BY <1>3 DEF Close, AtRest, InUse
  <2>2. \A n \in Numbers : refs'[n] > 0 => refs[n] > 0
    BY <1>0, <1>3 DEF Close
  <2>3. OpenIsKept'
    BY <2>1, <2>2 DEF OpenInv, OpenIsKept
  <2>4. QED
    BY <2>1, <2>3 DEF OpenInv, NoCall, Removing
<1>f. ASSUME NEW no \in Numbers, Flush(no)
      PROVE  OpenInv'
  BY <1>f DEF Flush, AtRest, NoCall, Removing, OpenInv, OpenIsKept, InUse
<1>4. CASE LogMkObjInode
  BY <1>4, KeepsOpen DEF LogMkObjInode, LogStep, Steps, Removing
<1>5. CASE InsertInode
  <2>1. /\ UNCHANGED refs /\ Goto("insertIntoDir")
        /\ "insertIntoDir" \in Steps \ {"endOfLog"} /\ "insertIntoDir" \notin Removing
    BY <1>5 DEF InsertInode, Steps, Removing
  <2>2. NewInode(call.type).type # "none"
    BY <1>5 DEF InsertInode, At, TypeInv, Creating, NewInode, None
  <2>3. \A n \in Numbers : table[n].type # "none" => table'[n].type # "none"
    BY <1>0, <1>5, <2>2 DEF InsertInode
  <2>4. QED
    BY <2>1, <2>3, KeepsOpen
<1>6. CASE LogInsertIntoDir
  BY <1>6, KeepsOpen DEF LogInsertIntoDir, LogStep, Steps, Removing
<1>7. CASE InsertInodeInDir
  <2>1. \A n \in Numbers : table'[n].type = table[n].type
    <3>1. PICK entries : \/ table' = [table EXCEPT ![call.dir] = [table[call.dir] EXCEPT !.entries = entries]]
                         \/ table' = table
      BY <1>7 DEF InsertInodeInDir
    <3>2. [table[call.dir] EXCEPT !.entries = entries].type = table[call.dir].type
      BY <1>0 DEF Node
    <3>3. QED
      BY <1>0, <1>k, <3>1, <3>2
  <2>2. UNCHANGED refs /\ (call' = NoCall \/ Goto("checkpoint"))
    BY <1>7, <1>r DEF InsertInodeInDir
  <2>3. QED
    BY <2>1, <2>2, KeepsOpen DEF Steps, Removing
<1>8. CASE Checkpoint
  BY <1>8, <1>r, KeepsOpen DEF Checkpoint
<1>9. CASE TruncateObj
  <2>1. \A n \in Numbers : table'[n].type = table[n].type
    BY <1>0, <1>k, <1>m, <1>9 DEF TruncateObj
  <2>2. UNCHANGED refs /\ (call' = NoCall \/ Goto("checkpoint"))
    BY <1>9, <1>r DEF TruncateObj
  <2>3. QED
    BY <2>1, <2>2, KeepsOpen DEF Steps, Removing
<1>10. CASE WriteFile
  <2>1. \A n \in Numbers : table'[n].type = table[n].type
    <3>1. [table[call.no] EXCEPT !.full = TRUE].type = table[call.no].type
      BY <1>0 DEF Node
    <3>2. \/ table' = [table EXCEPT ![call.no] = [table[call.no] EXCEPT !.full = TRUE]]
          \/ table' = table
      BY <1>10 DEF WriteFile
    <3>3. QED
      BY <1>0, <1>k, <3>1, <3>2
  <2>2. UNCHANGED refs /\ (call' = NoCall \/ Goto("checkpoint"))
    BY <1>10, <1>r DEF WriteFile
  <2>3. QED
    BY <2>1, <2>2, KeepsOpen DEF Steps, Removing
<1>11. CASE UpdateInode
  <2>1. \A n \in Numbers : table'[n].type = table[n].type
    BY <1>0, <1>11 DEF UpdateInode, Node
  <2>2. UNCHANGED refs /\ call' = NoCall
    BY <1>11, <1>r DEF UpdateInode
  <2>3. QED
    BY <2>1, <2>2, KeepsOpen
<1>12. CASE LogRemoveObj
  BY <1>12, KeepsOpen DEF LogRemoveObj, LogStep, At, Steps, Removing
<1>13. CASE RemoveContents
  <2>1. \A n \in Numbers : table'[n].type = table[n].type
    BY <1>0, <1>k, <1>m, <1>13 DEF RemoveContents
  <2>2. /\ UNCHANGED refs /\ (call' = NoCall \/ Goto(AfterTruncate))
        /\ call.at \in Removing /\ AfterTruncate \in Steps \ {"endOfLog"}
    BY <1>13, <1>r DEF RemoveContents, At, Removing, AfterTruncate, Steps
  <2>3. QED
    BY <2>1, <2>2, KeepsOpen
<1>14. CASE RemoveInodeFromDir
  <2>1. \A n \in Numbers : table'[n].type = table[n].type
    BY <1>0, <1>14 DEF RemoveInodeFromDir, Node
  <2>2. /\ UNCHANGED refs
        /\ call' = NoCall \/ \E step \in {AfterUnlist, "unlisted"} : Goto(step)
        /\ call.at \in Removing /\ {AfterUnlist, "unlisted"} \subseteq Steps \ {"endOfLog"}
    BY <1>14, <1>r DEF RemoveInodeFromDir, At, Removing, AfterUnlist, Steps
  <2>3. QED
    BY <2>1, <2>2, KeepsOpen
<1>15. CASE CheckpointUnlisted
  <2>1. /\ UNCHANGED <<table, refs>> /\ Goto(AfterUnlist)
        /\ call.at \in Removing /\ AfterUnlist \in Steps \ {"endOfLog"}
    BY <1>15 DEF CheckpointUnlisted, At, Removing, AfterUnlist, Steps
  <2>2. QED
    BY <2>1, KeepsOpen
<1>16. CASE DeleteInode
  <2>1. /\ UNCHANGED refs /\ Goto(AfterDelete) /\ table' = [table EXCEPT ![call.no] = None]
        /\ call.at \in Removing /\ AfterDelete \in Steps \ {"endOfLog"}
    BY <1>16 DEF DeleteInode, At, Removing, AfterDelete, Steps
  <2>2. /\ call'.at = AfterDelete /\ call'.no = call.no /\ call'.mount = call.mount
    BY <2>1, GotoType DEF TypeInv
  <2>3. refs[call.no] = 0
    BY <2>1 DEF OpenInv
  <2>4. OpenIsKept'
    BY <1>0, <2>1, <2>3 DEF OpenInv, OpenIsKept, InUse
  <2>5. QED
    BY <1>0, <2>1, <2>2, <2>3, <2>4 DEF OpenInv
<1>17. CASE SignalEndOfLog
  <2>1. /\ UNCHANGED <<table, refs>> /\ call.at = "endOfLog" /\ InUse' = InUse
    BY <1>17 DEF SignalEndOfLog, At, InUse
  <2>2. CASE Return("none")
    BY <2>1, <2>2, <1>r, KeepsOpen
  <2>3. CASE ~ Return("none")
    <3>1. PICK step \in Later \ {"endOfLog"} :
              /\ log # <<>>
              /\ call' = [call EXCEPT !.no = TargetInode, !.dir = FolderInode, !.at = step]
      BY <1>17, <2>3 DEF SignalEndOfLog, Undo, Steps, Later, Creating
    <3>2. TargetInode \in Numbers
      BY <3>1, NotesType
    <3>3. call'.mount /\ call'.no = TargetInode /\ call'.at = step
      BY <2>1, <3>1 DEF OpenInv, TypeInv, TypeOK
    <3>4. QED
      BY <2>1, <3>2, <3>3 DEF OpenInv, OpenIsKept
  <2>4. QED
    BY <2>2, <2>3
<1>18. CASE PowerLoss
  <2>1. /\ UNCHANGED table /\ refs' = [n \in Numbers |-> 0]
        /\ call' = [NoCall EXCEPT !.at = "endOfLog", !.mount = TRUE]
    BY <1>18 DEF PowerLoss
  <2>2. QED
    BY <2>1 DEF OpenInv, OpenIsKept, NoCall, Removing
<1>19. CASE UNCHANGED vars
  BY <1>19 DEF vars, OpenInv, OpenIsKept, InUse
<1>20. QED
  BY <1>1, <1>2, <1>3, <1>f, <1>4, <1>5, <1>6, <1>7, <1>8, <1>9, <1>10, <1>11, <1>12, <1>13,
     <1>14, <1>15, <1>16, <1>17, <1>18, <1>19
     DEF Next, Step, Create, RemoveStep

(* The inode of an open object stays in the tree, whatever is removed and
   whenever power fails: remove asks the pool of inodes before it begins, nothing
   else runs until it ends, and after a loss of power nothing is open while the
   mount completes or reverts a call. *)
THEOREM OpenKept == Spec => []OpenIsKept
<1>1. OpenInv => OpenIsKept
  BY DEF OpenInv
<1>2. QED
  BY <1>1, TypeInit, TypeNext, OpenInit, OpenNext, PTL DEF Spec

=============================================================================

------------------------ MODULE ToolRegistryProofs -------------------------
(***************************************************************************)
(* Theorems about ToolRegistry, for every workspace tree, set of calls and *)
(* permissions.                                                            *)
(***************************************************************************)
EXTENDS ToolRegistry, SequenceTheorems, FiniteSetTheorems, WellFoundedInduction, TLAPS

-----------------------------------------------------------------------------
(* Paths *)

LEMMA PieceOfPath ==
    ASSUME NEW q \in Seq(STRING), NEW m \in 1 .. Len(q) + 1, NEW n \in m - 1 .. Len(q)
    PROVE  /\ SubSeq(q, m, n) \in Seq(STRING)
           /\ Len(SubSeq(q, m, n)) = n - m + 1
           /\ \A i \in 1 .. n - m + 1 : SubSeq(q, m, n)[i] = q[m + i - 1]
  <1>1. \A i \in m .. n : q[i] \in STRING
    BY ElementOfSeq
  <1>2. m \in Int /\ n \in Int /\ Len(q) \in Nat
    OBVIOUS
  <1> QED
    BY <1>1, <1>2, SubSeqProperties

LEMMA ParentIsPath ==
    ASSUME NEW q \in Seq(STRING), q # Root
    PROVE  /\ Parent(q) \in Seq(STRING)
           /\ Len(q) \in Nat \ {0}
           /\ Len(Parent(q)) = Len(q) - 1
           /\ \A i \in 1 .. Len(q) - 1 : Parent(q)[i] = q[i]
  <1>1. Len(q) \in Nat \ {0}
    BY EmptySeq DEF Root
  <1> DEFINE n == Len(q) - 1
  <1>2. 1 \in 1 .. Len(q) + 1 /\ n \in 1 - 1 .. Len(q)
    BY <1>1
  <1>3. /\ SubSeq(q, 1, n) \in Seq(STRING)
        /\ Len(SubSeq(q, 1, n)) = n - 1 + 1
        /\ \A i \in 1 .. n - 1 + 1 : SubSeq(q, 1, n)[i] = q[1 + i - 1]
    BY <1>2, PieceOfPath
  <1>4. Parent(q) = SubSeq(q, 1, n)
    BY DEF Parent
  <1>5. \A i \in 1 .. n : i \in 1 .. n - 1 + 1 /\ 1 + i - 1 = i
    BY <1>1
  <1> QED
    BY <1>1, <1>3, <1>4, <1>5

LEMMA ParentOfBelow ==
    ASSUME NEW p \in Path, NEW q \in Below(p)
    PROVE  q # Root /\ (Parent(q) = p \/ Parent(q) \in Below(p))
  <1>1. /\ q \in Seq(STRING) /\ p \in Seq(STRING) /\ q \in Path
        /\ Len(q) > Len(p) /\ SubSeq(q, 1, Len(p)) = p
    BY PathAssumption DEF Below
  <1>2. q # Root
    BY <1>1 DEF Root
  <1>3. Parent(q) \in Path /\ Parent(q) \in Seq(STRING) /\ Len(Parent(q)) = Len(q) - 1
    <2>1. Len(q) \in Nat \ {0} /\ Len(q) - 1 \in 0 .. Len(q)
      BY <1>1, <1>2, ParentIsPath
    <2> QED
      BY <1>1, <1>2, <2>1, PathAssumption, ParentIsPath DEF Parent
  <1>4. CASE Len(q) = Len(p) + 1
    BY <1>1, <1>2, <1>4 DEF Parent
  <1>5. CASE Len(q) > Len(p) + 1
    <2>1. SubSeq(Parent(q), 1, Len(p)) = SubSeq(q, 1, Len(p))
      BY <1>1, <1>5 DEF Parent
    <2> QED
      BY <1>1, <1>2, <1>3, <1>5, <2>1 DEF Below
  <1> QED
    BY <1>1, <1>4, <1>5

LEMMA BelowTransitive ==
    ASSUME NEW p \in Path, NEW q \in Below(p), NEW x \in Below(q)
    PROVE  x \in Below(p)
  <1>1. /\ q \in Seq(STRING) /\ p \in Seq(STRING) /\ x \in Seq(STRING) /\ x \in Path
        /\ Len(q) > Len(p) /\ SubSeq(q, 1, Len(p)) = p
        /\ Len(x) > Len(q) /\ SubSeq(x, 1, Len(q)) = q
    BY PathAssumption DEF Below
  <1>2. SubSeq(SubSeq(x, 1, Len(q)), 1, Len(p)) = SubSeq(x, 1, Len(p))
    BY <1>1
  <1> QED
    BY <1>1, <1>2 DEF Below

LEMMA Comparable ==
    ASSUME NEW q \in Path, NEW a \in Above(q), NEW d \in Above(q)
    PROVE  a = d \/ a \in Below(d) \/ d \in Below(a)
  <1>1. /\ q \in Seq(STRING) /\ a \in Seq(STRING) /\ d \in Seq(STRING)
        /\ a \in Path /\ d \in Path
        /\ Len(q) > Len(a) /\ SubSeq(q, 1, Len(a)) = a
        /\ Len(q) > Len(d) /\ SubSeq(q, 1, Len(d)) = d
        /\ Len(a) \in Nat /\ Len(d) \in Nat
    BY PathAssumption DEF Above, Below
  <1>2. CASE Len(a) = Len(d)
    BY <1>1, <1>2
  <1>3. CASE Len(a) > Len(d)
    <2>1. SubSeq(SubSeq(q, 1, Len(a)), 1, Len(d)) = SubSeq(q, 1, Len(d))
      BY <1>1, <1>3
    <2> QED
      BY <1>1, <1>3, <2>1 DEF Below
  <1>4. CASE Len(d) > Len(a)
    <2>1. SubSeq(SubSeq(q, 1, Len(d)), 1, Len(a)) = SubSeq(q, 1, Len(a))
      BY <1>1, <1>4
    <2> QED
      BY <1>1, <1>4, <2>1 DEF Below
  <1>5. Len(a) = Len(d) \/ Len(a) > Len(d) \/ Len(d) > Len(a)
    <2>1. Len(a) \in Nat /\ Len(d) \in Nat
      BY <1>1
    <2> QED
      BY <2>1
  <1> QED
    BY <1>2, <1>3, <1>4, <1>5

LEMMA NotBelowItself ==
    ASSUME NEW p \in Path
    PROVE  p \notin Below(p)
  <1>1. Len(p) \in Nat
    BY PathAssumption
  <1> QED
    BY <1>1 DEF Below

(* What is above a place of the copy is above it in the original too.      *)
LEMMA TwinAbove ==
    ASSUME NEW s \in Path, NEW d \in Path, NEW a \in Path, NEW q \in Below(a),
           a = d \/ a \in Below(d), Twin(s, d, q) \in Path
    PROVE  Twin(s, d, a) \in Above(Twin(s, d, q))
  <1>1. /\ q \in Seq(STRING) /\ d \in Seq(STRING) /\ s \in Seq(STRING)
        /\ a \in Seq(STRING)
        /\ Len(q) \in Nat /\ Len(a) \in Nat /\ Len(d) \in Nat /\ Len(s) \in Nat
        /\ Len(q) > Len(a) /\ SubSeq(q, 1, Len(a)) = a
        /\ Len(a) >= Len(d)
    BY PathAssumption DEF Below
  <1>2. \A i \in 1 .. Len(a) : q[i] = a[i]
    <2>1. 1 \in 1 .. Len(q) + 1 /\ Len(a) \in 1 - 1 .. Len(q)
      BY <1>1
    <2>2. \A i \in 1 .. Len(a) - 1 + 1 : SubSeq(q, 1, Len(a))[i] = q[1 + i - 1]
      BY <1>1, <2>1, PieceOfPath
    <2>3. \A i \in 1 .. Len(a) : i \in 1 .. Len(a) - 1 + 1 /\ 1 + i - 1 = i
      BY <1>1
    <2> QED
      BY <1>1, <2>2, <2>3
  <1> DEFINE rest == SubSeq(q, Len(d) + 1, Len(q))
             less == SubSeq(a, Len(d) + 1, Len(a))
  <1>3. /\ rest \in Seq(STRING) /\ Len(rest) = Len(q) - Len(d)
        /\ \A i \in 1 .. Len(q) - Len(d) : rest[i] = q[Len(d) + i]
    <2>1. Len(d) + 1 \in 1 .. Len(q) + 1 /\ Len(q) \in Len(d) .. Len(q)
      BY <1>1
    <2> QED
      BY <1>1, <2>1, PieceOfPath
  <1>4. /\ less \in Seq(STRING) /\ Len(less) = Len(a) - Len(d)
        /\ \A i \in 1 .. Len(a) - Len(d) : less[i] = a[Len(d) + i]
    <2>1. Len(d) + 1 \in 1 .. Len(a) + 1 /\ Len(a) \in Len(d) .. Len(a)
      BY <1>1
    <2> QED
      BY <1>1, <2>1, PieceOfPath
  <1> HIDE DEF rest, less
  <1>5. ASSUME NEW i \in 1 .. Len(less)
        PROVE  less[i] = rest[i]
    <2>1. /\ i \in 1 .. Len(a) - Len(d) /\ i \in 1 .. Len(q) - Len(d)
          /\ Len(d) + i \in 1 .. Len(a)
      BY <1>1, <1>4
    <2> QED
      BY <1>2, <1>3, <1>4, <2>1
  <1> DEFINE whole == s \o rest
             part == s \o less
  <1>6. /\ whole \in Seq(STRING) /\ Len(whole) = Len(s) + Len(rest)
        /\ \A i \in 1 .. Len(s) + Len(rest) :
              whole[i] = IF i <= Len(s) THEN s[i] ELSE rest[i - Len(s)]
    BY <1>1, <1>3, ConcatProperties
  <1>7. /\ part \in Seq(STRING) /\ Len(part) = Len(s) + Len(less)
        /\ \A i \in 1 .. Len(s) + Len(less) :
              part[i] = IF i <= Len(s) THEN s[i] ELSE less[i - Len(s)]
    BY <1>1, <1>4, ConcatProperties
  <1>8. Twin(s, d, q) = whole /\ Twin(s, d, a) = part
    BY DEF Twin, rest, less
  <1> HIDE DEF whole, part
  <1>9. /\ Len(rest) \in Nat /\ Len(less) \in Nat /\ Len(less) < Len(rest)
        /\ Len(part) \in 0 .. Len(whole) /\ Len(part) < Len(whole)
    BY <1>1, <1>3, <1>4, <1>6, <1>7
  <1>10. SubSeq(whole, 1, Len(part)) = part
    <2>1. 1 \in 1 .. Len(whole) + 1 /\ Len(part) \in 1 - 1 .. Len(whole)
      BY <1>9
    <2>2. /\ SubSeq(whole, 1, Len(part)) \in Seq(STRING)
          /\ Len(SubSeq(whole, 1, Len(part))) = Len(part) - 1 + 1
          /\ \A i \in 1 .. Len(part) - 1 + 1 :
                SubSeq(whole, 1, Len(part))[i] = whole[1 + i - 1]
      BY <1>6, <2>1, PieceOfPath
    <2>3. ASSUME NEW i \in 1 .. Len(part)
          PROVE  SubSeq(whole, 1, Len(part))[i] = part[i]
      <3>1. /\ i \in 1 .. Len(part) - 1 + 1 /\ 1 + i - 1 = i
            /\ i \in 1 .. Len(s) + Len(rest) /\ i \in 1 .. Len(s) + Len(less)
        BY <1>1, <1>7, <1>9
      <3>2. CASE i <= Len(s)
        BY <1>6, <1>7, <2>2, <3>1, <3>2
      <3>3. CASE i > Len(s)
        <4>1. i - Len(s) \in 1 .. Len(less)
          BY <1>1, <1>9, <3>1, <3>3
        <4> QED
          BY <1>1, <1>5, <1>6, <1>7, <2>2, <3>1, <3>3, <4>1
      <3> QED
        BY <1>1, <3>1, <3>2, <3>3
    <2> QED
      BY <1>7, <1>9, <2>2, <2>3, SeqEqual
  <1>11. part \in Path
    BY <1>8, <1>9, <1>10, PathAssumption
  <1> QED
    BY <1>8, <1>9, <1>10, <1>11 DEF Above, Below

LEMMA TwinOfTop ==
    ASSUME NEW s \in Path, NEW d \in Path
    PROVE  Twin(s, d, d) = s
  <1>1. /\ s \in Seq(STRING) /\ Len(d) + 1 \in Int /\ Len(d) \in Int
        /\ Len(d) < Len(d) + 1
    BY PathAssumption
  <1> QED
    BY <1>1, SubSeqEmpty, ConcatEmptySeq DEF Twin

-----------------------------------------------------------------------------
(* The handlers: each returns a tree an operating system can hold, with    *)
(* the protected files that were there.                                    *)

Kept(t, u) == \A p \in Protected : Exists(t, p) => u[p] = t[p]

Sound(t, u) == u \in Tree /\ WellFormed(u) /\ Kept(t, u)

LEMMA AbovePath ==
    ASSUME NEW p \in Path, NEW a \in Above(p)
    PROVE  a \in Path /\ p \in Below(a) /\ a # p
  BY NotBelowItself DEF Above

LEMMA WithParentsSound ==
    ASSUME NEW t \in Tree, WellFormed(t), NEW p \in Path, CanMakeParents(t, p)
    PROVE  Sound(t, WithParents(t, p)) /\ WithParents(t, p)[p] = t[p]
  <1> DEFINE u == WithParents(t, p)
  <1>1. u \in Tree
    BY DEF WithParents, Tree, Cell
  <1>2. ASSUME NEW x \in Path, Exists(u, x), NEW a \in Above(x)
        PROVE  u[a] = Dir
    <2>1. a \in Path /\ x \in Below(a)
      BY AbovePath
    <2>2. CASE x \in Above(p)
      <3>1. p \in Below(a)
        BY <2>1, <2>2, BelowTransitive DEF Above
      <3> QED
        BY <2>1, <3>1 DEF WithParents, Above
    <2>3. CASE x \notin Above(p)
      <3>1. t[a] = Dir
        BY <1>2, <2>3 DEF WithParents, Exists, WellFormed, IsDir
      <3> QED
        BY <2>1, <3>1 DEF WithParents
    <2> QED
      BY <2>2, <2>3
  <1>3. u[Root] = Dir
    BY PathAssumption DEF WithParents, WellFormed
  <1>4. Kept(t, u)
    BY ProtectedAssumption DEF Kept, WithParents, CanMakeParents, IsFile, IsDir, Exists
  <1>5. u[p] = t[p]
    BY AbovePath DEF WithParents
  <1> QED
    BY <1>1, <1>2, <1>3, <1>4, <1>5 DEF Sound, WellFormed, IsDir

LEMMA WithoutTree ==
    ASSUME NEW t \in Tree, WellFormed(t), NEW p \in Path, p # Root
    PROVE  Without(t, p) \in Tree /\ WellFormed(Without(t, p))
  <1> DEFINE u == Without(t, p)
  <1>1. u \in Tree
    BY DEF Without, Tree, Cell
  <1>2. ASSUME NEW x \in Path, Exists(u, x), NEW a \in Above(x)
        PROVE  u[a] = Dir
    <2>1. a \in Path /\ x \in Below(a)
      BY AbovePath
    <2>2. x # p /\ x \notin Below(p) /\ Exists(t, x)
      BY <1>2 DEF Without, Exists
    <2>3. a # p /\ a \notin Below(p)
      BY <2>1, <2>2, BelowTransitive
    <2> QED
      BY <2>1, <2>2, <2>3 DEF Without, WellFormed, IsDir
  <1>3. u[Root] = Dir
    <2>1. Root \notin Below(p)
      <3>1. Len(Root) = 0 /\ Len(p) \in Nat
        BY PathAssumption DEF Root
      <3> QED
        BY <3>1 DEF Below
    <2> QED
      BY <2>1, PathAssumption DEF Without, WellFormed
  <1> QED
    BY <1>1, <1>2, <1>3 DEF WellFormed, IsDir

LEMMA CopiedSound ==
    ASSUME NEW t \in Tree, WellFormed(t), NEW s \in Path, NEW d \in Path,
           ~Exists(t, d), CanMakeParents(t, d)
    PROVE  Sound(t, Copied(t, s, d))
  <1> DEFINE w == WithParents(t, d)
             u == Copied(t, s, d)
             New(q) == q = d \/ q \in Below(d)
  <1>1. Sound(t, w)
    BY WithParentsSound
  <1>2. u \in Tree
    BY <1>1 DEF Copied, Sound, Tree, Cell
  <1>3. \A q \in Path : ~New(q) => u[q] = w[q]
    BY DEF Copied
  <1>4. \A q \in Path : New(q) =>
           u[q] = IF Twin(s, d, q) \in Path THEN t[Twin(s, d, q)] ELSE Absent
    BY DEF Copied
  <1>5. ASSUME NEW x \in Path, Exists(u, x), NEW a \in Above(x)
        PROVE  u[a] = Dir
    <2>1. a \in Path /\ x \in Below(a)
      BY AbovePath
    <2>2. CASE ~New(x)
      <3>1. ~New(a)
        BY <2>1, <2>2, BelowTransitive
      <3>2. Exists(w, x)
        BY <1>3, <1>5, <2>2 DEF Exists
      <3> QED
        BY <1>1, <1>3, <2>1, <3>1, <3>2 DEF Sound, WellFormed, IsDir
    <2>3. CASE New(x) /\ New(a)
      <3>1. Twin(s, d, x) \in Path /\ Exists(t, Twin(s, d, x))
        BY <1>4, <1>5, <2>3 DEF Exists
      <3>2. Twin(s, d, a) \in Above(Twin(s, d, x))
        BY <2>1, <2>3, <3>1, TwinAbove
      <3>3. Twin(s, d, a) \in Path /\ t[Twin(s, d, a)] = Dir
        BY <3>1, <3>2, AbovePath DEF WellFormed, IsDir
      <3> QED
        BY <1>4, <2>1, <2>3, <3>3
    <2>4. CASE New(x) /\ ~New(a)
      <3>1. a \in Above(d)
        <4>1. CASE x = d
          BY <4>1
        <4>2. CASE x \in Below(d)
          <5>1. d \in Above(x)
            BY <4>2 DEF Above
          <5>2. d \in Below(a)
            BY <2>4, <5>1, Comparable
          <5> QED
            BY <2>1, <5>2 DEF Above
        <4> QED
          BY <2>4, <4>1, <4>2
      <3>2. w[a] = Dir
        BY <2>1, <3>1 DEF WithParents
      <3> QED
        BY <1>3, <2>1, <2>4, <3>2
    <2> QED
      BY <2>2, <2>3, <2>4
  <1>6. \A x \in Path : Exists(t, x) => ~New(x)
    <2> SUFFICES ASSUME NEW x \in Path, Exists(t, x), x \in Below(d)
                 PROVE  FALSE
      OBVIOUS
    <2>1. d \in Above(x)
      BY DEF Above
    <2>2. t[d] = Dir
      BY <2>1 DEF WellFormed, IsDir
    <2> QED
      BY <2>2, CellAssumption DEF Exists
  <1>7. u[Root] = Dir
    <2>1. Exists(t, Root) /\ Root \in Path
      BY CellAssumption, PathAssumption DEF WellFormed, Exists
    <2> QED
      BY <1>1, <1>3, <1>6, <2>1 DEF Sound, WellFormed
  <1>8. Kept(t, u)
    BY <1>1, <1>3, <1>6, ProtectedAssumption DEF Kept, Sound
  <1> QED
    BY <1>2, <1>5, <1>7, <1>8 DEF Sound, WellFormed, IsDir

(* A cell that is no directory gets a file, or becomes a directory.        *)
LEMMA PutTree ==
    ASSUME NEW t \in Tree, WellFormed(t), NEW p \in Path, p # Root, ~IsDir(t, p),
           \A a \in Above(p) : IsDir(t, a), NEW c \in Content \cup {Dir}
    PROVE  [t EXCEPT ![p] = c] \in Tree /\ WellFormed([t EXCEPT ![p] = c])
  <1> DEFINE u == [t EXCEPT ![p] = c]
  <1>1. u \in Tree
    BY DEF Tree, Cell
  <1>2. ASSUME NEW x \in Path, Exists(u, x), NEW a \in Above(x)
        PROVE  u[a] = Dir
    <2>1. a \in Path /\ x \in Below(a) /\ a # x
      BY AbovePath
    <2>2. CASE x = p
      BY <2>1, <2>2 DEF Tree, IsDir
    <2>3. CASE x # p
      <3>1. t[a] = Dir
        BY <1>2, <2>3 DEF Tree, Exists, WellFormed, IsDir
      <3> QED
        BY <2>1, <3>1 DEF Tree, IsDir
    <2> QED
      BY <2>2, <2>3
  <1> QED
    BY <1>1, <1>2, PathAssumption DEF WellFormed, Tree, IsDir

LEMMA FileWriteSound ==
    ASSUME NEW t \in Tree, WellFormed(t), NEW p \in Path, NEW c \in Content,
           NEW o \in FileWrite(t, p, c)
    PROVE  Sound(t, o.tree)
  <1>1. CASE Writable(p) /\ CanMakeParents(t, p) /\ ~IsDir(t, p)
    <2> DEFINE w == WithParents(t, p)
    <2>1. Sound(t, w) /\ w[p] = t[p]
      BY <1>1, WithParentsSound
    <2>2. \A a \in Above(p) : IsDir(w, a)
      BY AbovePath DEF WithParents, IsDir
    <2>3. p # Root /\ ~IsDir(w, p)
      BY <1>1, <2>1 DEF WellFormed, IsDir
    <2>4. [w EXCEPT ![p] = c] \in Tree /\ WellFormed([w EXCEPT ![p] = c])
      BY <2>1, <2>2, <2>3, PutTree DEF Sound
    <2>5. o.tree = [w EXCEPT ![p] = c]
      BY <1>1 DEF FileWrite, Done
    <2>6. p \notin Protected
      BY <1>1 DEF Writable
    <2> QED
      BY <2>1, <2>4, <2>5, <2>6 DEF Sound, Kept, Tree
  <1>2. CASE ~(Writable(p) /\ CanMakeParents(t, p) /\ ~IsDir(t, p))
    BY <1>2 DEF FileWrite, Failed, Sound, Kept
  <1> QED
    BY <1>1, <1>2

LEMMA FileEditSound ==
    ASSUME NEW t \in Tree, WellFormed(t), NEW p \in Path, NEW c \in Content,
           NEW o \in FileEdit(t, p, c)
    PROVE  Sound(t, o.tree)
  <1>1. CASE o.tree = t
    BY <1>1 DEF Sound, Kept
  <1>2. CASE Writable(p) /\ IsFile(t, p) /\ o.tree = [t EXCEPT ![p] = c]
    <2>1. p # Root /\ \A a \in Above(p) : IsDir(t, a)
      BY <1>2 DEF IsFile, WellFormed, IsDir
    <2>2. p \notin Protected /\ ~IsDir(t, p)
      BY <1>2 DEF Writable, IsFile
    <2>3. o.tree \in Tree /\ WellFormed(o.tree)
      BY <1>2, <2>1, <2>2, PutTree
    <2>4. \A x \in Path : x # p => o.tree[x] = t[x]
      BY <1>2 DEF Tree
    <2> QED
      BY <2>2, <2>3, <2>4, ProtectedAssumption DEF Sound, Kept
  <1>3. o = Failed(t) \/ (Writable(p) /\ IsFile(t, p) /\ o = Done([t EXCEPT ![p] = c]))
    BY DEF FileEdit
  <1> QED
    BY <1>1, <1>2, <1>3 DEF Done, Failed

LEMMA FileCopySound ==
    ASSUME NEW t \in Tree, WellFormed(t), NEW s \in Path, NEW d \in Path,
           NEW o \in FileCopy(t, s, d)
    PROVE  Sound(t, o.tree)
  <1>1. CASE PairAllowed(t, s, d) /\ CanMakeParents(t, d)
    BY <1>1, CopiedSound DEF FileCopy, Done, PairAllowed
  <1>2. CASE ~(PairAllowed(t, s, d) /\ CanMakeParents(t, d))
    BY <1>2 DEF FileCopy, Failed, Sound, Kept
  <1> QED
    BY <1>1, <1>2

(* What may be removed takes no protected file with it.                    *)
LEMMA NothingProtectedInside ==
    ASSUME NEW t \in Tree, WellFormed(t), NEW p \in Path, Removable(t, p),
           NEW x \in Protected, Exists(t, x)
    PROVE  x # p /\ x \notin Below(p)
  <1>1. x # p
    BY DEF Removable, Writable
  <1>2. CASE IsDir(t, p)
    BY <1>1, <1>2 DEF Removable, ContainsProtected
  <1>3. CASE ~IsDir(t, p)
    <2>1. x \in Path /\ (x \in Below(p) => p \in Above(x))
      BY ProtectedAssumption DEF Above
    <2> QED
      BY <1>1, <1>3, <2>1 DEF WellFormed
  <1> QED
    BY <1>2, <1>3

LEMMA FileMoveSound ==
    ASSUME NEW t \in Tree, WellFormed(t), NEW s \in Path, NEW d \in Path,
           NEW o \in FileMove(t, s, d)
    PROVE  Sound(t, o.tree)
  <1>1. CASE PairAllowed(t, s, d) /\ Removable(t, s) /\ CanMakeParents(t, d)
    <2> DEFINE w == Copied(t, s, d)
    <2>1. Sound(t, w)
      BY <1>1, CopiedSound DEF PairAllowed
    <2>2. Without(w, s) \in Tree /\ WellFormed(Without(w, s))
      BY <1>1, <2>1, WithoutTree DEF Sound, Removable
    <2>3. Kept(t, Without(w, s))
      BY <1>1, <2>1, NothingProtectedInside, ProtectedAssumption
         DEF Kept, Sound, Without
    <2> QED
      BY <1>1, <2>2, <2>3 DEF FileMove, Done, Sound
  <1>2. CASE ~(PairAllowed(t, s, d) /\ Removable(t, s) /\ CanMakeParents(t, d))
    BY <1>2 DEF FileMove, Failed, Sound, Kept
  <1> QED
    BY <1>1, <1>2

LEMMA FileDeleteSound ==
    ASSUME NEW t \in Tree, WellFormed(t), NEW p \in Path, NEW recursive,
           NEW o \in FileDelete(t, p, recursive)
    PROVE  Sound(t, o.tree)
  <1>1. CASE Removable(t, p) /\ o.tree = Without(t, p)
    <2>1. Without(t, p) \in Tree /\ WellFormed(Without(t, p))
      BY <1>1, WithoutTree DEF Removable
    <2>2. Kept(t, Without(t, p))
      BY <1>1, NothingProtectedInside, ProtectedAssumption DEF Kept, Without
    <2> QED
      BY <1>1, <2>1, <2>2 DEF Sound
  <1>2. CASE o.tree = t
    BY <1>2 DEF Sound, Kept
  <1> QED
    BY <1>1, <1>2 DEF FileDelete, Done, Failed

LEMMA EffectsSound ==
    ASSUME NEW t \in Tree, WellFormed(t), NEW c \in Call, NEW o \in Effects(t, c)
    PROVE  Sound(t, o.tree)
  <1>1. c.path \in Path /\ c.to \in Path /\ c.data \in Content
    BY CallAssumption
  <1>2. CASE c.tool = "file_write"
    BY <1>1, <1>2, FileWriteSound DEF Effects
  <1>3. CASE c.tool = "file_edit"
    BY <1>1, <1>3, FileEditSound DEF Effects
  <1>4. CASE c.tool = "file_copy"
    BY <1>1, <1>4, FileCopySound DEF Effects
  <1>5. CASE c.tool = "file_move"
    BY <1>1, <1>5, FileMoveSound DEF Effects
  <1>6. CASE c.tool = "file_delete"
    BY <1>1, <1>6, FileDeleteSound DEF Effects
  <1>7. CASE c.tool \notin {"file_write", "file_edit", "file_copy", "file_move", "file_delete"}
    <2>1. o.tree = t
      BY <1>7 DEF Effects, FileRead, FileList, FileSearch, Done, Failed
    <2> QED
      BY <2>1 DEF Sound, Kept
  <1> QED
    BY <1>2, <1>3, <1>4, <1>5, <1>6, <1>7

LEMMA OutsideTree ==
    ASSUME NEW t \in Tree, WellFormed(t), NEW u \in Outside(t)
    PROVE  u \in Tree /\ WellFormed(u)
  <1>1. ASSUME NEW p \in Path \ {Root}, IsDir(t, Parent(p)), ~IsDir(t, p),
               NEW c \in Content \cup {Dir}, u = [t EXCEPT ![p] = c]
        PROVE  u \in Tree /\ WellFormed(u)
    <2>1. ASSUME NEW a \in Above(p)
          PROVE  IsDir(t, a)
      <3>1. a \in Path /\ p \in Below(a)
        BY AbovePath
      <3>2. Parent(p) = a \/ Parent(p) \in Below(a)
        BY <3>1, ParentOfBelow
      <3>3. CASE Parent(p) \in Below(a)
        <4>1. Parent(p) \in Path /\ a \in Above(Parent(p))
          BY <3>1, <3>3 DEF Above, Below
        <4> QED
          BY <1>1, <4>1, CellAssumption DEF WellFormed, IsDir, Exists
      <3> QED
        BY <1>1, <3>2, <3>3
    <2> QED
      BY <1>1, <2>1, PutTree
  <1>2. ASSUME NEW p \in Path \ {Root}, u = Without(t, p)
        PROVE  u \in Tree /\ WellFormed(u)
    BY <1>2, WithoutTree
  <1> QED
    BY <1>1, <1>2 DEF Outside

-----------------------------------------------------------------------------
(* The specification *)

TreeInv == tree \in Tree /\ WellFormed(tree)

LEMMA InitTree == Init => TreeInv
  <1> SUFFICES ASSUME Init
               PROVE  TreeInv
    OBVIOUS
  <1> DEFINE Holds(q) == q = Root \/ \E p \in Protected : p \in Below(q)
  <1>1. (CHOOSE c \in Content : TRUE) \in Content
    BY CellAssumption
  <1>2. tree = [p \in Path |-> IF Holds(p) THEN Dir
                              ELSE IF p \in Protected THEN CHOOSE c \in Content : TRUE
                              ELSE Absent]
    BY DEF Init
  <1>3. tree \in Tree
    BY <1>1, <1>2 DEF Tree, Cell
  <1>4. tree[Root] = Dir
    BY <1>2, PathAssumption
  <1>5. ASSUME NEW x \in Path, Exists(tree, x), NEW a \in Above(x)
        PROVE  tree[a] = Dir
    <2>1. a \in Path /\ x \in Below(a)
      BY AbovePath
    <2>2. x # Root
      BY <2>1, ParentOfBelow
    <2>3. x \in Protected \/ \E p \in Protected : p \in Below(x)
      BY <1>2, <1>5, <2>2 DEF Exists
    <2>4. \E p \in Protected : p \in Below(a)
      BY <2>1, <2>3, BelowTransitive
    <2> QED
      BY <1>2, <2>1, <2>4
  <1> QED
    BY <1>3, <1>4, <1>5 DEF TreeInv, WellFormed, IsDir

(* What a handler does to the tree.                                        *)
LEMMA HandleTree ==
    ASSUME TreeInv, NEW t \in Thread, NEW c \in Call, NEW age, Handle(t, c, age)
    PROVE  Sound(tree, tree')
  <1>1. CASE UNCHANGED tree
    BY <1>1 DEF TreeInv, Sound, Kept
  <1>2. CASE \E o \in Effects(tree, c) : tree' = o.tree
    BY <1>2, EffectsSound DEF TreeInv
  <1> QED
    BY <1>1, <1>2 DEF Handle

(* The tree is one an operating system can hold, and a thread that is busy *)
(* is busy with a call.                                                    *)
ThreadInv ==
    /\ thread \in [Thread -> ThreadType]
    /\ \A t \in Thread : thread[t].at # "idle" => thread[t].call \in Call
    /\ odd \in Nat

WorkInv == TreeInv /\ ThreadInv

LEMMA InitWork == Init => WorkInv
  <1> SUFFICES ASSUME Init
               PROVE  WorkInv
    OBVIOUS
  <1>1. TreeInv
    BY InitTree
  <1>2. thread \in [Thread -> ThreadType] /\ \A t \in Thread : thread[t].at = "idle"
    BY DEF Init, Idle, ThreadType
  <1>3. odd \in Nat
    BY DEF Init
  <1> QED
    BY <1>1, <1>2, <1>3 DEF WorkInv, ThreadInv

(* Every step keeps the tree one an operating system can hold, and all but *)
(* the steps of a subprocess keep the protected files.                     *)
LEMMA NextTree ==
    ASSUME WorkInv, [Next]_vars
    PROVE  TreeInv' /\ (odd' = odd => Kept(tree, tree'))
  <1> USE DEF TreeInv
  <1>1. ASSUME Sound(tree, tree')
        PROVE  TreeInv' /\ (odd' = odd => Kept(tree, tree'))
    BY <1>1 DEF Sound
  <1>2. ASSUME UNCHANGED tree
        PROVE  Sound(tree, tree')
    BY <1>2 DEF WorkInv, Sound, Kept
  <1>3. ASSUME NEW r \in Registry, NEW t \in Thread, NEW c \in Call,
               Allowed(r, t, c)
        PROVE  Sound(tree, tree')
    BY <1>3, HandleTree DEF Allowed, WorkInv
  <1>4. ASSUME NEW t \in Thread, SaysYes(t)
        PROVE  Sound(tree, tree')
    <2>1. thread[t].call \in Call
      BY <1>4 DEF SaysYes, Reads, WorkInv, ThreadInv
    <2>2. Handle(t, thread[t].call, thread[t].age)
      BY <1>4 DEF SaysYes
    <2> QED
      BY <2>1, <2>2, HandleTree DEF WorkInv
  <1>5. ASSUME NEW t \in Thread, Works(t)
        PROVE  TreeInv' /\ odd' # odd
    BY <1>5, OutsideTree DEF Works, Odd, WorkInv, ThreadInv
  <1>6. CASE UNCHANGED vars
    BY <1>1, <1>2, <1>6 DEF vars
  <1>7. ASSUME NEW r \in Registry, NEW t \in Thread, NEW c \in Call,
               \/ Reject(r, t, c) \/ RunApproved(r, t, c)
               \/ ChangedSince(r, t, c) \/ AskUser(r, t, c)
        PROVE  UNCHANGED tree
    BY <1>7 DEF Reject, RunApproved, ChangedSince, AskUser
  <1>8. ASSUME NEW t \in Thread,
               \/ SaysNo(t) \/ Exits(t) \/ SkillReturns(t) \/ TimesOut(t)
               \/ Starts(t) \/ WritesOutput(t)
        PROVE  UNCHANGED tree
    BY <1>8 DEF SaysNo, Exits, SkillReturns, Answers, TimesOut, Starts, WritesOutput
  <1>9. ASSUME NEW r \in Registry, GiveUp(r) \/ Restart(r)
        PROVE  UNCHANGED tree
    BY <1>9 DEF GiveUp, Restart
  <1>10. ASSUME Tick
         PROVE  UNCHANGED tree
    BY <1>10 DEF Tick
  <1> QED
    BY <1>1, <1>2, <1>3, <1>4, <1>5, <1>6, <1>7, <1>8, <1>9, <1>10 DEF Next

LEMMA HandleThread ==
    ASSUME thread \in [Thread -> ThreadType], NEW t \in Thread, NEW c \in Call,
           NEW age \in Nat, Handle(t, c, age)
    PROVE  /\ thread' \in [Thread -> ThreadType]
           /\ \A u \in Thread :
                 \/ thread'[u] = thread[u] \/ thread'[u].at = "idle"
                 \/ (thread'[u].at = "running" /\ thread'[u].call = c)
  <1>1. Idle \in ThreadType /\ Idle.at = "idle"
    BY DEF Idle, ThreadType
  <1> DEFINE busy == [at |-> "running", call |-> c, age |-> age, started |-> age]
  <1>2. busy \in ThreadType /\ busy.call = c /\ busy.at = "running"
    BY DEF ThreadType
  <1>3. PICK x \in {Idle, busy} : thread' = [thread EXCEPT ![t] = x]
    BY DEF Handle, Finish
  <1> HIDE DEF busy
  <1>4. /\ x \in ThreadType /\ x.at \in {"idle", "running"}
        /\ x.at = "running" => x.call = c
    BY <1>1, <1>2
  <1>5. thread' \in [Thread -> ThreadType]
    BY <1>3, <1>4
  <1>6. \A u \in Thread : thread'[u] = thread[u] \/ thread'[u] = x
    BY <1>3
  <1>7. x.at = "idle" \/ (x.at = "running" /\ x.call = c)
    BY <1>4
  <1>8. ASSUME NEW u \in Thread
        PROVE  \/ thread'[u] = thread[u] \/ thread'[u].at = "idle"
               \/ (thread'[u].at = "running" /\ thread'[u].call = c)
    BY <1>6, <1>7
  <1> QED
    BY <1>5, <1>8

LEMMA NextWork ==
    ASSUME WorkInv, [Next]_vars
    PROVE  WorkInv'
  <1>1. TreeInv'
    BY NextTree
  <1>2. Idle \in ThreadType /\ Idle.at = "idle"
    BY DEF Idle, ThreadType
  <1>3. ASSUME thread' = thread, odd' = odd \/ Odd
        PROVE  ThreadInv'
    BY <1>3 DEF WorkInv, ThreadInv, Odd
  <1>4. ASSUME NEW t \in Thread, Finish(t), odd' = odd
        PROVE  ThreadInv'
    BY <1>2, <1>4 DEF WorkInv, ThreadInv, Finish
  <1>5. ASSUME NEW t \in Thread, NEW c \in Call, NEW age \in Nat,
               Handle(t, c, age), odd' = odd
        PROVE  ThreadInv'
    BY <1>5, HandleThread DEF WorkInv, ThreadInv
  <1>6. ASSUME NEW r \in Registry, NEW t \in Thread, NEW c \in Call,
               AskUser(r, t, c) \/ RunApproved(r, t, c)
        PROVE  ThreadInv'
    <2> DEFINE x(at) == [Idle EXCEPT !.at = at, !.call = c]
    <2>1. \A at \in {"prompt", "checked"} : x(at) \in ThreadType /\ x(at).call \in Call
      BY DEF Idle, ThreadType
    <2>2. PICK at \in {"prompt", "checked"} :
             thread' = [thread EXCEPT ![t] = x(at)] /\ odd' = odd
      BY <1>6 DEF AskUser, RunApproved
    <2> HIDE DEF x
    <2> QED
      BY <2>1, <2>2 DEF WorkInv, ThreadInv
  <1>7. ASSUME NEW t \in Thread, SaysYes(t)
        PROVE  ThreadInv'
    <2>1. thread[t].call \in Call /\ thread[t].age \in Nat
      BY <1>7 DEF SaysYes, Reads, WorkInv, ThreadInv, ThreadType
    <2>2. Handle(t, thread[t].call, thread[t].age) /\ odd' = odd
      BY <1>7 DEF SaysYes, bounds
    <2> QED
      BY <1>5, <2>1, <2>2
  <1>8. ASSUME Tick
        PROVE  ThreadInv'
    <2>1. \A t \in Thread : thread[t] \in ThreadType
      BY DEF WorkInv, ThreadInv
    <2>2. \A x \in ThreadType : [x EXCEPT !.age = @ + 1] \in ThreadType
      BY DEF ThreadType
    <2>3. \A x \in ThreadType : /\ [x EXCEPT !.age = @ + 1].at = x.at
                                /\ [x EXCEPT !.age = @ + 1].call = x.call
      BY DEF ThreadType
    <2>4. \A t \in Thread : thread'[t] \in {thread[t], [thread[t] EXCEPT !.age = @ + 1]}
      BY <1>8 DEF Tick
    <2>5. thread' = [t \in Thread |-> thread'[t]]
      BY <1>8 DEF Tick
    <2>6. odd' = odd
      BY <1>8 DEF Tick, bounds
    <2>7. \A t \in Thread : /\ thread'[t] \in ThreadType
                           /\ thread'[t].at = thread[t].at
                           /\ thread'[t].call = thread[t].call
      BY <2>1, <2>2, <2>3, <2>4
    <2>8. thread' \in [Thread -> ThreadType]
      BY <2>5, <2>7
    <2> QED
      BY <2>6, <2>7, <2>8 DEF WorkInv, ThreadInv
  <1>9. ASSUME NEW r \in Registry, Restart(r)
        PROVE  ThreadInv'
    BY <1>2, <1>9 DEF Restart, WorkInv, ThreadInv, Odd
  <1>10. ASSUME NEW r \in Registry, NEW t \in Thread, NEW c \in Call,
                Reject(r, t, c) \/ Allowed(r, t, c) \/ ChangedSince(r, t, c)
         PROVE  ThreadInv'
    BY <1>3, <1>5, <1>10 DEF Reject, Allowed, ChangedSince
  <1>11. ASSUME NEW t \in Thread, SaysNo(t) \/ WritesOutput(t) \/ TimesOut(t)
         PROVE  ThreadInv'
    BY <1>4, <1>11 DEF SaysNo, WritesOutput, TimesOut, bounds
  <1>16. ASSUME NEW t \in Thread, NEW x \in ThreadType, odd' = odd,
                thread' = [thread EXCEPT ![t] = x], thread[t].at # "idle",
                x.call = thread[t].call
         PROVE  ThreadInv'
    BY <1>16 DEF WorkInv, ThreadInv
  <1>17. ASSUME NEW t \in Thread, Exits(t) \/ SkillReturns(t)
         PROVE  ThreadInv'
    <2>1. Answers(t) /\ odd' = odd /\ thread[t].at = "running"
      BY <1>17 DEF Exits, SkillReturns, Answers, bounds, Running
    <2>2. CASE Finish(t)
      BY <1>4, <2>1, <2>2
    <2>3. CASE thread' = [thread EXCEPT ![t] = [@ EXCEPT !.at = "dumping"]]
      <3> DEFINE x == [thread[t] EXCEPT !.at = "dumping"]
      <3>1. x \in ThreadType /\ x.call = thread[t].call
        BY DEF WorkInv, ThreadInv, ThreadType
      <3>2. thread' = [thread EXCEPT ![t] = x]
        BY <2>3
      <3> HIDE DEF x
      <3> QED
        BY <1>16, <2>1, <3>1, <3>2
    <2> QED
      BY <2>1, <2>2, <2>3 DEF Answers
  <1>18. ASSUME NEW t \in Thread, Starts(t)
         PROVE  ThreadInv'
    <2> DEFINE x == [thread[t] EXCEPT !.at = "running", !.started = thread[t].age]
    <2>1. x \in ThreadType /\ x.call = thread[t].call
      BY DEF WorkInv, ThreadInv, ThreadType
    <2>2. thread' = [thread EXCEPT ![t] = x] /\ odd' = odd /\ thread[t].at = "checked"
      BY <1>18 DEF Starts, bounds
    <2> HIDE DEF x
    <2> QED
      BY <1>16, <2>1, <2>2
  <1>12. ASSUME NEW t \in Thread, Works(t)
         PROVE  ThreadInv'
    BY <1>3, <1>12 DEF Works
  <1>13. ASSUME NEW r \in Registry, GiveUp(r)
         PROVE  ThreadInv'
    BY <1>3, <1>13 DEF GiveUp, bounds
  <1>14. ASSUME UNCHANGED vars
         PROVE  ThreadInv'
    <2>1. thread' = thread /\ odd' = odd
      BY <1>14 DEF vars, bounds
    <2> QED
      BY <1>3, <2>1
  <1>15. ThreadInv'
    BY <1>6, <1>7, <1>8, <1>9, <1>10, <1>11, <1>12, <1>13, <1>14, <1>17, <1>18, ZenonT(60)
       DEF Next
  <1> QED
    BY <1>1, <1>15 DEF WorkInv

(* Whatever tools are called, and whatever subprocesses do between them,   *)
(* the workspace stays a tree: the copies, moves and deletions of tools.py *)
(* never leave an entry under something that is not a directory.           *)
THEOREM WorkspaceStaysATree == Spec => []TreeInv
  <1>1. Spec => []WorkInv
    <2>1. WorkInv /\ [Next]_vars => WorkInv'
      BY NextWork
    <2> QED
      BY InitWork, <2>1, PTL DEF Spec
  <1>2. WorkInv => TreeInv
    BY DEF WorkInv
  <1> QED
    BY <1>1, <1>2, PTL

(* For every workspace, every set of calls and every permission, no        *)
(* sequence of tool calls changes or removes a protected file.             *)
THEOREM ProtectedFilesUntouched == Spec => ProtectedUntouched
  <1>1. WorkInv /\ [Next]_vars => WorkInv'
    BY NextWork
  <1>2. WorkInv /\ [Next]_vars =>
           [odd' = odd =>
              \A p \in Protected : Exists(tree, p) => tree'[p] = tree[p]]_vars
    BY NextTree DEF Kept
  <1> QED
    BY InitWork, <1>1, <1>2, PTL DEF Spec, ProtectedUntouched


-----------------------------------------------------------------------------
(* The loop and its threads *)

(* The thread the loop waits for is one of its own, and busy.              *)
TurnInv ==
    /\ turn \in [Registry -> Thread \cup {None}]
    /\ \A r \in Registry : turn[r] # None =>
          Owner[turn[r]] = r /\ thread[turn[r]].at # "idle"

(* A subprocess is older than its start, and by no more than its budget:   *)
(* its own limit kills it first.                                           *)
RanInv ==
    \A t \in Thread : thread[t].at = "running" =>
        /\ thread[t].call \in Call
        /\ thread[t].started <= thread[t].age
        /\ thread[t].age - thread[t].started <= thread[t].call.budget

LoopInv == ThreadInv /\ TurnInv /\ RanInv

LEMMA InitLoop == Init => LoopInv
  <1> SUFFICES ASSUME Init
               PROVE  LoopInv
    OBVIOUS
  <1>1. ThreadInv
    BY InitWork DEF WorkInv
  <1>2. turn = [r \in Registry |-> None] /\ \A t \in Thread : thread[t].at = "idle"
    BY DEF Init, Idle
  <1>3. TurnInv
    BY <1>2 DEF TurnInv
  <1>4. RanInv
    BY <1>2 DEF RanInv
  <1> QED
    BY <1>1, <1>3, <1>4 DEF LoopInv

(* A thread that ends and gives its loop back.                             *)
LEMMA FinishLoop ==
    ASSUME LoopInv, NEW t \in Thread, Finish(t), Returns(t)
    PROVE  TurnInv' /\ RanInv'
  <1> USE DEF LoopInv, ThreadInv
  <1>1. \A u \in Thread : u # t => thread'[u] = thread[u]
    BY DEF Finish
  <1>2. thread'[t] = Idle /\ Idle.at = "idle"
    BY DEF Finish, Idle
  <1>3. \A r \in Registry : turn'[r] = IF turn[r] = t THEN None ELSE turn[r]
    BY DEF Returns
  <1>4. turn' \in [Registry -> Thread \cup {None}]
    BY DEF Returns, TurnInv
  <1>5. TurnInv'
    <2>1. ASSUME NEW r \in Registry, turn'[r] # None
          PROVE  Owner[turn'[r]] = r /\ thread'[turn'[r]].at # "idle"
      <3>1. turn'[r] = turn[r] /\ turn[r] # t /\ turn[r] \in Thread
        BY <1>3, <2>1 DEF TurnInv
      <3> QED
        BY <1>1, <2>1, <3>1 DEF TurnInv
    <2> QED
      BY <1>4, <2>1 DEF TurnInv
  <1>6. RanInv'
    <2>1. ASSUME NEW u \in Thread, thread'[u].at = "running"
          PROVE  u # t /\ thread'[u] = thread[u]
      BY <1>1, <1>2, <2>1
    <2> QED
      BY <2>1 DEF RanInv
  <1> QED
    BY <1>5, <1>6

LEMMA HandleLoop ==
    ASSUME LoopInv, NEW t \in Thread, NEW c \in Call, NEW age \in Nat,
           Handle(t, c, age)
    PROVE  TurnInv' /\ RanInv'
  <1> DEFINE busy == [at |-> "running", call |-> c, age |-> age, started |-> age]
  <1>1. CASE Finish(t) /\ Returns(t)
    BY <1>1, FinishLoop
  <1>2. CASE /\ thread' = [thread EXCEPT ![t] = busy]
             /\ turn' = [turn EXCEPT ![Owner[t]] = IF thread[t].at = "idle" THEN t ELSE @]
    <2>1. /\ \A u \in Thread : u # t => thread'[u] = thread[u]
          /\ thread'[t] = busy
      BY <1>2 DEF LoopInv, ThreadInv
    <2>2. /\ busy.at = "running" /\ busy.call = c
          /\ busy.age = age /\ busy.started = age
      OBVIOUS
    <2>3. c.budget \in Nat
      BY CallAssumption
    <2> HIDE DEF busy
    <2>4. RanInv'
      <3>1. ASSUME NEW u \in Thread, thread'[u].at = "running"
            PROVE  /\ thread'[u].call \in Call
                   /\ thread'[u].started <= thread'[u].age
                   /\ thread'[u].age - thread'[u].started <= thread'[u].call.budget
        <4>1. CASE u = t
          BY <2>1, <2>2, <2>3, <4>1
        <4>2. CASE u # t
          BY <2>1, <3>1, <4>2 DEF LoopInv, RanInv
        <4> QED
          BY <4>1, <4>2
      <3> QED
        BY <3>1 DEF RanInv
    <2>5. Owner[t] \in Registry
      BY RegistryAssumption
    <2>6. turn' \in [Registry -> Thread \cup {None}]
      BY <1>2, <2>5 DEF LoopInv, TurnInv
    <2>7. ASSUME NEW r \in Registry, turn'[r] # None
          PROVE  Owner[turn'[r]] = r /\ thread'[turn'[r]].at # "idle"
      <3>1. turn'[r] = turn[r] \/ (r = Owner[t] /\ turn'[r] = t)
        BY <1>2, <2>5 DEF LoopInv, TurnInv
      <3>2. CASE r = Owner[t] /\ turn'[r] = t
        BY <2>1, <2>2, <3>2
      <3>3. CASE turn'[r] = turn[r]
        <4>1. turn[r] \in Thread /\ Owner[turn[r]] = r /\ thread[turn[r]].at # "idle"
          BY <2>7, <3>3 DEF LoopInv, TurnInv
        <4> QED
          BY <2>1, <2>2, <3>3, <4>1
      <3> QED
        BY <3>1, <3>2, <3>3
    <2> QED
      BY <2>4, <2>6, <2>7 DEF TurnInv
  <1> QED
    BY <1>1, <1>2 DEF Handle

(* What waits or runs stays what it is as time passes.                     *)
LEMMA TickThread ==
    ASSUME ThreadInv, Tick, NEW t \in Thread
    PROVE  /\ thread'[t].at = thread[t].at
           /\ thread'[t].call = thread[t].call
           /\ thread'[t].started = thread[t].started
           /\ thread'[t].age \in {thread[t].age, thread[t].age + 1}
  <1>1. thread[t] \in ThreadType
    BY DEF ThreadInv
  <1> DEFINE older == [thread[t] EXCEPT !.age = @ + 1]
  <1>2. /\ older.at = thread[t].at /\ older.call = thread[t].call
        /\ older.started = thread[t].started /\ older.age = thread[t].age + 1
    BY <1>1 DEF ThreadType
  <1>3. thread'[t] = thread[t] \/ thread'[t] = older
    BY DEF Tick
  <1> HIDE DEF older
  <1> QED
    BY <1>2, <1>3

LEMMA NextLoop ==
    ASSUME WorkInv, LoopInv, [Next]_vars
    PROVE  LoopInv'
  <1>0. ThreadInv'
    BY NextWork DEF WorkInv
  <1>1. ASSUME UNCHANGED <<thread, turn>>
        PROVE  TurnInv' /\ RanInv'
    BY <1>1 DEF LoopInv, TurnInv, RanInv
  <1>2. ASSUME NEW r \in Registry, NEW t \in Thread, NEW c \in Call,
               Reject(r, t, c) \/ Allowed(r, t, c) \/ ChangedSince(r, t, c)
        PROVE  TurnInv' /\ RanInv'
    <2>1. UNCHANGED <<thread, turn>> \/ Handle(t, c, 0)
      BY <1>2 DEF Reject, Allowed, ChangedSince
    <2> QED
      BY <1>1, <2>1, HandleLoop
  <1>3. ASSUME NEW r \in Registry, NEW t \in Thread, NEW c \in Call,
               AskUser(r, t, c) \/ RunApproved(r, t, c)
        PROVE  TurnInv' /\ RanInv'
    <2> DEFINE y(at) == [Idle EXCEPT !.at = at, !.call = c]
    <2>0. \A at \in {"prompt", "checked"} : y(at).at = at
      BY DEF Idle
    <2> HIDE DEF y
    <2>9. PICK x : /\ x.at \in {"prompt", "checked"}
                   /\ thread' = [thread EXCEPT ![t] = x]
      <3>1. thread' = [thread EXCEPT ![t] = y("prompt")]
            \/ thread' = [thread EXCEPT ![t] = y("checked")]
        BY <1>3 DEF AskUser, RunApproved, y
      <3> QED
        BY <2>0, <3>1
    <2>1. x.at # "running" /\ x.at # "idle"
      BY <2>9
    <2>2. /\ thread' = [thread EXCEPT ![t] = x]
          /\ turn' = [turn EXCEPT ![r] = t]
          /\ Owner[t] = r
      BY <1>3, <2>9 DEF AskUser, RunApproved, Dispatch
    <2>3. /\ \A u \in Thread : u # t => thread'[u] = thread[u]
          /\ thread'[t] = x
      BY <2>2 DEF LoopInv, ThreadInv
    <2>4. RanInv'
      <3>1. ASSUME NEW u \in Thread, thread'[u].at = "running"
            PROVE  thread'[u] = thread[u]
        BY <2>1, <2>3, <3>1
      <3> QED
        BY <3>1 DEF LoopInv, RanInv
    <2>5. turn' \in [Registry -> Thread \cup {None}]
      BY <2>2 DEF LoopInv, TurnInv
    <2>6. ASSUME NEW s \in Registry, turn'[s] # None
          PROVE  Owner[turn'[s]] = s /\ thread'[turn'[s]].at # "idle"
      <3>1. (s = r /\ turn'[s] = t) \/ turn'[s] = turn[s]
        BY <2>2 DEF LoopInv, TurnInv
      <3>2. CASE s = r /\ turn'[s] = t
        BY <2>1, <2>2, <2>3, <3>2
      <3>3. CASE turn'[s] = turn[s]
        <4>1. turn[s] \in Thread /\ Owner[turn[s]] = s /\ thread[turn[s]].at # "idle"
          BY <2>6, <3>3 DEF LoopInv, TurnInv
        <4> QED
          BY <2>1, <2>3, <3>3, <4>1
      <3> QED
        BY <3>1, <3>2, <3>3
    <2> QED
      BY <2>4, <2>5, <2>6 DEF TurnInv
  <1>4. ASSUME NEW t \in Thread, SaysYes(t)
        PROVE  TurnInv' /\ RanInv'
    <2>1. thread[t].call \in Call /\ thread[t].age \in Nat
      BY <1>4 DEF SaysYes, Reads, WorkInv, ThreadInv, ThreadType
    <2>2. Handle(t, thread[t].call, thread[t].age)
      BY <1>4 DEF SaysYes
    <2> QED
      BY <2>1, <2>2, HandleLoop
  <1>5. ASSUME NEW t \in Thread, SaysNo(t) \/ WritesOutput(t) \/ TimesOut(t)
        PROVE  TurnInv' /\ RanInv'
    BY <1>5, FinishLoop DEF SaysNo, WritesOutput, TimesOut
  <1>12. ASSUME NEW t \in Thread, NEW x, thread' = [thread EXCEPT ![t] = x], turn' = turn,
                x.at # "idle",
                x.at = "running" => /\ x.call \in Call /\ x.started = x.age /\ x.age \in Nat
         PROVE  TurnInv' /\ RanInv'
    <2>1. /\ \A u \in Thread : u # t => thread'[u] = thread[u]
          /\ thread'[t] = x
      BY <1>12 DEF LoopInv, ThreadInv
    <2>2. TurnInv'
      BY <1>12, <2>1 DEF LoopInv, TurnInv
    <2>3. ASSUME NEW u \in Thread, thread'[u].at = "running"
          PROVE  /\ thread'[u].call \in Call
                 /\ thread'[u].started <= thread'[u].age
                 /\ thread'[u].age - thread'[u].started <= thread'[u].call.budget
      <3>1. CASE u = t
        <4>1. x.call.budget \in Nat
          BY <1>12, <2>1, <2>3, <3>1, CallAssumption
        <4> QED
          BY <1>12, <2>1, <2>3, <3>1, <4>1
      <3>2. CASE u # t
        BY <2>1, <2>3, <3>2 DEF LoopInv, RanInv
      <3> QED
        BY <3>1, <3>2
    <2> QED
      BY <2>2, <2>3 DEF RanInv
  <1>13. ASSUME NEW t \in Thread, Exits(t) \/ SkillReturns(t)
         PROVE  TurnInv' /\ RanInv'
    <2>1. Answers(t)
      BY <1>13 DEF Exits, SkillReturns
    <2>2. CASE Finish(t) /\ Returns(t)
      BY <2>2, FinishLoop
    <2>3. CASE thread' = [thread EXCEPT ![t] = [@ EXCEPT !.at = "dumping"]] /\ turn' = turn
      <3> DEFINE x == [thread[t] EXCEPT !.at = "dumping"]
      <3>1. x.at = "dumping"
        BY DEF LoopInv, ThreadInv, ThreadType
      <3>2. thread' = [thread EXCEPT ![t] = x]
        BY <2>3
      <3> HIDE DEF x
      <3> QED
        BY <1>12, <2>3, <3>1, <3>2
    <2> QED
      BY <2>1, <2>2, <2>3 DEF Answers
  <1>14. ASSUME NEW t \in Thread, Starts(t)
         PROVE  TurnInv' /\ RanInv'
    <2> DEFINE x == [thread[t] EXCEPT !.at = "running", !.started = thread[t].age]
    <2>1. /\ x.at = "running" /\ x.call = thread[t].call
          /\ x.started = x.age /\ x.age \in Nat
      BY DEF LoopInv, ThreadInv, ThreadType
    <2>2. thread' = [thread EXCEPT ![t] = x] /\ turn' = turn /\ thread[t].at = "checked"
      BY <1>14 DEF Starts
    <2>3. thread[t].call \in Call
      BY <2>2 DEF LoopInv, ThreadInv
    <2> HIDE DEF x
    <2> QED
      BY <1>12, <2>1, <2>2, <2>3
  <1>6. ASSUME NEW t \in Thread, Works(t)
        PROVE  TurnInv' /\ RanInv'
    BY <1>1, <1>6 DEF Works
  <1>7. ASSUME NEW r \in Registry, GiveUp(r)
        PROVE  TurnInv' /\ RanInv'
    <2>1. thread' = thread /\ turn' = [turn EXCEPT ![r] = None]
      BY <1>7 DEF GiveUp
    <2>2. RanInv'
      BY <2>1 DEF LoopInv, RanInv
    <2>3. TurnInv'
      BY <2>1 DEF LoopInv, TurnInv
    <2> QED
      BY <2>2, <2>3
  <1>8. ASSUME NEW r \in Registry, Restart(r)
        PROVE  TurnInv' /\ RanInv'
    <2>1. /\ thread' = [t \in Thread |-> IF Owner[t] = r THEN Idle ELSE thread[t]]
          /\ turn' = [turn EXCEPT ![r] = None]
      BY <1>8 DEF Restart
    <2>2. Idle.at = "idle"
      BY DEF Idle
    <2>3. RanInv'
      <3>1. ASSUME NEW u \in Thread, thread'[u].at = "running"
            PROVE  thread'[u] = thread[u]
        BY <2>1, <2>2, <3>1
      <3> QED
        BY <3>1 DEF LoopInv, RanInv
    <2>4. turn' \in [Registry -> Thread \cup {None}]
      BY <2>1 DEF LoopInv, TurnInv
    <2>5. ASSUME NEW s \in Registry, turn'[s] # None
          PROVE  Owner[turn'[s]] = s /\ thread'[turn'[s]].at # "idle"
      <3>1. s # r /\ turn'[s] = turn[s]
        BY <2>1, <2>5 DEF LoopInv, TurnInv
      <3>2. turn[s] \in Thread /\ Owner[turn[s]] = s /\ thread[turn[s]].at # "idle"
        BY <2>5, <3>1 DEF LoopInv, TurnInv
      <3>3. thread'[turn[s]] = thread[turn[s]]
        BY <2>1, <3>1, <3>2
      <3> QED
        BY <3>1, <3>2, <3>3
    <2> QED
      BY <2>3, <2>4, <2>5 DEF TurnInv
  <1>9. ASSUME Tick
        PROVE  TurnInv' /\ RanInv'
    <2>1. turn' = turn
      BY <1>9 DEF Tick
    <2>2. TurnInv'
      <3>1. ASSUME NEW s \in Registry, turn[s] # None
            PROVE  Owner[turn[s]] = s /\ thread'[turn[s]].at # "idle"
        BY <1>9, <3>1, TickThread DEF LoopInv, TurnInv
      <3> QED
        BY <2>1, <3>1 DEF LoopInv, TurnInv
    <2>3. ASSUME NEW t \in Thread, thread'[t].at = "running"
          PROVE  /\ thread'[t].call \in Call
                 /\ thread'[t].started <= thread'[t].age
                 /\ thread'[t].age - thread'[t].started <= thread'[t].call.budget
      <3>1. /\ thread[t].at = "running" /\ thread'[t].call = thread[t].call
            /\ thread'[t].started = thread[t].started
            /\ thread'[t].age \in {thread[t].age, thread[t].age + 1}
        BY <1>9, <2>3, TickThread DEF LoopInv
      <3>2. /\ thread[t].call \in Call
            /\ thread[t].started <= thread[t].age
            /\ thread[t].age - thread[t].started <= thread[t].call.budget
        BY <3>1 DEF LoopInv, RanInv
      <3>3. ~(thread[t].age - thread[t].started >= thread[t].call.budget)
        BY <1>9, <3>1 DEF Tick, Overdue, Running, Ran
      <3>4. thread[t].age \in Nat /\ thread[t].started \in Nat
        BY DEF LoopInv, ThreadInv, ThreadType
      <3>5. thread[t].call.budget \in Nat
        BY <3>2, CallAssumption
      <3> QED
        BY <3>1, <3>2, <3>3, <3>4, <3>5
    <2> QED
      BY <2>2, <2>3 DEF RanInv
  <1>10. ASSUME UNCHANGED vars
         PROVE  TurnInv' /\ RanInv'
    <2>1. UNCHANGED <<thread, turn>>
      BY <1>10 DEF vars
    <2> QED
      BY <1>1, <2>1
  <1>11. TurnInv' /\ RanInv'
    BY <1>2, <1>3, <1>4, <1>5, <1>6, <1>7, <1>8, <1>9, <1>10, <1>13, <1>14, ZenonT(60) DEF Next
  <1> QED
    BY <1>0, <1>11 DEF LoopInv

(* The loop lets go of a busy thread only as it gives up on it.            *)
LEMMA LetsGo ==
    ASSUME WorkInv, LoopInv, [Next]_vars, NEW r \in Registry,
           turn[r] # None, turn'[r] = None, thread'[turn[r]].at = "running"
    PROVE  GiveUp(r)
  <1> DEFINE t == turn[r]
  <1>1. t \in Thread /\ Owner[t] = r /\ thread[t].at # "idle" /\ t # None
    BY DEF LoopInv, TurnInv
  <1>2. Idle.at = "idle"
    BY DEF Idle
  <1>3. ASSUME NEW u \in Thread, Finish(u), Returns(u)
        PROVE  FALSE
    <2>1. turn[r] = u
      BY <1>1, <1>3 DEF Returns
    <2>2. thread'[u] = Idle
      BY <1>3 DEF Finish, LoopInv, ThreadInv
    <2> QED
      BY <1>2, <2>1, <2>2
  <1>4. ASSUME turn' = turn
        PROVE  FALSE
    BY <1>1, <1>4
  <1>5. ASSUME NEW u \in Thread, NEW c \in Call, NEW age \in Nat, Handle(u, c, age)
        PROVE  FALSE
    <2>1. CASE Finish(u) /\ Returns(u)
      BY <1>3, <2>1
    <2>2. CASE turn' = [turn EXCEPT ![Owner[u]] = IF thread[u].at = "idle" THEN u ELSE @]
      <3>1. turn'[r] = turn[r] \/ turn'[r] = u
        BY <2>2, RegistryAssumption DEF LoopInv, TurnInv
      <3> QED
        BY <1>1, <3>1, RegistryAssumption
    <2> QED
      BY <1>5, <2>1, <2>2 DEF Handle
  <1>6. ASSUME NEW s \in Registry, NEW u \in Thread, NEW c \in Call,
               Reject(s, u, c) \/ Allowed(s, u, c) \/ ChangedSince(s, u, c)
        PROVE  FALSE
    <2>1. turn' = turn \/ Handle(u, c, 0)
      BY <1>6 DEF Reject, Allowed, ChangedSince
    <2> QED
      BY <1>4, <1>5, <2>1
  <1>7. ASSUME NEW s \in Registry, NEW u \in Thread, NEW c \in Call,
               AskUser(s, u, c) \/ RunApproved(s, u, c)
        PROVE  FALSE
    <2>1. turn' = [turn EXCEPT ![s] = u]
      BY <1>7 DEF AskUser, RunApproved
    <2>2. turn'[r] = turn[r] \/ turn'[r] = u
      BY <2>1 DEF LoopInv, TurnInv
    <2> QED
      BY <1>1, <2>2, RegistryAssumption
  <1>8. ASSUME NEW u \in Thread, SaysYes(u)
        PROVE  FALSE
    <2>1. thread[u].call \in Call /\ thread[u].age \in Nat
      BY <1>8 DEF SaysYes, Reads, WorkInv, ThreadInv, ThreadType
    <2>2. Handle(u, thread[u].call, thread[u].age)
      BY <1>8 DEF SaysYes
    <2> QED
      BY <1>5, <2>1, <2>2
  <1>9. ASSUME NEW u \in Thread,
               \/ SaysNo(u) \/ Exits(u) \/ SkillReturns(u) \/ TimesOut(u)
               \/ Starts(u) \/ WritesOutput(u)
        PROVE  FALSE
    BY <1>3, <1>4, <1>9
       DEF SaysNo, Exits, SkillReturns, Answers, TimesOut, Starts, WritesOutput
  <1>10. ASSUME NEW s \in Registry, Restart(s)
         PROVE  FALSE
    <2>1. CASE s = r
      <3>1. thread'[t] = Idle
        BY <1>1, <1>10, <2>1 DEF Restart
      <3> QED
        BY <1>2, <3>1
    <2>2. CASE s # r
      <3>1. turn'[r] = turn[r]
        BY <1>10, <2>2 DEF Restart, LoopInv, TurnInv
      <3> QED
        BY <1>1, <3>1
    <2> QED
      BY <2>1, <2>2
  <1>11. ASSUME NEW s \in Registry, GiveUp(s)
         PROVE  s = r
    <2> SUFFICES ASSUME s # r
                 PROVE  FALSE
      OBVIOUS
    <2>1. turn'[r] = turn[r]
      BY <1>11 DEF GiveUp, LoopInv, TurnInv
    <2> QED
      BY <1>1, <2>1
  <1>12. ASSUME \/ \E u \in Thread : Works(u)
                \/ Tick
                \/ UNCHANGED vars
         PROVE  FALSE
    BY <1>4, <1>12 DEF Works, Tick, vars
  <1> QED
    BY <1>6, <1>7, <1>8, <1>9, <1>10, <1>11, <1>12, ZenonT(60) DEF Next

(* For every margin and budget: the loop abandons a thread whose           *)
(* subprocess runs on only when the user took as long as the margin of     *)
(* dispatch_timeout to allow the command.                                  *)
THEOREM LostAfterSlowAnswer == Spec => LostOnlyAfterSlowAnswer
  <1>1. Init => WorkInv /\ LoopInv
    BY InitWork, InitLoop
  <1>2. WorkInv /\ LoopInv /\ [Next]_vars => WorkInv' /\ LoopInv'
    BY NextWork, NextLoop
  <1> DEFINE Lost == \A r \in Registry :
                LET t == turn[r]
                IN  (t # None /\ turn'[r] = None /\ thread'[t].at = "running")
                    => thread[t].started >= Margin
  <1>3. WorkInv /\ LoopInv /\ [Next]_vars => [Lost]_vars
    <2> SUFFICES ASSUME WorkInv, LoopInv, [Next]_vars, NEW r \in Registry,
                        turn[r] # None, turn'[r] = None,
                        thread'[turn[r]].at = "running"
                 PROVE  thread[turn[r]].started >= Margin
      OBVIOUS
    <2> DEFINE t == turn[r]
    <2>1. GiveUp(r)
      BY LetsGo
    <2>2. t \in Thread
      BY DEF LoopInv, TurnInv
    <2>3. thread'[t] = thread[t] /\ thread[t].age >= thread[t].call.budget + Margin
      BY <2>1 DEF GiveUp, Ceiling
    <2>4. /\ thread[t].call \in Call
          /\ thread[t].age - thread[t].started <= thread[t].call.budget
      BY <2>2, <2>3 DEF LoopInv, RanInv
    <2>5. /\ thread[t].age \in Nat /\ thread[t].started \in Nat
          /\ thread[t].call.budget \in Nat /\ Margin \in Nat
      BY <2>2, <2>4, CallAssumption, BoundsAssumption DEF LoopInv, ThreadInv, ThreadType
    <2> HIDE DEF t
    <2>6. thread[t].started >= Margin
      BY <2>3, <2>4, <2>5
    <2> QED
      BY <2>6 DEF t
  <1> QED
    BY <1>1, <1>2, <1>3, PTL DEF Spec, LostOnlyAfterSlowAnswer


-----------------------------------------------------------------------------
(* Approvals *)

(* What an approval speaks of: what was no directory, could be read, and,  *)
(* when it was absent, is named by a word that looks like a path.          *)
Watched(g, c) ==
    {q \in c.names \ g.unread : g.cells[q] # Dir /\ (g.cells[q] = Absent => q \notin c.bare)}

(* An approval that is remembered rests on the last answer the user gave   *)
(* to the command: it is as old, and it holds what the files were then.    *)
RestsOn(a, g, c) ==
    a # None =>
        /\ g # None /\ a.age = g.age
        /\ ~c.glob
        /\ a.hashes = {<<p, g.cells[p]>> : p \in Watched(g, c)}

AnswersInv ==
    /\ approved \in [Registry -> [Commands -> Approval \cup {None}]]
    /\ given = [r \in Registry |-> [c \in Commands |-> given[r][c]]]
    /\ \A r \in Registry, c \in Commands :
          /\ given[r][c] \in Answer(c) \cup {None}
          /\ RestsOn(approved[r][c], given[r][c], c)

LEMMA InitAnswers == Init => AnswersInv
  <1> SUFFICES ASSUME Init
               PROVE  AnswersInv
    OBVIOUS
  <1>1. /\ approved = [r \in Registry |-> [c \in Commands |-> None]]
        /\ given = [r \in Registry |-> [c \in Commands |-> None]]
    BY DEF Init
  <1>2. \A r \in Registry, c \in Commands : approved[r][c] = None /\ given[r][c] = None
    BY <1>1
  <1>3. approved \in [Registry -> [Commands -> Approval \cup {None}]]
    BY <1>1
  <1>4. given = [r \in Registry |-> [c \in Commands |-> given[r][c]]]
    BY <1>1
  <1> QED
    BY <1>2, <1>3, <1>4 DEF AnswersInv, RestsOn

(* Forgetting an approval keeps the rest.                                  *)
LEMMA Forgets ==
    ASSUME AnswersInv, NEW r \in Registry, NEW c \in Commands,
           approved' = [approved EXCEPT ![r][c] = None], given' = given
    PROVE  AnswersInv'
  <1>1. \A s \in Registry, d \in Commands :
           approved'[s][d] = approved[s][d] \/ approved'[s][d] = None
    BY DEF AnswersInv
  <1>2. approved' \in [Registry -> [Commands -> Approval \cup {None}]]
    BY DEF AnswersInv
  <1>3. ASSUME NEW s \in Registry, NEW d \in Commands
        PROVE  /\ given[s][d] \in Answer(d) \cup {None}
               /\ RestsOn(approved'[s][d], given[s][d], d)
    BY <1>1 DEF AnswersInv, RestsOn
  <1>4. given' = [s \in Registry |-> [d \in Commands |-> given'[s][d]]]
    BY DEF AnswersInv
  <1> QED
    BY <1>2, <1>3, <1>4 DEF AnswersInv

(* The answer, and the approval that is remembered for it.                 *)
LEMMA Remembers ==
    ASSUME AnswersInv, TreeInv, NEW r \in Registry, NEW c \in Commands,
           NEW unread \in SUBSET c.names, Remember(r, c, unread)
    PROVE  AnswersInv'
  <1> DEFINE g == [cells |-> [p \in c.names |-> tree[p]], unread |-> unread, age |-> 0]
             h == [hashes |-> Hashes(tree, c, unread), age |-> 0]
             a == IF c.glob THEN None ELSE h
  <1>1. c.names \subseteq Path
    BY CallAssumption DEF Commands
  <1>2. \A p \in c.names : tree[p] \in Cell
    BY <1>1 DEF TreeInv, Tree
  <1>3. g.cells = [p \in c.names |-> tree[p]] /\ g.age = 0 /\ g.unread = unread
    OBVIOUS
  <1>4. g \in Answer(c)
    BY <1>2 DEF Answer
  <1>5. Hashes(tree, c, unread) = {<<p, g.cells[p]>> : p \in Watched(g, c)}
    BY DEF Hashes, IsDir, Watched
  <1>6. Hashes(tree, c, unread) \subseteq Path \X Cell
    <2>1. ASSUME NEW x \in Hashes(tree, c, unread)
          PROVE  x \in Path \X Cell
      <3>1. PICK p \in c.names : x = <<p, tree[p]>>
        BY DEF Hashes
      <3> QED
        BY <1>1, <1>2, <3>1
    <2> QED
      BY <2>1
  <1>7. h \in Approval /\ h.hashes = Hashes(tree, c, unread) /\ h.age = 0
    BY <1>6 DEF Approval
  <1>8. g # None
    BY <1>4, NoneAssumption
  <1> HIDE DEF g, h
  <1>9. a \in Approval \cup {None} /\ RestsOn(a, g, c)
    BY <1>3, <1>5, <1>7, <1>8 DEF RestsOn
  <1> HIDE DEF a
  <1>10. approved' = [approved EXCEPT ![r][c] = a] /\ given' = [given EXCEPT ![r][c] = g]
    BY DEF a, g, h, Remember
  <1>11. approved' \in [Registry -> [Commands -> Approval \cup {None}]]
    BY <1>9, <1>10 DEF AnswersInv
  <1>12. given' = [s \in Registry |-> [d \in Commands |->
                      IF s = r /\ d = c THEN g ELSE given[s][d]]]
    <2>1. given = [s \in Registry |-> [d \in Commands |-> given[s][d]]]
      BY DEF AnswersInv
    <2> DEFINE row(s) == [d \in Commands |-> given[s][d]]
               new == [d \in Commands |-> IF d = c THEN g ELSE given[r][d]]
    <2>2. given = [s \in Registry |-> row(s)] /\ given[r] = row(r)
      BY <2>1
    <2>3. [given[r] EXCEPT ![c] = g] = new
      BY <2>2
    <2>4. given' = [given EXCEPT ![r] = [given[r] EXCEPT ![c] = g]]
      BY <1>10
    <2>5. given' = [s \in Registry |-> IF s = r THEN new ELSE row(s)]
      <3> HIDE DEF row, new
      <3> QED
        BY <2>2, <2>3, <2>4
    <2> DEFINE all(s) == [d \in Commands |-> IF s = r /\ d = c THEN g ELSE given[s][d]]
    <2>6. \A s \in Registry : all(s) = IF s = r THEN new ELSE row(s)
      <3>1. ASSUME NEW s \in Registry, s = r
            PROVE  all(s) = new
        BY <3>1
      <3>2. ASSUME NEW s \in Registry, s # r
            PROVE  all(s) = row(s)
        BY <3>2
      <3> QED
        BY <3>1, <3>2
    <2>7. given' = [s \in Registry |-> all(s)]
      <3> HIDE DEF all, row, new
      <3> QED
        BY <2>5, <2>6
    <2> QED
      BY <2>7
  <1>13. \A s \in Registry, d \in Commands :
            given'[s][d] = IF s = r /\ d = c THEN g ELSE given[s][d]
    BY <1>12
  <1>14. given' = [s \in Registry |-> [d \in Commands |-> given'[s][d]]]
    BY <1>12, <1>13
  <1>15. \A s \in Registry, d \in Commands :
            approved'[s][d] = IF s = r /\ d = c THEN a ELSE approved[s][d]
    BY <1>10 DEF AnswersInv
  <1>16. ASSUME NEW s \in Registry, NEW d \in Commands
         PROVE  /\ given'[s][d] \in Answer(d) \cup {None}
                /\ RestsOn(approved'[s][d], given'[s][d], d)
    <2>1. CASE s = r /\ d = c
      BY <1>4, <1>9, <1>13, <1>15, <2>1
    <2>2. CASE ~(s = r /\ d = c)
      BY <1>13, <1>15, <2>2 DEF AnswersInv
    <2> QED
      BY <2>1, <2>2
  <1> QED
    BY <1>11, <1>14, <1>16 DEF AnswersInv

(* An approval and its answer grow old together.                           *)
LEMMA GrowsOld ==
    ASSUME NEW c \in Commands, NEW a \in Approval \cup {None},
           NEW g \in Answer(c) \cup {None}, RestsOn(a, g, c)
    PROVE  /\ Older(a) \in Approval \cup {None}
           /\ Older(g) \in Answer(c) \cup {None}
           /\ RestsOn(Older(a), Older(g), c)
  <1> DEFINE b == [a EXCEPT !.age = @ + 1]
             k == [g EXCEPT !.age = @ + 1]
  <1>1. a \in Approval => b \in Approval /\ b.hashes = a.hashes /\ b.age = a.age + 1
    BY DEF Approval
  <1>2. g \in Answer(c) => k \in Answer(c) /\ k.cells = g.cells /\ k.unread = g.unread
                          /\ k.age = g.age + 1
    BY DEF Answer
  <1>3. Older(a) = IF a = None \/ a.age > Ttl THEN a ELSE b
    BY DEF Older
  <1>4. Older(g) = IF g = None \/ g.age > Ttl THEN g ELSE k
    BY DEF Older
  <1> HIDE DEF b, k
  <1>5. Older(a) \in Approval \cup {None} /\ Older(g) \in Answer(c) \cup {None}
    BY <1>1, <1>2, <1>3, <1>4
  <1>6. RestsOn(Older(a), Older(g), c)
    <2>1. CASE a = None
      BY <1>3, <2>1 DEF RestsOn
    <2>2. CASE a # None /\ a.age > Ttl
      BY <1>3, <1>4, <2>2 DEF RestsOn
    <2>3. CASE a # None /\ ~(a.age > Ttl)
      <3>1. g # None /\ a.age = g.age
        BY <2>3 DEF RestsOn
      <3>2. Older(a) = b /\ Older(g) = k
        BY <1>3, <1>4, <2>3, <3>1
      <3>3. b # None /\ k # None
        BY <1>1, <1>2, <2>3, <3>1, NoneAssumption
      <3> QED
        BY <1>1, <1>2, <2>3, <3>1, <3>2, <3>3 DEF RestsOn, Watched
    <2> QED
      BY <2>1, <2>2, <2>3
  <1> QED
    BY <1>5, <1>6

LEMMA NextAnswers ==
    ASSUME WorkInv, AnswersInv, [Next]_vars
    PROVE  AnswersInv'
  <1>1. ASSUME UNCHANGED <<approved, given>>
        PROVE  AnswersInv'
    BY <1>1 DEF AnswersInv
  <1>2. ASSUME NEW r \in Registry, NEW t \in Thread, NEW c \in Call,
               Reject(r, t, c) \/ Allowed(r, t, c) \/ RunApproved(r, t, c)
        PROVE  AnswersInv'
    BY <1>1, <1>2 DEF Reject, Allowed, RunApproved
  <1>3. ASSUME NEW r \in Registry, NEW t \in Thread, NEW c \in Call, ChangedSince(r, t, c)
        PROVE  AnswersInv'
    <2>1. c \in Commands
      BY <1>3 DEF ChangedSince, Answered, Commands
    <2>2. approved' = [approved EXCEPT ![r][c] = None] /\ given' = given
      BY <1>3 DEF ChangedSince
    <2> QED
      BY <2>1, <2>2, Forgets
  <1>4. ASSUME NEW r \in Registry, NEW t \in Thread, NEW c \in Call, AskUser(r, t, c)
        PROVE  AnswersInv'
    <2>1. given' = given
      BY <1>4 DEF AskUser
    <2>2. CASE c.tool = "shell_exec"
      <3>1. c \in Commands /\ approved' = [approved EXCEPT ![r][c] = None]
        BY <1>4, <2>2 DEF AskUser, Commands
      <3> QED
        BY <2>1, <3>1, Forgets
    <2>3. CASE c.tool # "shell_exec"
      BY <1>1, <1>4, <2>1, <2>3 DEF AskUser
    <2> QED
      BY <2>2, <2>3
  <1>5. ASSUME NEW t \in Thread, SaysYes(t)
        PROVE  AnswersInv'
    <2> DEFINE c == thread[t].call
               r == Owner[t]
    <2>1. c \in Call /\ r \in Registry
      BY <1>5, RegistryAssumption DEF SaysYes, Reads, WorkInv, ThreadInv
    <2>2. CASE c.tool = "shell_exec"
      <3>1. c \in Commands
        BY <2>1, <2>2 DEF Commands
      <3>2. PICK unread \in SUBSET c.names : Remember(r, c, unread)
        BY <1>5, <2>2 DEF SaysYes
      <3> HIDE DEF c, r
      <3> QED
        BY <2>1, <3>1, <3>2, Remembers DEF WorkInv
    <2>3. CASE c.tool # "shell_exec"
      <3>1. UNCHANGED <<approved, given>>
        BY <1>5, <2>3 DEF SaysYes
      <3> QED
        BY <1>1, <3>1
    <2> QED
      BY <2>2, <2>3
  <1>6. ASSUME NEW t \in Thread,
               \/ SaysNo(t) \/ Works(t) \/ Exits(t) \/ SkillReturns(t) \/ TimesOut(t)
               \/ Starts(t) \/ WritesOutput(t)
        PROVE  AnswersInv'
    BY <1>1, <1>6
       DEF SaysNo, Works, Exits, SkillReturns, Answers, TimesOut, Starts, WritesOutput
  <1>7. ASSUME NEW r \in Registry, GiveUp(r)
        PROVE  AnswersInv'
    BY <1>1, <1>7 DEF GiveUp
  <1>8. ASSUME NEW r \in Registry, Restart(r)
        PROVE  AnswersInv'
    <2> DEFINE none == [c \in Commands |-> None]
    <2>1. /\ approved' = [approved EXCEPT ![r] = none]
          /\ given' = [given EXCEPT ![r] = none]
      BY <1>8 DEF Restart
    <2>2. none \in [Commands -> Approval \cup {None}] /\ \A c \in Commands : none[c] = None
      OBVIOUS
    <2>3. none = [c \in Commands |-> none[c]]
      OBVIOUS
    <2>4. approved' \in [Registry -> [Commands -> Approval \cup {None}]]
      BY <2>1, <2>2 DEF AnswersInv
    <2>5. \A s \in Registry : s # r => approved'[s] = approved[s] /\ given'[s] = given[s]
      BY <2>1 DEF AnswersInv
    <2>6. approved'[r] = none /\ given'[r] = none
      <3>1. DOMAIN given = Registry /\ DOMAIN approved = Registry
        BY DEF AnswersInv
      <3> QED
        BY <2>1, <3>1
    <2> HIDE DEF none
    <2>7. given' = [s \in Registry |-> [c \in Commands |-> given'[s][c]]]
      <3>1. DOMAIN given' = Registry
        BY <2>1 DEF AnswersInv
      <3>2. given' = [s \in Registry |-> given'[s]]
        <4>1. given = [s \in Registry |-> given[s]]
          <5> DEFINE row(s) == [c \in Commands |-> given[s][c]]
          <5>1. given = [s \in Registry |-> row(s)]
            BY DEF AnswersInv
          <5> HIDE DEF row
          <5> QED
            BY <5>1
        <4> QED
          BY <2>1, <4>1
      <3>3. \A s \in Registry : given'[s] = [c \in Commands |-> given'[s][c]]
        <4>1. \A s \in Registry : given[s] = [c \in Commands |-> given[s][c]]
          BY DEF AnswersInv
        <4> QED
          BY <2>3, <2>5, <2>6, <4>1
      <3> DEFINE fresh(s) == [c \in Commands |-> given'[s][c]]
      <3>4. \A s \in Registry : given'[s] = fresh(s)
        BY <3>3
      <3> HIDE DEF fresh
      <3>5. given' = [s \in Registry |-> fresh(s)]
        BY <3>2, <3>4
      <3> QED
        BY <3>5 DEF fresh
    <2>8. ASSUME NEW s \in Registry, NEW c \in Commands
          PROVE  /\ given'[s][c] \in Answer(c) \cup {None}
                 /\ RestsOn(approved'[s][c], given'[s][c], c)
      <3>1. CASE s = r
        BY <2>2, <2>6, <3>1 DEF RestsOn
      <3>2. CASE s # r
        BY <2>5, <3>2 DEF AnswersInv
      <3> QED
        BY <3>1, <3>2
    <2> QED
      BY <2>4, <2>7, <2>8 DEF AnswersInv
  <1>9. ASSUME Tick
        PROVE  AnswersInv'
    <2>1. /\ approved' = [r \in Registry |-> [c \in Commands |-> Older(approved[r][c])]]
          /\ given' = [r \in Registry |-> [c \in Commands |-> Older(given[r][c])]]
      BY <1>9 DEF Tick
    <2>2. \A r \in Registry, c \in Commands :
             approved'[r][c] = Older(approved[r][c]) /\ given'[r][c] = Older(given[r][c])
      BY <2>1
    <2>3. ASSUME NEW r \in Registry, NEW c \in Commands
          PROVE  /\ Older(approved[r][c]) \in Approval \cup {None}
                 /\ Older(given[r][c]) \in Answer(c) \cup {None}
                 /\ RestsOn(Older(approved[r][c]), Older(given[r][c]), c)
      <3>1. /\ approved[r][c] \in Approval \cup {None}
            /\ given[r][c] \in Answer(c) \cup {None}
            /\ RestsOn(approved[r][c], given[r][c], c)
        BY DEF AnswersInv
      <3> QED
        BY <3>1, GrowsOld
    <2>4. approved' \in [Registry -> [Commands -> Approval \cup {None}]]
      BY <2>1, <2>3
    <2>5. given' = [r \in Registry |-> [c \in Commands |-> given'[r][c]]]
      BY <2>1, <2>2
    <2> QED
      BY <2>2, <2>3, <2>4, <2>5 DEF AnswersInv
  <1>10. ASSUME UNCHANGED vars
         PROVE  AnswersInv'
    <2>1. UNCHANGED <<approved, given>>
      BY <1>10 DEF vars
    <2> QED
      BY <1>1, <2>1
  <1> QED
    BY <1>2, <1>3, <1>4, <1>5, <1>6, <1>7, <1>8, <1>9, <1>10, ZenonT(60) DEF Next

(* A free thread takes up a subprocess as its call is dispatched, unasked  *)
(* or under an approval, and then it is the registry's own thread.         *)
LEMMA StartsUnasked ==
    ASSUME WorkInv, [Next]_vars, NEW t \in Thread,
           thread[t].at = "idle", thread'[t].at \in {"checked", "running"}
    PROVE  /\ thread'[t].call \in Call
           /\ \/ Allowed(Owner[t], t, thread'[t].call)
              \/ RunApproved(Owner[t], t, thread'[t].call)
  <1>0. Idle.at = "idle" /\ thread \in [Thread -> ThreadType]
    BY DEF Idle, WorkInv, ThreadInv
  <1>1. ASSUME NEW u \in Thread, Finish(u)
        PROVE  FALSE
    BY <1>0, <1>1 DEF Finish
  <1>2. ASSUME thread' = thread
        PROVE  FALSE
    BY <1>2
  <1>3. ASSUME NEW u \in Thread, NEW c, NEW age, Handle(u, c, age)
        PROVE  u = t /\ thread'[t].call = c
    <2> DEFINE busy == [at |-> "running", call |-> c, age |-> age, started |-> age]
    <2>1. thread' = [thread EXCEPT ![u] = busy]
      BY <1>1, <1>3 DEF Handle
    <2>2. busy.call = c
      OBVIOUS
    <2> HIDE DEF busy
    <2>3. u = t
      BY <1>0, <2>1
    <2> QED
      BY <1>0, <2>1, <2>2, <2>3
  <1>4. ASSUME NEW r \in Registry, NEW u \in Thread, NEW c \in Call,
               Allowed(r, u, c)
        PROVE  /\ thread'[t].call \in Call
               /\ \/ Allowed(Owner[t], t, thread'[t].call)
                  \/ RunApproved(Owner[t], t, thread'[t].call)
    <2>1. Handle(u, c, 0) /\ Owner[u] = r
      BY <1>4 DEF Allowed, Dispatch
    <2>2. u = t /\ thread'[t].call = c
      BY <1>3, <2>1
    <2> QED
      BY <1>4, <2>1, <2>2
  <1>5. ASSUME NEW r \in Registry, NEW u \in Thread, NEW c \in Call,
               Reject(r, u, c) \/ ChangedSince(r, u, c)
        PROVE  FALSE
    BY <1>2, <1>5 DEF Reject, ChangedSince
  <1>6. ASSUME NEW r \in Registry, NEW u \in Thread, NEW c \in Call, AskUser(r, u, c)
        PROVE  FALSE
    <2> DEFINE x == [Idle EXCEPT !.at = "prompt", !.call = c]
    <2>1. x.at = "prompt"
      BY DEF Idle
    <2>2. thread' = [thread EXCEPT ![u] = x]
      BY <1>6 DEF AskUser
    <2> HIDE DEF x
    <2> QED
      BY <1>0, <2>1, <2>2
  <1>12. ASSUME NEW r \in Registry, NEW u \in Thread, NEW c \in Call, RunApproved(r, u, c)
         PROVE  /\ thread'[t].call \in Call
                /\ \/ Allowed(Owner[t], t, thread'[t].call)
                   \/ RunApproved(Owner[t], t, thread'[t].call)
    <2> DEFINE x == [Idle EXCEPT !.at = "checked", !.call = c]
    <2>1. x.call = c
      BY DEF Idle
    <2>2. thread' = [thread EXCEPT ![u] = x] /\ Owner[u] = r
      BY <1>12 DEF RunApproved, Dispatch
    <2> HIDE DEF x
    <2>3. u = t /\ thread'[t].call = c
      BY <1>0, <2>1, <2>2
    <2> QED
      BY <1>12, <2>2, <2>3
  <1>7. ASSUME NEW u \in Thread, SaysYes(u)
        PROVE  FALSE
    <2>1. Handle(u, thread[u].call, thread[u].age) /\ thread[u].at = "prompt"
      BY <1>7 DEF SaysYes, Reads
    <2>2. u = t
      BY <1>3, <2>1
    <2> QED
      BY <2>1, <2>2
  <1>8. ASSUME NEW u \in Thread, SaysNo(u) \/ WritesOutput(u) \/ TimesOut(u)
        PROVE  FALSE
    BY <1>1, <1>8 DEF SaysNo, WritesOutput, TimesOut
  <1>13. ASSUME NEW u \in Thread, Exits(u) \/ SkillReturns(u) \/ Starts(u)
         PROVE  FALSE
    <2>1. thread[u].at \in {"running", "checked"}
      BY <1>13 DEF Exits, SkillReturns, Starts, Running
    <2>2. Finish(u) \/ \A v \in Thread \ {u} : thread'[v] = thread[v]
      BY <1>0, <1>13 DEF Exits, SkillReturns, Starts, Answers
    <2> QED
      BY <1>1, <2>1, <2>2
  <1>9. ASSUME \/ \E u \in Thread : Works(u)
               \/ \E r \in Registry : GiveUp(r)
               \/ UNCHANGED vars
        PROVE  FALSE
    BY <1>2, <1>9 DEF Works, GiveUp, vars
  <1>10. ASSUME NEW r \in Registry, Restart(r)
         PROVE  FALSE
    BY <1>0, <1>10 DEF Restart
  <1>11. ASSUME Tick
         PROVE  FALSE
    BY <1>11, TickThread DEF WorkInv
  <1> QED
    BY <1>4, <1>5, <1>6, <1>7, <1>8, <1>9, <1>10, <1>11, <1>12, <1>13, ZenonT(60) DEF Next

(* For every workspace, command, permission and time to live: what is let  *)
(* through unasked under an approval is what the user allowed, no longer   *)
(* ago than _APPROVAL_TTL, on the files there were and could be read, and  *)
(* where its words that look like paths found nothing, nothing is still.   *)
THEOREM ApprovalHolds == Spec => ApprovalStillHolds
  <1>1. Init => WorkInv /\ AnswersInv
    BY InitWork, InitAnswers
  <1>2. WorkInv /\ AnswersInv /\ [Next]_vars => WorkInv' /\ AnswersInv'
    BY NextWork, NextAnswers
  <1> DEFINE Holds == \A t \in Thread :
                LET c == thread'[t].call
                    g == given[Owner[t]][c]
                IN  (/\ thread[t].at = "idle" /\ thread'[t].at \in {"checked", "running"}
                     /\ c.tool = "shell_exec" /\ Permission[c.tool] = "ask" /\ ~c.preapproved)
                    => /\ g # None /\ g.age <= Ttl
                       /\ ~c.glob
                       /\ \A p \in c.names :
                             \/ g.cells[p] = tree[p]
                             \/ g.cells[p] = Dir \/ p \in g.unread
                             \/ g.cells[p] = Absent /\ p \in c.bare
  <1>3. WorkInv /\ AnswersInv /\ [Next]_vars => [Holds]_vars
    <2> SUFFICES ASSUME WorkInv, AnswersInv, [Next]_vars, NEW t \in Thread,
                        thread[t].at = "idle", thread'[t].at \in {"checked", "running"},
                        thread'[t].call.tool = "shell_exec",
                        Permission[thread'[t].call.tool] = "ask",
                        ~thread'[t].call.preapproved
                 PROVE  LET c == thread'[t].call
                            g == given[Owner[t]][c]
                        IN  /\ g # None /\ g.age <= Ttl
                            /\ ~c.glob
                            /\ \A p \in c.names :
                                  \/ g.cells[p] = tree[p]
                                  \/ g.cells[p] = Dir \/ p \in g.unread
                                  \/ g.cells[p] = Absent /\ p \in c.bare
      OBVIOUS
    <2> DEFINE c == thread'[t].call
               r == Owner[t]
               g == given[r][c]
               a == approved[r][c]
    <2>1. r \in Registry
      BY RegistryAssumption
    <2>2. c \in Call /\ c \in Commands
      BY StartsUnasked DEF Commands
    <2>3. RunApproved(r, t, c)
      BY StartsUnasked DEF Allowed
    <2>4. a # None /\ a.age <= Ttl /\ UnchangedSince(tree, a.hashes)
      BY <2>3 DEF RunApproved, Answered, Fresh
    <2>5. RestsOn(a, g, c)
      BY <2>1, <2>2 DEF AnswersInv
    <2> HIDE DEF a, g, c
    <2>6. g # None /\ g.age <= Ttl /\ ~c.glob
      BY <2>4, <2>5 DEF RestsOn
    <2>7. ASSUME NEW p \in c.names, g.cells[p] # Dir, p \notin g.unread,
                 ~(g.cells[p] = Absent /\ p \in c.bare)
          PROVE  g.cells[p] = tree[p]
      <3>1. <<p, g.cells[p]>> \in a.hashes
        BY <2>4, <2>5, <2>7 DEF RestsOn, Watched
      <3> QED
        BY <2>4, <3>1 DEF UnchangedSince
    <2> QED
      BY <2>6, <2>7 DEF c, g, r
  <1> QED
    BY <1>1, <1>2, <1>3, PTL DEF Spec, ApprovalStillHolds


-----------------------------------------------------------------------------
(* The files of long outputs *)

Files == Seq([n : Nat, by : Registry])

(* No file bears a number its writer has not given yet, and a thread with  *)
(* an output to name has a number that no file of its registry bears, as   *)
(* long as no other thread of the registry has named one since.            *)
DumpInv ==
    /\ counter \in [Registry -> Nat]
    /\ dumps \in Files /\ Len(dumps) <= MaxDumps
    /\ \A i \in DOMAIN dumps : dumps[i].n <= counter[dumps[i].by]
    /\ late \subseteq Thread
    /\ \A t \in Thread \ late : thread[t].at = "dumping" =>
          \A i \in DOMAIN dumps :
              dumps[i].by = Owner[t] => dumps[i].n < counter[Owner[t]]

(* The files of e are files of d, of which the writer told the numbers.    *)
From(e, d) ==
    /\ e \in Files /\ Len(e) <= Len(d)
    /\ \A i \in DOMAIN e : \E j \in DOMAIN d : e[i] = d[j]

LEMMA FileOf ==
    ASSUME NEW d \in Files, NEW i \in DOMAIN d
    PROVE  d[i] \in [n : Nat, by : Registry] /\ d[i].n \in Nat /\ d[i].by \in Registry
  <1> DEFINE F == [n : Nat, by : Registry]
  <1>1. d \in Seq(F) /\ i \in 1 .. Len(d)
    BY DEF Files
  <1>2. d[i] \in F
    <2> HIDE DEF F
    <2> QED
      BY <1>1, ElementOfSeq
  <1> QED
    BY <1>2

LEMMA PieceOfFiles ==
    ASSUME NEW d \in Files, NEW m \in 1 .. Len(d) + 1, NEW k \in m - 1 .. Len(d)
    PROVE  /\ SubSeq(d, m, k) \in Files
           /\ Len(SubSeq(d, m, k)) = k - m + 1
           /\ \A i \in 1 .. k - m + 1 : SubSeq(d, m, k)[i] = d[m + i - 1]
  <1> DEFINE F == [n : Nat, by : Registry]
  <1>1. d \in Seq(F) /\ m \in Int /\ k \in Int /\ Len(d) \in Nat
    BY DEF Files
  <1> HIDE DEF F
  <1>2. \A i \in m .. k : d[i] \in F
    BY <1>1, ElementOfSeq
  <1>3. /\ SubSeq(d, m, k) \in Seq(F)
        /\ Len(SubSeq(d, m, k)) = k - m + 1
        /\ \A i \in 1 .. k - m + 1 : SubSeq(d, m, k)[i] = d[m + i - 1]
    BY <1>1, <1>2, SubSeqProperties
  <1> QED
    BY <1>3 DEF F, Files

LEMMA PruneFrom ==
    ASSUME NEW d \in Files, Len(d) <= MaxDumps
    PROVE  From(Prune(d), d) /\ Len(Prune(d)) < MaxDumps
  <1>1. MaxDumps \in Nat \ {0} /\ Len(d) \in Nat
    BY BoundsAssumption DEF Files
  <1>2. CASE Len(d) >= MaxDumps
    <2>1. d # <<>>
      BY <1>1, <1>2, EmptySeq DEF Files
    <2>2. /\ Tail(d) \in Files /\ Len(Tail(d)) = Len(d) - 1
          /\ \A i \in 1 .. Len(Tail(d)) : Tail(d)[i] = d[i + 1]
      BY <2>1, HeadTailProperties DEF Files
    <2>3. \A i \in DOMAIN Tail(d) : i + 1 \in DOMAIN d /\ Tail(d)[i] = d[i + 1]
      BY <1>1, <2>2 DEF Files
    <2>4. Prune(d) = Tail(d)
      BY <1>2 DEF Prune
    <2> QED
      BY <1>1, <2>2, <2>3, <2>4 DEF From
  <1>3. CASE ~(Len(d) >= MaxDumps)
    BY <1>1, <1>3 DEF Prune, From
  <1> QED
    BY <1>2, <1>3

LEMMA OtherFrom ==
    ASSUME NEW d \in Files, NEW n \in Nat
    PROVE  From(Other(n, d), d)
  <1> DEFINE i == CHOOSE i \in DOMAIN d : d[i].n = n
             left == SubSeq(d, 1, i - 1)
             right == SubSeq(d, i + 1, Len(d))
  <1>1. Len(d) \in Nat /\ DOMAIN d = 1 .. Len(d)
    BY DEF Files
  <1>2. CASE \E k \in DOMAIN d : d[k].n = n
    <2>1. i \in 1 .. Len(d)
      BY <1>1, <1>2
    <2> HIDE DEF i
    <2>2. /\ left \in Files /\ Len(left) = i - 1
          /\ \A k \in 1 .. i - 1 : left[k] = d[k]
      <3>1. 1 \in 1 .. Len(d) + 1 /\ i - 1 \in 1 - 1 .. Len(d) /\ (i - 1) - 1 + 1 = i - 1
        BY <1>1, <2>1
      <3>2. \A k \in 1 .. i - 1 : 1 + k - 1 = k
        BY <1>1, <2>1
      <3>3. /\ SubSeq(d, 1, i - 1) \in Files
            /\ Len(SubSeq(d, 1, i - 1)) = (i - 1) - 1 + 1
            /\ \A k \in 1 .. (i - 1) - 1 + 1 : SubSeq(d, 1, i - 1)[k] = d[1 + k - 1]
        BY <3>1, PieceOfFiles
      <3> QED
        BY <3>1, <3>2, <3>3
    <2>3. /\ right \in Files /\ Len(right) = Len(d) - i
          /\ \A k \in 1 .. Len(d) - i : right[k] = d[i + k]
      <3>2. i + 1 \in 1 .. Len(d) + 1 /\ Len(d) \in (i + 1) - 1 .. Len(d)
        BY <1>1, <2>1
      <3>3. /\ SubSeq(d, i + 1, Len(d)) \in Files
            /\ Len(SubSeq(d, i + 1, Len(d))) = Len(d) - (i + 1) + 1
            /\ \A k \in 1 .. Len(d) - (i + 1) + 1 :
                  SubSeq(d, i + 1, Len(d))[k] = d[(i + 1) + k - 1]
        BY <3>2, PieceOfFiles
      <3>4. Len(d) - (i + 1) + 1 = Len(d) - i
        BY <1>1, <2>1
      <3>5. \A k \in 1 .. Len(d) - i : (i + 1) + k - 1 = i + k
        BY <1>1, <2>1
      <3> QED
        BY <3>3, <3>4, <3>5
    <2>4. Other(n, d) = left \o right
      BY <1>2 DEF Other, i
    <2> DEFINE e == left \o right
    <2>5. /\ e \in Files /\ Len(e) = Len(left) + Len(right)
          /\ \A k \in 1 .. Len(left) + Len(right) :
                e[k] = IF k <= Len(left) THEN left[k] ELSE right[k - Len(left)]
      <3> HIDE DEF left, right
      <3> QED
        BY <2>2, <2>3, ConcatProperties DEF Files
    <2> HIDE DEF left, right, e
    <2>6. Len(e) = Len(d) - 1 /\ DOMAIN e = 1 .. Len(d) - 1
      <3>1. Len(e) = Len(d) - 1
        BY <1>1, <2>1, <2>2, <2>3, <2>5
      <3> QED
        BY <2>5, <3>1 DEF Files
    <2>7. ASSUME NEW k \in 1 .. Len(d) - 1
          PROVE  \E j \in DOMAIN d : e[k] = d[j]
      <3>1. k \in 1 .. Len(left) + Len(right)
        BY <1>1, <2>1, <2>2, <2>3
      <3>2. CASE k <= i - 1
        <4>1. e[k] = left[k] /\ k \in 1 .. i - 1 /\ k \in DOMAIN d
          BY <1>1, <2>1, <2>2, <2>5, <3>1, <3>2
        <4> QED
          BY <2>2, <4>1
      <3>3. CASE ~(k <= i - 1)
        <4>1. e[k] = right[k - (i - 1)]
          BY <2>2, <2>5, <3>1, <3>3
        <4>2. k - (i - 1) \in 1 .. Len(d) - i /\ i + (k - (i - 1)) = k + 1 /\ k + 1 \in DOMAIN d
          BY <1>1, <2>1, <3>3
        <4> QED
          BY <2>3, <4>1, <4>2
      <3> QED
        BY <3>2, <3>3
    <2>8. e \in Files /\ Len(e) <= Len(d)
      BY <1>1, <2>5, <2>6
    <2>9. From(e, d)
      BY <2>6, <2>7, <2>8 DEF From
    <2> QED
      BY <2>4, <2>9 DEF e
  <1>3. CASE ~(\E k \in DOMAIN d : d[k].n = n)
    <2>1. Other(n, d) = d
      BY <1>3 DEF Other
    <2> QED
      BY <1>1, <2>1 DEF From
  <1> QED
    BY <1>2, <1>3

LEMMA FromTransitive ==
    ASSUME NEW d \in Files, NEW e, NEW f, From(e, d), From(f, e)
    PROVE  From(f, d)
  <1>1. Len(d) \in Nat /\ Len(e) \in Nat /\ Len(f) \in Nat
    BY DEF From, Files
  <1> QED
    BY <1>1 DEF From

(* A new output gets a file of its own beside what is left of the others.  *)
LEMMA DumpKeeps ==
    ASSUME WorkInv, DumpInv, NEW t \in Thread, WritesOutput(t)
    PROVE  /\ DumpInv'
           /\ dumps' # <<>>
           /\ dumps'[Len(dumps')] = [n |-> counter[Owner[t]], by |-> Owner[t]]
  <1> DEFINE r == Owner[t]
             n == counter[r]
             new == [n |-> n, by |-> r]
             left == Other(n, Prune(dumps))
  <1>0. r \in Registry
    BY RegistryAssumption
  <1>1. n \in Nat /\ counter' = counter
    BY <1>0 DEF DumpInv, Dump, WritesOutput
  <1>2. dumps' = Append(left, new)
    BY <1>1 DEF Dump, WritesOutput
  <1>3. new \in [n : Nat, by : Registry] /\ new.n = n /\ new.by = r
    BY <1>0, <1>1
  <1>4. From(Prune(dumps), dumps) /\ Len(Prune(dumps)) < MaxDumps
    BY PruneFrom DEF DumpInv
  <1>5. From(left, Prune(dumps))
    BY <1>1, <1>4, OtherFrom DEF From
  <1> HIDE DEF new, left
  <1>6. From(left, dumps)
    BY <1>4, <1>5, FromTransitive DEF DumpInv
  <1>7. left \in Files /\ Len(left) \in Nat /\ Len(left) < MaxDumps
    <2>1. Len(Prune(dumps)) \in Nat /\ Len(left) \in Nat /\ Len(left) <= Len(Prune(dumps))
      BY <1>4, <1>5 DEF From, Files
    <2>2. MaxDumps \in Nat
      BY BoundsAssumption
    <2> QED
      BY <1>4, <1>6, <2>1, <2>2 DEF From
  <1>8. /\ dumps' \in Files /\ Len(dumps') = Len(left) + 1
        /\ \A i \in 1 .. Len(left) : dumps'[i] = left[i]
        /\ dumps'[Len(left) + 1] = new
    BY <1>2, <1>3, <1>7, AppendProperties DEF Files
  <1>9. \A i \in DOMAIN dumps' : i \in 1 .. Len(left) \/ i = Len(left) + 1
    BY <1>7, <1>8 DEF Files
  <1>10. Len(dumps') <= MaxDumps
    BY <1>7, <1>8, BoundsAssumption
  <1>11. \A s \in Registry : counter[s] \in Nat /\ counter'[s] = counter[s]
    BY <1>1 DEF DumpInv
  <1>12. ASSUME NEW i \in DOMAIN dumps'
         PROVE  dumps'[i].n <= counter'[dumps'[i].by]
    <2>1. CASE i = Len(left) + 1
      BY <1>1, <1>3, <1>8, <2>1
    <2>2. CASE i \in 1 .. Len(left)
      <3>1. i \in DOMAIN left /\ dumps'[i] = left[i]
        BY <1>7, <1>8, <2>2 DEF Files
      <3>2. PICK j \in DOMAIN dumps : left[i] = dumps[j]
        BY <1>6, <3>1 DEF From
      <3>3. dumps[j].n <= counter[dumps[j].by]
        BY DEF DumpInv
      <3>4. dumps[j].n \in Nat /\ dumps[j].by \in Registry
        BY FileOf DEF DumpInv
      <3> QED
        BY <1>11, <3>1, <3>2, <3>3, <3>4
    <2> QED
      BY <1>9, <2>1, <2>2
  <1>13. counter' \in [Registry -> Nat]
    BY <1>1 DEF DumpInv
  <1>16. late' \subseteq Thread
    BY DEF DumpInv, Dump, WritesOutput
  <1>17. /\ thread'[t].at = "idle"
         /\ \A u \in Thread : u # t => thread'[u] = thread[u]
    BY DEF WritesOutput, Finish, Idle, WorkInv, ThreadInv
  <1>18. ASSUME NEW u \in Thread \ late', thread'[u].at = "dumping",
                NEW i \in DOMAIN dumps', dumps'[i].by = Owner[u]
         PROVE  dumps'[i].n < counter'[Owner[u]]
    <2>1. u # t /\ thread[u].at = "dumping"
      BY <1>17, <1>18
    <2>2. Owner[u] # r /\ u \notin late
      BY <1>18, <2>1 DEF Dump, WritesOutput
    <2>3. i \in 1 .. Len(left)
      BY <1>3, <1>8, <1>9, <1>18, <2>2
    <2>4. i \in DOMAIN left /\ dumps'[i] = left[i]
      BY <1>7, <1>8, <2>3 DEF Files
    <2>5. PICK j \in DOMAIN dumps : left[i] = dumps[j]
      BY <1>6, <2>4 DEF From
    <2>6. dumps[j].n < counter[Owner[u]]
      BY <1>18, <2>1, <2>2, <2>4, <2>5 DEF DumpInv
    <2> QED
      BY <1>1, <2>4, <2>5, <2>6
  <1>14. DumpInv'
    BY <1>8, <1>10, <1>12, <1>13, <1>16, <1>18 DEF DumpInv
  <1>15. dumps' # <<>> /\ dumps'[Len(dumps')] = new
    <2>1. Len(dumps') # 0
      BY <1>7, <1>8
    <2> QED
      BY <1>8, <2>1
  <1> QED
    BY <1>14, <1>15 DEF new

(* Finitely many numbers, if any, have a greatest one.                     *)
LEMMA GreatestExists ==
    ASSUME NEW S \in SUBSET Nat, S # {}, IsFiniteSet(S)
    PROVE  \E m \in S : \A s \in S : s <= m
  <1> DEFINE Greater(s) == {t \in S : t > s}
             Greaters == {Greater(s) : s \in S}
  <1>1. Greaters \subseteq FiniteSubsetsOf(S) /\ Greaters # {}
    <2>1. Greaters \subseteq SUBSET S
      OBVIOUS
    <2>2. Greaters # {}
      OBVIOUS
    <2> HIDE DEF Greaters
    <2> QED
      BY <2>1, <2>2, FS_FiniteSubsetsOfFinite
  <1>2. PICK L \in Greaters : \A M \in Greaters : ~(<<M, L>> \in StrictSubsetOrdering(S))
    <2> HIDE DEF Greaters
    <2> QED
      BY <1>1, WFMin, FS_StrictSubsetOrderingWellFounded, Zenon
  <1>3. PICK m \in S : L = Greater(m)
    OBVIOUS
  <1>4. \A s \in S : s <= m
    <2> SUFFICES ASSUME NEW s \in S, s > m
                 PROVE  FALSE
      OBVIOUS
    <2>1. Greater(s) \in SUBSET S /\ Greater(m) \in SUBSET S
      OBVIOUS
    <2>2. Greater(s) \subseteq Greater(m)
      <3> SUFFICES ASSUME NEW t \in S, t > s
                   PROVE  t > m
        OBVIOUS
      <3>1. s \in Nat /\ m \in Nat /\ t \in Nat
        OBVIOUS
      <3> QED
        BY <3>1
    <2>3. s \in Greater(m) /\ s \notin Greater(s)
      OBVIOUS
    <2>4. <<Greater(s), L>> \in StrictSubsetOrdering(S)
      BY <1>3, <2>1, <2>2, <2>3 DEF StrictSubsetOrdering
    <2> QED
      BY <1>2, <2>4
  <1> QED
    BY <1>4

(* __init__ starts behind the highest number it finds.                     *)
LEMMA SeenIsHighest ==
    ASSUME DumpInv
    PROVE  NumbersSeen \in Nat /\ \A i \in DOMAIN dumps : dumps[i].n <= NumbersSeen
  <1> DEFINE S == {dumps[i].n : i \in DOMAIN dumps}
  <1>1. Len(dumps) \in Nat /\ DOMAIN dumps = 1 .. Len(dumps)
    BY DEF DumpInv, Files
  <1>2. \A i \in DOMAIN dumps : dumps[i].n \in Nat
    BY FileOf DEF DumpInv
  <1>3. CASE dumps = <<>>
    <2>1. DOMAIN dumps = {}
      BY <1>3
    <2> QED
      BY <1>3, <2>1 DEF NumbersSeen
  <1>4. CASE dumps # <<>>
    <2>1. S \subseteq Nat
      BY <1>2
    <2>2. S # {}
      <3>1. 1 \in DOMAIN dumps
        BY <1>1, <1>4, EmptySeq DEF DumpInv, Files
      <3> QED
        BY <3>1
    <2>3. IsFiniteSet(S)
      <3> DEFINE number == [i \in DOMAIN dumps |-> dumps[i].n]
      <3>1. number \in Surjection(DOMAIN dumps, S)
        BY DEF Surjection
      <3>2. IsFiniteSet(DOMAIN dumps)
        BY <1>1, FS_Interval
      <3> HIDE DEF number, S
      <3> QED
        BY <3>1, <3>2, FS_Surjection
    <2>4. \E m \in S : \A s \in S : s <= m
      <3> HIDE DEF S
      <3> QED
        BY <2>1, <2>2, <2>3, GreatestExists
    <2>5. \E m \in S : \A i \in DOMAIN dumps : dumps[i].n <= m
      BY <2>4
    <2>6. NumbersSeen = CHOOSE m \in S : \A i \in DOMAIN dumps : dumps[i].n <= m
      BY <1>4 DEF NumbersSeen
    <2> QED
      BY <2>1, <2>5, <2>6
  <1> QED
    BY <1>3, <1>4

LEMMA InitDump == Init => DumpInv
  <1> SUFFICES ASSUME Init
               PROVE  DumpInv
    OBVIOUS
  <1>1. dumps = <<>> /\ counter = [r \in Registry |-> 0]
    BY DEF Init
  <1>2. dumps \in Files /\ Len(dumps) = 0 /\ DOMAIN dumps = {} /\ late = {}
    BY <1>1 DEF Files, Init
  <1> QED
    BY <1>1, <1>2, BoundsAssumption DEF DumpInv

(* While no one takes a number or names a file, and no one comes to.       *)
LEMMA NoDumpKeeps ==
    ASSUME DumpInv, UNCHANGED <<counter, dumps, late>>,
           \A u \in Thread : thread'[u].at = "dumping" => thread[u].at = "dumping"
    PROVE  DumpInv'
  BY DEF DumpInv

(* A number that no file of the registry bears.                            *)
LEMMA NumberKeeps ==
    ASSUME WorkInv, DumpInv, NEW t \in Thread, TakeNumber(t),
           \A u \in Thread : u # t => thread'[u] = thread[u]
    PROVE  DumpInv' /\ dumps' = dumps
  <1>1. /\ Owner[t] \in Registry
        /\ counter' = [counter EXCEPT ![Owner[t]] = @ + 1]
        /\ late' = late \ {t} /\ dumps' = dumps
    BY RegistryAssumption DEF TakeNumber
  <1>2. /\ counter' \in [Registry -> Nat]
        /\ counter'[Owner[t]] = counter[Owner[t]] + 1
        /\ \A s \in Registry : counter[s] \in Nat /\ (s # Owner[t] => counter'[s] = counter[s])
    BY <1>1 DEF DumpInv
  <1>3. \A i \in DOMAIN dumps :
           /\ dumps[i].n \in Nat /\ dumps[i].by \in Registry
           /\ dumps[i].n <= counter[dumps[i].by]
    BY FileOf DEF DumpInv
  <1>4. ASSUME NEW i \in DOMAIN dumps
        PROVE  /\ dumps[i].n <= counter'[dumps[i].by]
               /\ dumps[i].by = Owner[t] => dumps[i].n < counter'[Owner[t]]
    <2>1. CASE dumps[i].by = Owner[t]
      BY <1>1, <1>2, <1>3, <2>1
    <2>2. CASE dumps[i].by # Owner[t]
      BY <1>2, <1>3, <2>2
    <2> QED
      BY <2>1, <2>2
  <1>5. ASSUME NEW u \in Thread \ late', thread'[u].at = "dumping",
               NEW i \in DOMAIN dumps, dumps[i].by = Owner[u]
        PROVE  dumps[i].n < counter'[Owner[u]]
    <2>1. CASE Owner[u] = Owner[t]
      BY <1>4, <1>5, <2>1
    <2>2. CASE Owner[u] # Owner[t]
      <3>1. u # t /\ u \notin late /\ thread[u].at = "dumping"
        BY <1>1, <1>5, <2>2
      <3>2. Owner[u] \in Registry
        BY RegistryAssumption
      <3> QED
        BY <1>2, <1>5, <2>2, <3>1, <3>2 DEF DumpInv
    <2> QED
      BY <2>1, <2>2
  <1> QED
    BY <1>1, <1>2, <1>4, <1>5 DEF DumpInv

(* A step writes a file for a thread, or leaves the files as they are.     *)
LEMMA NextDump ==
    ASSUME WorkInv, DumpInv, [Next]_vars
    PROVE  /\ DumpInv'
           /\ (dumps' = dumps \/ \E t \in Thread : WritesOutput(t))
  <1> DEFINE Quiet == /\ UNCHANGED <<counter, dumps, late>>
                      /\ \A u \in Thread :
                            thread'[u].at = "dumping" => thread[u].at = "dumping"
  <1>0. Idle.at = "idle" /\ thread \in [Thread -> ThreadType]
    BY DEF Idle, WorkInv, ThreadInv
  <1>1. ASSUME Quiet
        PROVE  DumpInv' /\ dumps' = dumps
    BY <1>1, NoDumpKeeps
  <1>2. ASSUME NEW t \in Thread, NEW x, x.at # "dumping",
               thread' = [thread EXCEPT ![t] = x], UNCHANGED <<counter, dumps, late>>
        PROVE  Quiet
    BY <1>0, <1>2
  <1>3. ASSUME NEW t \in Thread, NEW c \in Call, NEW age \in Nat, Handle(t, c, age),
               UNCHANGED <<counter, dumps, late>>
        PROVE  Quiet
    BY <1>0, <1>3, HandleThread
  <1>4. ASSUME NEW r \in Registry, NEW t \in Thread, NEW c \in Call,
               Reject(r, t, c) \/ Allowed(r, t, c) \/ ChangedSince(r, t, c)
        PROVE  Quiet
    <2>1. UNCHANGED <<counter, dumps, late>>
      BY <1>4 DEF Reject, Allowed, ChangedSince, NoDump
    <2>2. CASE Allowed(r, t, c)
      <3>1. Handle(t, c, 0)
        BY <2>2 DEF Allowed
      <3> QED
        BY <1>3, <2>1, <3>1
    <2>3. CASE Reject(r, t, c) \/ ChangedSince(r, t, c)
      BY <2>1, <2>3 DEF Reject, ChangedSince
    <2> QED
      BY <1>4, <2>2, <2>3
  <1>5. ASSUME NEW r \in Registry, NEW t \in Thread, NEW c \in Call,
               AskUser(r, t, c) \/ RunApproved(r, t, c)
        PROVE  Quiet
    <2> DEFINE x(at) == [Idle EXCEPT !.at = at, !.call = c]
    <2>1. x("prompt").at = "prompt" /\ x("checked").at = "checked"
      BY DEF Idle
    <2>2. UNCHANGED <<counter, dumps, late>>
      BY <1>5 DEF AskUser, RunApproved, NoDump
    <2>3. \/ thread' = [thread EXCEPT ![t] = x("prompt")]
          \/ thread' = [thread EXCEPT ![t] = x("checked")]
      BY <1>5 DEF AskUser, RunApproved
    <2> HIDE DEF x
    <2> QED
      BY <1>2, <2>1, <2>2, <2>3
  <1>6. ASSUME NEW t \in Thread, SaysYes(t)
        PROVE  Quiet
    <2>1. thread[t].call \in Call /\ thread[t].age \in Nat
      BY <1>6 DEF SaysYes, Reads, WorkInv, ThreadInv, ThreadType
    <2>2. Handle(t, thread[t].call, thread[t].age) /\ UNCHANGED <<counter, dumps, late>>
      BY <1>6 DEF SaysYes, NoDump
    <2> QED
      BY <1>3, <2>1, <2>2
  <1>7. ASSUME NEW t \in Thread, SaysNo(t) \/ TimesOut(t)
        PROVE  Quiet
    BY <1>0, <1>2, <1>7 DEF SaysNo, TimesOut, Finish, NoDump
  <1>8. ASSUME NEW t \in Thread, Works(t)
        PROVE  Quiet
    BY <1>8 DEF Works
  <1>9. ASSUME NEW t \in Thread, Starts(t)
        PROVE  Quiet
    <2> DEFINE x == [thread[t] EXCEPT !.at = "running", !.started = thread[t].age]
    <2>1. x.at = "running"
      BY <1>0 DEF ThreadType
    <2>2. thread' = [thread EXCEPT ![t] = x] /\ UNCHANGED <<counter, dumps, late>>
      BY <1>9 DEF Starts, NoDump
    <2> HIDE DEF x
    <2> QED
      BY <1>2, <2>1, <2>2
  <1>10. ASSUME NEW t \in Thread, Exits(t) \/ SkillReturns(t)
         PROVE  DumpInv' /\ dumps' = dumps
    <2>1. Answers(t)
      BY <1>10 DEF Exits, SkillReturns
    <2>2. CASE Finish(t) /\ NoDump
      BY <1>0, <1>1, <1>2, <2>2 DEF Finish, NoDump
    <2>3. CASE /\ TakeNumber(t)
               /\ thread' = [thread EXCEPT ![t] = [@ EXCEPT !.at = "dumping"]]
      <3>1. \A u \in Thread : u # t => thread'[u] = thread[u]
        BY <1>0, <2>3
      <3> QED
        BY <2>3, <3>1, NumberKeeps
    <2> QED
      BY <2>1, <2>2, <2>3 DEF Answers
  <1>11. ASSUME NEW r \in Registry, GiveUp(r)
         PROVE  Quiet
    BY <1>11 DEF GiveUp
  <1>12. ASSUME NEW r \in Registry, Restart(r)
         PROVE  DumpInv' /\ dumps' = dumps
    <2>1. /\ counter' = [counter EXCEPT ![r] = NumbersSeen] /\ dumps' = dumps
          /\ late' = late \ {t \in Thread : Owner[t] = r}
          /\ thread' = [t \in Thread |-> IF Owner[t] = r THEN Idle ELSE thread[t]]
      BY <1>12 DEF Restart
    <2>2. NumbersSeen \in Nat /\ \A i \in DOMAIN dumps : dumps[i].n <= NumbersSeen
      BY SeenIsHighest
    <2>3. counter' \in [Registry -> Nat]
      BY <2>1, <2>2 DEF DumpInv
    <2>4. ASSUME NEW i \in DOMAIN dumps
          PROVE  dumps[i].n <= counter'[dumps[i].by]
      <3> DEFINE s == dumps[i].by
      <3>1. dumps[i].n \in Nat
        BY FileOf DEF DumpInv
      <3>2. s \in Registry
        BY FileOf DEF DumpInv
      <3>3. counter'[s] = IF s = r THEN NumbersSeen ELSE counter[s]
        BY <2>1, <3>2 DEF DumpInv
      <3>4. dumps[i].n <= counter[s] /\ dumps[i].n <= NumbersSeen
        BY <2>2 DEF DumpInv
      <3> HIDE DEF s
      <3>5. dumps[i].n <= counter'[s]
        BY <3>3, <3>4
      <3> QED
        BY <3>5 DEF s
    <2>5. ASSUME NEW u \in Thread \ late', thread'[u].at = "dumping",
                 NEW i \in DOMAIN dumps, dumps[i].by = Owner[u]
          PROVE  dumps[i].n < counter'[Owner[u]]
      <3>1. Owner[u] # r /\ thread'[u] = thread[u]
        BY <1>0, <2>1, <2>5
      <3>2. u \notin late /\ Owner[u] \in Registry
        BY <2>1, <2>5, <3>1, RegistryAssumption
      <3>3. counter'[Owner[u]] = counter[Owner[u]]
        BY <2>1, <3>1, <3>2 DEF DumpInv
      <3> QED
        BY <2>5, <3>1, <3>2, <3>3 DEF DumpInv
    <2> QED
      BY <2>1, <2>3, <2>4, <2>5 DEF DumpInv
  <1>13. ASSUME Tick
         PROVE  Quiet
    <2>1. UNCHANGED <<counter, dumps, late>>
      BY <1>13 DEF Tick
    <2> QED
      BY <1>13, <2>1, TickThread DEF WorkInv
  <1>14. ASSUME UNCHANGED vars
         PROVE  Quiet
    BY <1>14 DEF vars
  <1>15. ASSUME NEW t \in Thread, WritesOutput(t)
         PROVE  DumpInv' /\ \E u \in Thread : WritesOutput(u)
    BY <1>15, DumpKeeps
  <1> HIDE DEF Quiet
  <1> QED
    BY <1>1, <1>4, <1>5, <1>6, <1>7, <1>8, <1>9, <1>10, <1>11, <1>12, <1>13, <1>14, <1>15,
       ZenonT(60) DEF Next

(* For every number of files kept and whoever else writes and prunes       *)
(* them: a registry never writes a long output over an earlier one of its  *)
(* own, because its numbers only grow, across its restarts too; unless two *)
(* of its threads have one to name at the same time.                       *)
THEOREM OwnOutputIsKept == Spec => OwnOutputKept
  <1> DEFINE Keeps == \A t \in Thread \ late :
                (thread[t].at = "dumping" /\ dumps' # dumps /\ thread'[t].at = "idle")
                => \A i \in DOMAIN dumps :
                      dumps[i].by = Owner[t] => dumps[i].n # dumps'[Len(dumps')].n
  <1>1. WorkInv /\ DumpInv /\ [Next]_vars => WorkInv' /\ DumpInv'
    BY NextWork, NextDump
  <1>2. WorkInv /\ DumpInv /\ [Next]_vars => [Keeps]_vars
    <2> SUFFICES ASSUME WorkInv, DumpInv, [Next]_vars, NEW t \in Thread \ late,
                        thread[t].at = "dumping", dumps' # dumps, thread'[t].at = "idle",
                        NEW i \in DOMAIN dumps, dumps[i].by = Owner[t]
                 PROVE  dumps[i].n # dumps'[Len(dumps')].n
      OBVIOUS
    <2>1. PICK s \in Thread : WritesOutput(s)
      BY NextDump
    <2>2. s = t
      BY <2>1 DEF WritesOutput, Finish, WorkInv, ThreadInv
    <2>3. dumps'[Len(dumps')] = [n |-> counter[Owner[t]], by |-> Owner[t]]
      BY <2>1, <2>2, DumpKeeps
    <2>4. dumps'[Len(dumps')].n = counter[Owner[t]]
      BY <2>3
    <2>5. dumps[i].n < counter[Owner[t]]
      BY DEF DumpInv
    <2>6. dumps[i].n \in Nat /\ counter[Owner[t]] \in Nat
      BY FileOf, RegistryAssumption DEF DumpInv
    <2> QED
      BY <2>4, <2>5, <2>6
  <1> QED
    BY InitWork, InitDump, <1>1, <1>2, PTL DEF Spec, OwnOutputKept

-----------------------------------------------------------------------------
(* The state of the registries keeps its types, no more outputs are kept   *)
(* than MAX_DUMP_FILES, and the loop waits for busy threads of its own.    *)
THEOREM TypeCorrect == Spec => []TypeOK
  <1> DEFINE Inv == WorkInv /\ LoopInv /\ AnswersInv /\ DumpInv /\ calls \in Nat
  <1>1. Init => Inv
    BY InitWork, InitLoop, InitAnswers, InitDump DEF Init
  <1>2. Inv /\ [Next]_vars => Inv'
    <2> SUFFICES ASSUME Inv, [Next]_vars
                 PROVE  Inv'
      OBVIOUS
    <2>1. WorkInv' /\ LoopInv' /\ AnswersInv' /\ DumpInv'
      BY NextWork, NextLoop, NextAnswers, NextDump
    <2>2. calls' \in {calls, calls + 1}
      <3>1. ASSUME NEW r \in Registry, NEW t \in Thread, NEW c \in Call,
                   \/ Reject(r, t, c) \/ Allowed(r, t, c) \/ RunApproved(r, t, c)
                   \/ ChangedSince(r, t, c) \/ AskUser(r, t, c)
            PROVE  calls' = calls + 1
        BY <3>1 DEF Reject, Allowed, RunApproved, ChangedSince, AskUser, Dispatch
      <3>2. ASSUME NEW t \in Thread,
                   \/ SaysYes(t) \/ SaysNo(t) \/ Works(t)
                   \/ Exits(t) \/ SkillReturns(t) \/ TimesOut(t)
                   \/ Starts(t) \/ WritesOutput(t)
            PROVE  calls' = calls
        BY <3>2 DEF SaysYes, SaysNo, Works, Exits, SkillReturns, Answers, TimesOut, Starts,
                    WritesOutput, bounds
      <3>3. ASSUME NEW r \in Registry, GiveUp(r) \/ Restart(r)
            PROVE  calls' = calls
        BY <3>3 DEF GiveUp, Restart, bounds
      <3>4. ASSUME Tick \/ UNCHANGED vars
            PROVE  calls' = calls
        BY <3>4 DEF Tick, vars, bounds
      <3> QED
        BY <3>1, <3>2, <3>3, <3>4, ZenonT(60) DEF Next
    <2> QED
      BY <2>1, <2>2
  <1>3. Inv => TypeOK
    BY DEF TypeOK, WorkInv, TreeInv, ThreadInv, LoopInv, TurnInv, AnswersInv, DumpInv, Files
  <1> QED
    BY <1>1, <1>2, <1>3, PTL DEF Spec
=============================================================================

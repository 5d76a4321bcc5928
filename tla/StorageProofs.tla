--------------------------- MODULE StorageProofs ----------------------------
(***************************************************************************)
(* Keys stay inside and mean the same to both stores, however long they    *)
(* are; Storage keeps its invariant, implements AtomicStore and leaves no  *)
(* stray temporary file, for any keys, callers and sizes.                  *)
(***************************************************************************)
EXTENDS Storage, StorageKey, Folding

(***************************************************************************)
(* Keys: path.Clean as a walk along the segments.                          *)
(***************************************************************************)

IsCleaning(it, path) ==
    it = [s \in SUBSET DOMAIN path |->
            IF s = {} THEN <<>>
            ELSE AddSegment(it[s \ {Max(s)}], path[Max(s)])]

LEMMA CleanDef ==
    ASSUME NEW path
    PROVE  Clean(path) = (CHOOSE it : IsCleaning(it, path))[DOMAIN path]
  BY DEF Clean, FoldLeft, MapThenFoldSet, IsCleaning


LEMMA AddSegmentType ==
    ASSUME NEW T, NEW path \in Seq(T), NEW segment \in T
    PROVE  AddSegment(path, segment) \in Seq(T)
<1>1. CASE segment \in {"", "."}
  BY <1>1 DEF AddSegment
<1>2. CASE segment = ".." /\ path # <<>> /\ Last(path) # ".."
  BY <1>2 DEF AddSegment, Front
<1>3. CASE /\ segment \notin {"", "."}
           /\ ~ (segment = ".." /\ path # <<>> /\ Last(path) # "..")
  <2>1. AddSegment(path, segment) = Append(path, segment)
    BY <1>3, Zenon DEF AddSegment
  <2> QED
    BY <2>1
<1> QED
  BY <1>1, <1>2, <1>3

\* Cleaning a path goes along it, one segment at a time.
IsWalk(walk, path, T) ==
    /\ walk \in [0 .. Len(path) -> Seq(T)]
    /\ walk[0] = <<>>
    /\ \A n \in 0 .. Len(path) - 1 :
          walk[n + 1] = AddSegment(walk[n], path[n + 1])

LEMMA CleanWalk ==
    ASSUME NEW T, NEW path \in Seq(T)
    PROVE  \E walk : IsWalk(walk, path, T) /\ Clean(path) = walk[Len(path)]
<1> DEFINE k == Len(path)
           V == Seq(T)
           g == [vi \in V \X (1 .. k) |-> AddSegment(vi[1], path[vi[2]])]
<1>1. k \in Nat /\ DOMAIN path = 1 .. k /\ \A i \in 1 .. k : path[i] \in T
  OBVIOUS
<1>2. \A v \in V, i \in 1 .. k :
        g[<<v, i>>] = AddSegment(v, path[i]) /\ g[<<v, i>>] \in V
  BY <1>1, AddSegmentType
<1>3. \A s \in SUBSET (1 .. k) : s # {} => Max(s) \in 1 .. k
  BY <1>1, LastOfSome
<1>4. <<>> \in V
  OBVIOUS
<1> HIDE DEF g, V, k
<1>5. k \in Nat /\ ClosedOn(g, k, V)
  BY <1>1, <1>2 DEF ClosedOn
<1>6. PICK jt : IsLeftFold(jt, <<>>, g, k, V)
  BY <1>4, <1>5, FoldLeftExists
<1>7. IsCleaning(jt, path)
  <2>1. ASSUME NEW s \in SUBSET (1 .. k)
        PROVE  jt[s] = IF s = {} THEN <<>> ELSE AddSegment(jt[s \ {Max(s)}], path[Max(s)])
    <3>1. CASE s = {}
      BY <1>6, <3>1 DEF IsLeftFold
    <3>2. CASE s # {}
      <4>1. Max(s) \in 1 .. k /\ jt[s \ {Max(s)}] \in V
        BY <1>3, <1>6, <3>2 DEF IsLeftFold
      <4> QED
        BY <1>2, <1>6, <3>2, <4>1 DEF IsLeftFold
    <3> QED
      BY <3>1, <3>2
  <2> QED
    BY <1>1, <1>6, <2>1 DEF IsCleaning, IsLeftFold
<1>8. PICK it : IsCleaning(it, path) /\ Clean(path) = it[1 .. k]
  BY <1>1, <1>7, CleanDef
<1>9. \A s \in SUBSET (1 .. k) :
        it[s] = IF s = {} THEN <<>> ELSE AddSegment(it[s \ {Max(s)}], path[Max(s)])
  BY <1>1, <1>8 DEF IsCleaning
<1>10. PICK walk : GoesAlong(walk, <<>>, g, k, V) /\ walk[k] = it[1 .. k]
  <2>1. it[{}] = <<>>
    BY <1>9, Zenon
  <2>2. ASSUME NEW s \in SUBSET (1 .. k), s # {}, it[s \ {Max(s)}] \in V
        PROVE  it[s] = g[<<it[s \ {Max(s)}], Max(s)>>]
    BY <1>2, <1>3, <1>9, <2>2
  <2>3. FoldsWith(it, <<>>, g, k, V)
    BY <2>1, <2>2 DEF FoldsWith
  <2> QED
    BY <1>4, <1>5, <2>3, FoldLeftWalk
<1>11. \A n \in 0 .. k - 1 : walk[n + 1] = AddSegment(walk[n], path[n + 1])
  <2> TAKE n \in 0 .. k - 1
  <2>1. n \in 0 .. k /\ n + 1 \in 1 .. k
    BY <1>1
  <2>2. walk[n] \in V
    BY <1>10, <2>1 DEF GoesAlong
  <2> QED
    BY <1>2, <1>10, <2>1, <2>2 DEF GoesAlong
<1> QED
  BY <1>8, <1>10, <1>11 DEF GoesAlong, IsWalk, V, k

----------------------------------------------------------------------------
(* Depth.                                                                  *)

LEMMA CountStep ==
    ASSUME NEW key, NEW n \in Nat, NEW S
    PROVE  /\ Count(key, n, S) \in Nat
           /\ key[n + 1] \in S => Count(key, n + 1, S) = Count(key, n, S) + 1
           /\ key[n + 1] \notin S => Count(key, n + 1, S) = Count(key, n, S)
<1> DEFINE A == {i \in 1 .. n : key[i] \in S}
           B == {i \in 1 .. n + 1 : key[i] \in S}
<1>1. IsFiniteSet(A)
  <2>1. IsFiniteSet(1 .. n)
    BY FS_Interval
  <2> QED
    BY <2>1, FS_Subset
<1>2. n + 1 \notin A
  OBVIOUS
<1>3. B = IF key[n + 1] \in S THEN A \cup {n + 1} ELSE A
  OBVIOUS
<1>4. Cardinality(A) \in Nat /\ Cardinality(A \cup {n + 1}) = Cardinality(A) + 1
  <2> HIDE DEF A
  <2> QED
    BY <1>1, <1>2, FS_CardinalityType, FS_AddElement
<1>5. Count(key, n, S) = Cardinality(A) /\ Count(key, n + 1, S) = Cardinality(B)
  BY DEF Count
<1> HIDE DEF A, B
<1> QED
  BY <1>3, <1>4, <1>5

LEMMA DepthStarts ==
    ASSUME NEW key
    PROVE  Depth(key, 0) = 0
<1>1. \A S : Count(key, 0, S) = 0
  <2> TAKE S
  <2>1. {i \in 1 .. 0 : key[i] \in S} = {}
    OBVIOUS
  <2> QED
    BY <2>1, FS_EmptySet DEF Count
<1> QED
  BY <1>1 DEF Depth

Proper == Names \cup {Drive}

LEMMA ProperSegments ==
    /\ Proper \cap {"", ".", ".."} = {}
    /\ Segments = Proper \cup {"", ".", ".."}
  BY StorageKeyAssumption DEF Proper, Segments, Drive

LEMMA DepthIsInt ==
    ASSUME NEW key, NEW n \in Nat
    PROVE  Depth(key, n) \in Int
<1>1. Count(key, n, Names \cup {Drive}) \in Nat /\ Count(key, n, {".."}) \in Nat
  BY CountStep
<1> QED
  BY <1>1 DEF Depth

LEMMA DepthStep ==
    ASSUME NEW key \in Seq(Segments), NEW n \in 0 .. Len(key) - 1
    PROVE  /\ Depth(key, n) \in Int
           /\ key[n + 1] \in {"", "."} => Depth(key, n + 1) = Depth(key, n)
           /\ key[n + 1] = ".." => Depth(key, n + 1) = Depth(key, n) - 1
           /\ key[n + 1] \in Proper => Depth(key, n + 1) = Depth(key, n) + 1
<1> DEFINE segment == key[n + 1]
           up == Count(key, n, {".."})
           down == Count(key, n, Proper)
           up1 == Count(key, n + 1, {".."})
           down1 == Count(key, n + 1, Proper)
<1>1. Depth(key, n) = down - up /\ Depth(key, n + 1) = down1 - up1
  BY DEF Depth, Proper
<1>2. /\ up \in Nat
      /\ segment \in {".."} => up1 = up + 1
      /\ segment \notin {".."} => up1 = up
      /\ down \in Nat
      /\ segment \in Proper => down1 = down + 1
      /\ segment \notin Proper => down1 = down
  BY CountStep
<1> HIDE DEF up, down, up1, down1, segment
<1>3. /\ segment \in {"", "."} => segment \notin Proper /\ segment \notin {".."}
      /\ segment \in Proper => segment \notin {".."}
      /\ segment = ".." => segment \in {".."} /\ segment \notin Proper
  BY ProperSegments
<1>4. Depth(key, n) \in Int
  BY <1>1, <1>2
<1>5. ASSUME segment \in {"", "."} PROVE Depth(key, n + 1) = Depth(key, n)
  <2>1. up1 = up /\ down1 = down
    BY <1>2, <1>3, <1>5, Zenon
  <2> QED
    BY <1>1, <2>1
<1>6. ASSUME segment \in Proper PROVE Depth(key, n + 1) = Depth(key, n) + 1
  <2>1. up1 = up /\ down1 = down + 1
    BY <1>2, <1>3, <1>6, Zenon
  <2> QED
    BY <1>1, <1>2, <2>1
<1>7. ASSUME segment = ".." PROVE Depth(key, n + 1) = Depth(key, n) - 1
  <2>1. up1 = up + 1 /\ down1 = down
    BY <1>2, <1>3, <1>7, Zenon
  <2> QED
    BY <1>1, <1>2, <2>1
<1> QED
  BY <1>4, <1>5, <1>6, <1>7 DEF segment

\* A path that has left the root stays outside.
LEMMA OutsideStays ==
    ASSUME NEW T, NEW path \in Seq(T), NEW segment, path # <<>>, Head(path) = ".."
    PROVE  LET next == AddSegment(path, segment)
           IN  next # <<>> /\ Head(next) = ".."
<1>1. CASE segment \in {"", "."}
  BY <1>1 DEF AddSegment
<1>2. CASE segment = ".." /\ Last(path) # ".."
  <2>1. AddSegment(path, segment) = Front(path)
    BY <1>2 DEF AddSegment
  <2>2. Len(path) \in Nat /\ Len(path) >= 2
    BY <1>2 DEF Last
  <2>3. Len(Front(path)) = Len(path) - 1 /\ Front(path)[1] = path[1]
    BY <2>2 DEF Front
  <2>4. Front(path) # <<>>
    BY <2>2, <2>3
  <2> QED
    BY <2>1, <2>3, <2>4
<1>3. CASE /\ segment \notin {"", "."}
           /\ ~ (segment = ".." /\ Last(path) # "..")
  <2>1. AddSegment(path, segment) = Append(path, segment)
    BY <1>3, Zenon DEF AddSegment
  <2> QED
    BY <2>1
<1> QED
  BY <1>1, <1>2, <1>3

Inside(key, walk, n) ==
    /\ \A m \in 0 .. n : Depth(key, m) >= 0
    /\ walk[n] \in Seq(Proper)
    /\ Len(walk[n]) = Depth(key, n)

Outside(key, walk, n) ==
    /\ \E m \in 1 .. n : Depth(key, m) < 0
    /\ walk[n] # <<>>
    /\ Head(walk[n]) = ".."

LEMMA InsideStep ==
    ASSUME NEW key \in Seq(Segments), NEW walk, IsWalk(walk, key, Segments),
           NEW n \in 0 .. Len(key) - 1, Inside(key, walk, n)
    PROVE  Inside(key, walk, n + 1) \/ Outside(key, walk, n + 1)
<1> DEFINE path == walk[n]
           segment == key[n + 1]
<1>1. path \in Seq(Proper) /\ Len(path) = Depth(key, n)
      /\ \A m \in 0 .. n : Depth(key, m) >= 0
  BY DEF Inside
<1>2. walk[n + 1] = AddSegment(path, segment)
  BY DEF IsWalk
<1>3. segment \in Segments
  OBVIOUS
<1>4. \A m \in 0 .. n + 1 : m \in 0 .. n \/ m = n + 1
  OBVIOUS
<1> HIDE DEF path, segment
<1>5. CASE segment \in {"", "."}
  <2>1. walk[n + 1] = path
    BY <1>2, <1>5 DEF AddSegment
  <2>2. Depth(key, n + 1) = Depth(key, n) /\ Depth(key, n) \in Int
    BY <1>5, DepthStep DEF segment
  <2> QED
    BY <1>1, <1>4, <2>1, <2>2 DEF Inside
<1>6. CASE segment = ".." /\ path # <<>>
  <2>1. Last(path) # ".."
    <3>1. Len(path) \in 1 .. Len(path)
      BY <1>1, <1>6
    <3>2. path[Len(path)] \in Proper
      BY <1>1, <3>1
    <3> QED
      BY <3>2, ProperSegments DEF Last
  <2>2. walk[n + 1] = Front(path)
    BY <1>2, <1>6, <2>1 DEF AddSegment
  <2>3. Front(path) \in Seq(Proper) /\ Len(Front(path)) = Len(path) - 1
        /\ Len(path) - 1 >= 0
    BY <1>1, <1>6 DEF Front
  <2>4. Depth(key, n + 1) = Depth(key, n) - 1 /\ Depth(key, n) \in Int
    BY <1>6, DepthStep DEF segment
  <2> QED
    BY <1>1, <1>4, <2>2, <2>3, <2>4 DEF Inside
<1>7. CASE segment = ".." /\ path = <<>>
  <2>1. walk[n + 1] = <<"..">>
    BY <1>2, <1>7 DEF AddSegment
  <2>2. Depth(key, n + 1) = Depth(key, n) - 1 /\ Depth(key, n) = 0
    <3>1. Len(path) = 0
      BY <1>7
    <3> QED
      BY <1>1, <1>7, <3>1, DepthStep DEF segment
  <2>3. n + 1 \in 1 .. n + 1 /\ Depth(key, n + 1) < 0
    BY <2>2
  <2> QED
    BY <2>1, <2>3 DEF Outside
<1>8. CASE segment \in Proper
  <2>1. walk[n + 1] = Append(path, segment)
    BY <1>2, <1>8, ProperSegments DEF AddSegment
  <2>2. Append(path, segment) \in Seq(Proper)
        /\ Len(Append(path, segment)) = Len(path) + 1
    BY <1>1, <1>8
  <2>3. Depth(key, n + 1) = Depth(key, n) + 1 /\ Depth(key, n) \in Int
    BY <1>8, DepthStep DEF segment
  <2>4. Depth(key, n) >= 0
    BY <1>1
  <2> QED
    BY <1>1, <1>4, <2>1, <2>2, <2>3, <2>4 DEF Inside
<1> QED
  BY <1>3, <1>5, <1>6, <1>7, <1>8, ProperSegments

LEMMA WalkDepth ==
    ASSUME NEW key \in Seq(Segments), NEW walk, IsWalk(walk, key, Segments)
    PROVE  Inside(key, walk, Len(key)) \/ Outside(key, walk, Len(key))
<1> DEFINE k == Len(key)
           Q == {n \in 0 .. k : Inside(key, walk, n) \/ Outside(key, walk, n)}
<1>1. k \in Nat
  OBVIOUS
<1>2. 0 \in Q
  <2>1. \A m \in 0 .. 0 : m = 0
    OBVIOUS
  <2>2. walk[0] = <<>>
    BY DEF IsWalk
  <2>3. Inside(key, walk, 0)
    BY <2>1, <2>2, DepthStarts DEF Inside
  <2> QED
    BY <1>1, <2>3
<1>3. ASSUME NEW n \in 0 .. k - 1, n \in Q PROVE n + 1 \in Q
  <2>1. CASE Inside(key, walk, n)
    <3>1. Inside(key, walk, n + 1) \/ Outside(key, walk, n + 1)
      BY <2>1, InsideStep
    <3> QED
      BY <3>1
  <2>2. CASE Outside(key, walk, n)
    <3>1. walk[n] \in Seq(Segments) /\ walk[n + 1] = AddSegment(walk[n], key[n + 1])
      BY DEF IsWalk
    <3>2. walk[n + 1] # <<>> /\ Head(walk[n + 1]) = ".."
      BY <2>2, <3>1, OutsideStays DEF Outside
    <3>3. \E m \in 1 .. n + 1 : Depth(key, m) < 0
      BY <2>2 DEF Outside
    <3>4. Outside(key, walk, n + 1)
      BY <3>2, <3>3 DEF Outside
    <3> QED
      BY <3>4
  <2> QED
    BY <1>3, <2>1, <2>2
<1>4. \A n \in 0 .. k : n \in Q
  <2> HIDE DEF Q
  <2> QED
    BY <1>1, <1>2, <1>3, CountingInduction
<1>5. k \in 0 .. k
  BY <1>1
<1> QED
  BY <1>4, <1>5

----------------------------------------------------------------------------
(* Keys.                                                                   *)

LEMMA KeysAreSequences ==
    ASSUME NEW n \in Int, NEW key \in KeysUpTo(n)
    PROVE  key \in Seq(Segments) /\ key # <<>> /\ Head(key) = key[1]
<1>1. PICK i \in 1 .. n : key \in [1 .. i -> Segments]
  BY DEF KeysUpTo
<1>2. key \in Seq(Segments) /\ Len(key) = i
  BY <1>1
<1> QED
  BY <1>2

\* Accepted keys are the relative ones that stay inside.
LEMMA AcceptedIsInside ==
    ASSUME NEW key \in Seq(Segments), key # <<>>
    PROVE  /\ ValidateKey(key) =
                 /\ Head(key) \notin {"", Drive}
                 /\ \A n \in 1 .. Len(key) : Depth(key, n) >= 0
           /\ ValidateKey(key) => Clean(key) \in Seq(Proper)
<1>1. PICK walk : IsWalk(walk, key, Segments) /\ Clean(key) = walk[Len(key)]
  BY CleanWalk
<1>2. Blank(key) => Head(key) = ""
  <2>1. Head(<<"">>) = ""
    OBVIOUS
  <2> QED
    BY <2>1, Zenon DEF Blank
<1>3. CASE Inside(key, walk, Len(key))
  <2>1. Clean(key) \in Seq(Proper)
    BY <1>1, <1>3 DEF Inside
  <2>2. Clean(key) = <<>> \/ Head(Clean(key)) # ".."
    <3>1. Clean(key) # <<>> => Head(Clean(key)) \in Proper
      BY <2>1
    <3> QED
      BY <3>1, ProperSegments
  <2>3. \A n \in 1 .. Len(key) : Depth(key, n) >= 0
    BY <1>3 DEF Inside
  <2> QED
    BY <1>2, <2>1, <2>2, <2>3, Zenon DEF ValidateKey
<1>4. CASE Outside(key, walk, Len(key))
  <2>1. Clean(key) # <<>> /\ Head(Clean(key)) = ".."
    BY <1>1, <1>4, Zenon DEF Outside
  <2>2. PICK n \in 1 .. Len(key) : Depth(key, n) < 0
    BY <1>4 DEF Outside
  <2>3. Depth(key, n) \in Int
    BY DepthIsInt
  <2>4. ~ (Depth(key, n) >= 0)
    BY <2>2, <2>3
  <2>5. ~ \A m \in 1 .. Len(key) : Depth(key, m) >= 0
    BY <2>4
  <2> QED
    BY <2>1, <2>5, Zenon DEF ValidateKey
<1> QED
  BY <1>1, <1>3, <1>4, WalkDepth

Ordinary(T) == T \cap {"", ".", ".."} = {}

\* Cleaning leaves ordinary segments as they are.
LEMMA OrdinaryIsClean ==
    ASSUME NEW T, Ordinary(T), NEW path \in Seq(T)
    PROVE  Clean(path) = path
<1>1. PICK walk : IsWalk(walk, path, T) /\ Clean(path) = walk[Len(path)]
  BY CleanWalk
<1> DEFINE k == Len(path)
           Q == {n \in 0 .. k : walk[n] = SubSeq(path, 1, n)}
<1>2. k \in Nat
  OBVIOUS
<1>3. 0 \in Q
  BY <1>1, <1>2 DEF IsWalk
<1>4. ASSUME NEW n \in 0 .. k - 1, n \in Q PROVE n + 1 \in Q
  <2>1. path[n + 1] \in T
    BY <1>2
  <2>2. walk[n + 1] = AddSegment(walk[n], path[n + 1])
    BY <1>1 DEF IsWalk
  <2>3. path[n + 1] \notin {"", ".", ".."}
    BY <2>1 DEF Ordinary
  <2>4. walk[n + 1] = Append(walk[n], path[n + 1])
    BY <2>2, <2>3 DEF AddSegment
  <2>5. Append(SubSeq(path, 1, n), path[n + 1]) = SubSeq(path, 1, n + 1)
    OBVIOUS
  <2> QED
    BY <1>4, <2>4, <2>5
<1>5. \A n \in 0 .. k : n \in Q
  <2> HIDE DEF Q
  <2> QED
    BY <1>2, <1>3, <1>4, CountingInduction
<1>6. walk[k] = SubSeq(path, 1, k)
  BY <1>2, <1>5
<1>7. SubSeq(path, 1, k) = path
  OBVIOUS
<1> QED
  BY <1>1, <1>6, <1>7

\* An accepted key goes where it says below any directory.
LEMMA AcceptedGoesBelow ==
    ASSUME NEW T, Ordinary(T), NEW top \in Seq(T),
           NEW key \in Seq(Segments), key # <<>>, ValidateKey(key)
    PROVE  /\ Clean(key) \in Seq(Proper)
           /\ Clean(top \o Clean(key)) = top \o Clean(key)
<1> DEFINE U == T \cup Proper
<1>1. Clean(key) \in Seq(Proper)
  BY AcceptedIsInside
<1>2. top \in Seq(U) /\ Clean(key) \in Seq(U)
  BY <1>1
<1>3. top \o Clean(key) \in Seq(U)
  BY <1>2
<1>4. Ordinary(U)
  BY ProperSegments DEF Ordinary
<1> HIDE DEF U
<1> QED
  BY <1>1, <1>3, <1>4, OrdinaryIsClean

LEMMA BelowIsPrefix ==
    ASSUME NEW T, NEW top \in Seq(T), NEW U, NEW rest \in Seq(U)
    PROVE  IsPrefix(top, top \o rest)
  BY DEF IsPrefix

LEMMA SameBelow ==
    ASSUME NEW top, NEW T, NEW one \in Seq(T), NEW other \in Seq(T),
           <<top>> \o one = <<top>> \o other
    PROVE  one = other
<1> DEFINE a == <<top>> \o one
           b == <<top>> \o other
<1>1. Len(a) = Len(one) + 1 /\ Len(b) = Len(other) + 1
  OBVIOUS
<1>2. Len(one) = Len(other)
  BY <1>1
<1>3. ASSUME NEW i \in 1 .. Len(one) PROVE one[i] = other[i]
  <2>1. a[i + 1] = one[i] /\ b[i + 1] = other[i]
    BY <1>2
  <2> QED
    BY <2>1
<1> QED
  BY <1>2, <1>3

\* However long a key is, it is accepted exactly when it is relative and no
\* walk along it leaves the root, and then its file and its object lie below
\* the root and the prefix.
THEOREM KeysStayInsideCorrect == KeysStayInside
<1> SUFFICES ASSUME NEW key \in KeysUpTo(MaxSegments)
    PROVE  /\ ValidateKey(key) =
                 /\ Head(key) \notin {"", Drive}
                 /\ \A n \in 1 .. Len(key) : Depth(key, n) >= 0
           /\ ValidateKey(key) =>
                 \A top \in {<<>>, <<"top">>, <<"top", "sub">>} :
                     /\ IsPrefix(top, Resolve(top, key))
                     /\ IsPrefix(top, ObjectKey(top, key))
                     /\ top = <<>> \/ ~ Escapes(top, Resolve(top, key))
  BY DEF KeysStayInside
<1>1. key \in Seq(Segments) /\ key # <<>>
  <2>1. MaxSegments \in Nat
    BY StorageKeyAssumption, Zenon DEF StorageKeyAssumption
  <2>2. MaxSegments \in Int
    BY <2>1
  <2> QED
    BY <2>2, KeysAreSequences
<1>2. ASSUME ValidateKey(key), NEW top \in {<<>>, <<"top">>, <<"top", "sub">>}
      PROVE  /\ IsPrefix(top, Resolve(top, key))
             /\ IsPrefix(top, ObjectKey(top, key))
             /\ top = <<>> \/ ~ Escapes(top, Resolve(top, key))
  <2> DEFINE T == {"top", "sub"}
  <2>1. Ordinary(T) /\ top \in Seq(T)
    <3>1. Ordinary(T) /\ "top" \in T /\ "sub" \in T
      BY DEF Ordinary
    <3> HIDE DEF T
    <3>2. <<>> \in Seq(T) /\ <<"top">> \in Seq(T) /\ <<"top", "sub">> \in Seq(T)
      BY <3>1
    <3> QED
      BY <3>1, <3>2
  <2>2. Clean(key) \in Seq(Proper) /\ Clean(top \o Clean(key)) = top \o Clean(key)
    BY <1>1, <1>2, <2>1, AcceptedGoesBelow
  <2>3. IsPrefix(top, top \o Clean(key))
    BY <2>1, <2>2, BelowIsPrefix
  <2>4. top = <<>> => top \o Clean(key) = Clean(key)
    BY <2>2
  <2> QED
    BY <2>2, <2>3, <2>4, Zenon DEF Resolve, ObjectKey, Escapes
<1> QED
  BY <1>1, <1>2, AcceptedIsInside

\* However long two accepted keys are, the local store tells them apart exactly
\* when S3 does, with a prefix or without.
THEOREM StoresAgreeCorrect == StoresAgree
<1> SUFFICES ASSUME NEW key \in KeysUpTo(MaxSegments - 1), ValidateKey(key),
                    NEW other \in KeysUpTo(MaxSegments - 1), ValidateKey(other),
                    NEW prefix \in {<<>>, <<"top">>}
    PROVE  (Resolve(<<"root">>, key) = Resolve(<<"root">>, other))
              = (ObjectKey(prefix, key) = ObjectKey(prefix, other))
  BY Zenon DEF StoresAgree
<1> DEFINE Same == Clean(key) = Clean(other)
<1>1. /\ key \in Seq(Segments) /\ key # <<>>
      /\ other \in Seq(Segments) /\ other # <<>>
  <2>1. MaxSegments \in Nat
    BY StorageKeyAssumption, Zenon DEF StorageKeyAssumption
  <2>2. MaxSegments - 1 \in Int
    BY <2>1
  <2> QED
    BY <2>2, KeysAreSequences
<1>2. ASSUME NEW top \in {"top", "root"}
      PROVE  (Clean(<<top>> \o Clean(key)) = Clean(<<top>> \o Clean(other))) = Same
  <2> DEFINE T == {"top", "root"}
  <2>1. Ordinary(T) /\ <<top>> \in Seq(T)
    <3>1. Ordinary(T) /\ top \in T
      BY DEF Ordinary
    <3> HIDE DEF T
    <3> QED
      BY <3>1
  <2>2. /\ Clean(key) \in Seq(Proper)
        /\ Clean(<<top>> \o Clean(key)) = <<top>> \o Clean(key)
        /\ Clean(other) \in Seq(Proper)
        /\ Clean(<<top>> \o Clean(other)) = <<top>> \o Clean(other)
    BY <1>1, <2>1, AcceptedGoesBelow
  <2>3. <<top>> \o Clean(key) = <<top>> \o Clean(other) => Same
    BY <2>2, SameBelow
  <2> QED
    BY <2>2, <2>3, Zenon
<1>3. (Resolve(<<"root">>, key) = Resolve(<<"root">>, other)) = Same
  BY <1>2, Zenon DEF Resolve
<1>4. CASE prefix = <<>>
  BY <1>3, <1>4, Zenon DEF ObjectKey
<1>5. CASE prefix = <<"top">>
  <2>1. prefix # <<>>
    BY <1>5
  <2>2. (Clean(<<"top">> \o Clean(key)) = Clean(<<"top">> \o Clean(other))) = Same
    BY <1>2
  <2>3. (ObjectKey(prefix, key) = ObjectKey(prefix, other)) = Same
    BY <1>5, <2>1, <2>2, Zenon DEF ObjectKey
  <2> QED
    BY <1>3, <2>3, Zenon
<1> QED
  BY <1>4, <1>5

(***************************************************************************)
(* Calls.                                                                  *)
(***************************************************************************)

USE StorageAssumption

Objects == {{}} \cup {{n} : n \in 1 .. MaxSize}

LEMMA RequestFields ==
    ASSUME NEW r \in Atomic!Request
    PROVE  /\ r # None
           /\ r.op \in {"put", "get", "delete"}
           /\ r.key \in Keys
           /\ r.op = "put" => r.size \in 1 .. MaxSize
BY DEF Atomic!Request

LEMMA CallFields ==
    ASSUME StorageTypeOK, NEW c \in Callers, call[c] # None
    PROVE  /\ call[c] \in Atomic!Request
           /\ call[c].op \in {"put", "get", "delete"}
           /\ call[c].key \in Keys
           /\ call[c].op = "put" => call[c].size \in 1 .. MaxSize
<1>1. call[c] \in Atomic!Request
  BY DEF StorageTypeOK
<1> QED
  BY <1>1, RequestFields

(***************************************************************************)
(* Types.                                                                  *)
(***************************************************************************)

\* Temporary files are renamed, removed or left behind.
TempsGo == temps' \subseteq temps /\ strays' \subseteq strays \cup temps

\* A caller gets an answer and an object of its own key is replaced.
LEMMA ReplyTypes ==
    ASSUME StorageTypeOK, NEW c \in Callers,
           NEW a \in Atomic!Answer, NEW n \in SUBSET (1 .. MaxSize),
           Reply(c, a, n), UNCHANGED <<backend, cut>>,
           objects' \in [Keys -> Objects], TempsGo
    PROVE  StorageTypeOK'
BY DEF StorageTypeOK, TempsGo, Reply, Move, Places, Objects

LEMMA ReplaceTypes ==
    ASSUME StorageTypeOK, NEW c \in Callers, call[c] # None,
           NEW o \in Objects, Replace(c, o)
    PROVE  objects' \in [Keys -> Objects]
<1>1. objects \in [Keys -> Objects] /\ call[c].key \in Keys
  BY CallFields DEF StorageTypeOK, Objects
<1> QED
  BY <1>1 DEF Replace

LEMMA KeptObjects ==
    ASSUME StorageTypeOK, UNCHANGED objects
    PROVE  objects' \in [Keys -> Objects]
BY DEF StorageTypeOK, Objects

LEMMA ObjectBytes ==
    ASSUME StorageTypeOK, NEW k \in Keys
    PROVE  objects[k] \in SUBSET (1 .. MaxSize)
BY DEF StorageTypeOK

\* What an S3 request that is carried out leaves at its key.
LEMMA RequestedIsObject ==
    ASSUME StorageTypeOK, NEW c \in Callers, CallInv(c), InRequest(c)
    PROVE  /\ call[c] # None
           /\ Requested(c) \in Objects
           /\ answer[c] = "none"
           /\ call[c].op \in {"put", "delete"}
           /\ call[c].op = "put" => Requested(c) = {call[c].size}
           /\ call[c].op = "delete" => Requested(c) = {}
<1>1. at[c] \in {"body", "remove"} /\ call[c].op \in {"put", "delete"}
  BY DEF InRequest, BodyRead, In
<1>2. call[c] # None /\ answer[c] = "none"
  BY <1>1 DEF CallInv
<1>3. call[c].op = "put" => got[c] = call[c].size
  BY <1>1 DEF InRequest, BodyRead, In
<1> QED
  BY <1>1, <1>2, <1>3, CallFields DEF Requested, Objects

LEMMA BodyIsWhole ==
    ASSUME StorageTypeOK, NEW c \in Callers, CallInv(c), BodyRead(c)
    PROVE  /\ call[c] # None
           /\ answer[c] = "none"
           /\ call[c].op = "put"
           /\ got[c] = call[c].size
           /\ {got[c]} \in Objects
           /\ {got[c]} \in SUBSET (1 .. MaxSize)
<1>1. at[c] = "body" /\ call[c].op = "put" /\ got[c] = call[c].size
  BY DEF BodyRead, In
<1>2. call[c] # None /\ answer[c] = "none"
  BY <1>1 DEF CallInv
<1> QED
  BY <1>1, <1>2, CallFields DEF Objects

THEOREM StorageInitOK == StorageInit => StorageInv
<1> SUFFICES ASSUME StorageInit PROVE StorageInv
  OBVIOUS
<1>1. StorageTypeOK
  BY DEF StorageInit, StorageTypeOK, Atomic!AtomicInit, Atomic!Answer, Places
<1>2. \A c \in Callers : CallInv(c)
  BY DEF StorageInit, Atomic!AtomicInit, CallInv
<1> QED
  BY <1>1, <1>2 DEF StorageInv

(***************************************************************************)
(* A step of one caller leaves the others alone.                           *)
(***************************************************************************)

\* Nothing that c does not write has changed.
Alone(c) ==
    /\ \A x \in Callers \ {c} :
          /\ call'[x] = call[x] /\ answer'[x] = answer[x]
          /\ bytes'[x] = bytes[x] /\ at'[x] = at[x] /\ got'[x] = got[x]
    /\ \A k \in Keys : Writer[k] # c => objects'[k] = objects[k]

LEMMA OthersKeep ==
    ASSUME StorageInv, NEW c \in Callers, Alone(c)
    PROVE  \A x \in Callers \ {c} : CallInv(x)'
<1> SUFFICES ASSUME NEW x \in Callers, x # c
             PROVE  CallInv(x)'
  OBVIOUS
<1>1. CallInv(x) /\ StorageTypeOK
  BY DEF StorageInv
<1>2. ASSUME at[x] = "remove"
      PROVE  objects'[call[x].key] = objects[call[x].key]
  <2>1. call[x] # None /\ call[x].op = "delete" /\ Writer[call[x].key] = x
    BY <1>1, <1>2 DEF CallInv, Atomic!MayCall
  <2> QED
    BY <1>1, <2>1, CallFields DEF Alone
<1> QED
  BY <1>1, <1>2 DEF CallInv, Alone, Object, Atomic!MayCall

\* A caller that replaces an object is the writer of its key.
LEMMA ReplaceAlone ==
    ASSUME StorageTypeOK, NEW c \in Callers, CallInv(c), call[c] # None,
           call[c].op # "get", NEW o, Replace(c, o)
    PROVE  \A k \in Keys : Writer[k] # c => objects'[k] = objects[k]
<1>1. Writer[call[c].key] = c /\ call[c].key \in Keys
  BY CallFields DEF CallInv, Atomic!MayCall
<1> QED
  BY <1>1 DEF Replace, StorageTypeOK

LEMMA ReplyAlone ==
    ASSUME StorageTypeOK, NEW c \in Callers, NEW a, NEW n, Reply(c, a, n),
           \A k \in Keys : Writer[k] # c => objects'[k] = objects[k]
    PROVE  Alone(c)
BY DEF Reply, Move, Alone, StorageTypeOK

\* A call that is done fits its answer.
LEMMA ReplyInv ==
    ASSUME StorageTypeOK, NEW c \in Callers, CallInv(c), call[c] # None,
           NEW a \in Atomic!Answer \ {"none"}, NEW n, Reply(c, a, n),
           n # {} => a \in {"stored", "found"}
    PROVE  CallInv(c)'
BY DEF Reply, Move, CallInv, StorageTypeOK, Atomic!MayCall

LEMMA AloneInv ==
    ASSUME StorageInv, NEW c \in Callers, Alone(c),
           StorageTypeOK', CallInv(c)'
    PROVE  StorageInv'
BY OthersKeep DEF StorageInv

\* A step that ends a call without touching the objects.
LEMMA EndsCall ==
    ASSUME StorageInv, NEW c \in Callers, call[c] # None,
           NEW a \in Atomic!Answer \ {"none"}, NEW n \in SUBSET (1 .. MaxSize),
           n # {} => a \in {"stored", "found"},
           Reply(c, a, n), UNCHANGED <<objects, backend, cut>>,
           TempsGo
    PROVE  StorageInv'
<1>1. StorageTypeOK /\ CallInv(c)
  BY DEF StorageInv
<1>2. StorageTypeOK'
  BY <1>1, KeptObjects, ReplyTypes
<1>3. CallInv(c)'
  BY <1>1, ReplyInv
<1>4. Alone(c)
  BY <1>1, ReplyAlone
<1> QED
  BY <1>2, <1>3, <1>4, AloneInv

\* A step that ends a call and replaces its object.
LEMMA EndsWrite ==
    ASSUME StorageInv, NEW c \in Callers, call[c] # None, call[c].op # "get",
           NEW a \in Atomic!Answer \ {"none"}, NEW n \in SUBSET (1 .. MaxSize),
           n # {} => a \in {"stored", "found"},
           NEW o \in Objects, Replace(c, o),
           Reply(c, a, n), UNCHANGED <<backend, cut>>,
           TempsGo
    PROVE  StorageInv'
<1>1. StorageTypeOK /\ CallInv(c)
  BY DEF StorageInv
<1>2. StorageTypeOK'
  BY <1>1, ReplaceTypes, ReplyTypes
<1>3. CallInv(c)'
  BY <1>1, ReplyInv
<1>4. Alone(c)
  BY <1>1, ReplaceAlone, ReplyAlone
<1> QED
  BY <1>2, <1>3, <1>4, AloneInv

(***************************************************************************)
(* Each step keeps the invariant.                                          *)
(***************************************************************************)

LEMMA InvokeInv ==
    ASSUME StorageInv, NEW c \in Callers, NEW r \in Atomic!Request, Invoke(c, r)
    PROVE  StorageInv'
<1>1. StorageTypeOK /\ CallInv(c)
  BY DEF StorageInv
<1>2. StorageTypeOK'
  BY <1>1 DEF Invoke, Move, StorageTypeOK, Places, tempVars
<1>3. CallInv(c)'
  BY <1>1, RequestFields
     DEF Invoke, Move, CallInv, StorageTypeOK, Atomic!MayCall
<1>4. Alone(c)
  BY <1>1 DEF Invoke, Move, Alone, StorageTypeOK
<1> QED
  BY <1>2, <1>3, <1>4, AloneInv

\* The steps in the middle of a call move its caller, or the body, or answer a
\* Get that has opened its object.
LEMMA MiddleInv ==
    ASSUME StorageInv, NEW c \in Callers,
           \/ OpenBody(c)
           \/ ReadBody(c)
           \/ OpenObject(c)
           \/ ReadObject(c)
           \/ HeadObject(c)
    PROVE  StorageInv'
<1>1. StorageTypeOK /\ CallInv(c)
  BY DEF StorageInv
<1>2. call[c] # None
  BY <1>1 DEF OpenBody, ReadBody, OpenObject, ReadObject, HeadObject, In, CallInv
<1>3. /\ call[c].key \in Keys
      /\ call[c].op = "put" => call[c].size \in 1 .. MaxSize
      /\ Object(c) \in SUBSET (1 .. MaxSize)
  BY <1>1, <1>2, CallFields, ObjectBytes DEF Object
<1>4. Alone(c)
  BY <1>1 DEF OpenBody, ReadBody, OpenObject, ReadObject, HeadObject, Move,
              Alone, StorageTypeOK
<1>5. StorageTypeOK' /\ CallInv(c)'
  <2>1. CASE OpenBody(c)
    BY <1>1, <1>2, <1>3, <2>1
       DEF OpenBody, In, Move, StorageTypeOK, Places, tempVars, CallInv, Atomic!MayCall
  <2>2. CASE ReadBody(c)
    <3>1. /\ at[c] = "body" /\ call[c].op = "put" /\ got[c] < call[c].size
          /\ got' = [got EXCEPT ![c] = got[c] + 1]
          /\ UNCHANGED <<backend, objects, call, answer, bytes, at, tempVars, cut>>
      BY <2>2 DEF ReadBody, In
    <3>2. got[c] + 1 \in 0 .. MaxSize /\ got[c] + 1 <= call[c].size
      BY <1>1, <1>3, <3>1 DEF StorageTypeOK
    <3>3. got' \in [Callers -> 0 .. MaxSize] /\ got'[c] = got[c] + 1
      BY <1>1, <3>1, <3>2 DEF StorageTypeOK
    <3>4. StorageTypeOK'
      BY <1>1, <3>1, <3>3 DEF StorageTypeOK, tempVars
    <3> QED
      BY <1>1, <3>1, <3>2, <3>3, <3>4 DEF CallInv, Atomic!MayCall
  <2>3. CASE OpenObject(c)
    BY <1>1, <1>2, <1>3, <2>3
       DEF OpenObject, In, Move, StorageTypeOK, Places, tempVars, CallInv, Atomic!MayCall,
           Atomic!Answer
  <2>4. CASE ReadObject(c)
    BY <1>1, <1>2, <1>3, <2>4
       DEF ReadObject, In, Move, StorageTypeOK, Places, tempVars, CallInv, Atomic!MayCall
  <2>5. CASE HeadObject(c)
    BY <1>1, <1>2, <1>3, <2>5
       DEF HeadObject, In, Move, StorageTypeOK, Places, tempVars, CallInv, Atomic!MayCall,
           Object
  <2> QED
    BY <2>1, <2>2, <2>3, <2>4, <2>5
<1> QED
  BY <1>4, <1>5, AloneInv

LEMMA ReplyStepInv ==
    ASSUME StorageInv, NEW c \in Callers,
           \/ CommitPut(c)
           \/ FindNothing(c)
           \/ RemoveFile(c)
           \/ DeleteObject(c)
           \/ LoseReply(c)
           \/ FailCall(c)
    PROVE  StorageInv'
<1>1. StorageTypeOK /\ CallInv(c)
  BY DEF StorageInv
<1>2. /\ "stored" \in Atomic!Answer \ {"none"}
      /\ "removed" \in Atomic!Answer \ {"none"}
      /\ "missing" \in Atomic!Answer \ {"none"}
      /\ "error" \in Atomic!Answer \ {"none"}
      /\ {} \in SUBSET (1 .. MaxSize)
      /\ {} \in Objects
  BY DEF Atomic!Answer, Objects
<1>3. CASE CommitPut(c)
  <2>1. BodyRead(c)
    BY <1>3 DEF CommitPut, TempsGo, tempVars
  <2>2. /\ Replace(c, {got[c]}) /\ Reply(c, "stored", {got[c]})
        /\ TempsGo /\ UNCHANGED <<backend, cut>>
    BY <1>3 DEF CommitPut, TempsGo, tempVars
  <2> QED
    BY <1>1, <1>2, <2>1, <2>2, BodyIsWhole, EndsWrite
<1>4. CASE FindNothing(c)
  <2>1. call[c] # None
    BY <1>1, <1>4 DEF FindNothing, In, CallInv
  <2>2. /\ Reply(c, "missing", {})
        /\ TempsGo /\ UNCHANGED <<objects, backend, cut>>
    BY <1>4 DEF FindNothing, TempsGo, tempVars
  <2> QED
    BY <1>2, <2>1, <2>2, EndsCall
<1>5. CASE RemoveFile(c) \/ DeleteObject(c)
  <2>1. call[c] # None /\ call[c].op # "get"
    BY <1>1, <1>5 DEF RemoveFile, DeleteObject, In, CallInv
  <2>2. /\ Replace(c, {}) /\ Reply(c, "removed", {})
        /\ TempsGo /\ UNCHANGED <<backend, cut>>
    BY <1>5 DEF RemoveFile, DeleteObject, TempsGo, tempVars
  <2> QED
    BY <1>2, <2>1, <2>2, EndsWrite
<1>6. CASE LoseReply(c)
  <2>1. InRequest(c)
    BY <1>6 DEF LoseReply, TempsGo, tempVars
  <2>2. /\ Replace(c, Requested(c)) /\ Reply(c, "error", {})
        /\ TempsGo /\ UNCHANGED <<backend, cut>>
    BY <1>6 DEF LoseReply, TempsGo, tempVars
  <2>3. call[c] # None /\ call[c].op # "get" /\ Requested(c) \in Objects
    BY <1>1, <2>1, RequestedIsObject
  <2> QED
    BY <1>2, <2>2, <2>3, EndsWrite
<1>7. CASE FailCall(c)
  <2>1. call[c] # None
    BY <1>1, <1>7 DEF FailCall, CallInv
  <2>2. /\ Reply(c, "error", {})
        /\ TempsGo /\ UNCHANGED <<objects, backend, cut>>
    BY <1>7 DEF FailCall, TempsGo, tempVars
  <2> QED
    BY <1>2, <2>1, <2>2, EndsCall
<1> QED
  BY <1>3, <1>4, <1>5, <1>6, <1>7

LEMMA ReturnInv ==
    ASSUME StorageInv, NEW c \in Callers, Return(c)
    PROVE  StorageInv'
<1>1. StorageTypeOK /\ CallInv(c)
  BY DEF StorageInv
<1>2. StorageTypeOK'
  BY <1>1 DEF Return, Move, StorageTypeOK, Places, Atomic!Answer, tempVars
<1>3. CallInv(c)'
  BY <1>1 DEF Return, Move, CallInv, StorageTypeOK
<1>4. Alone(c)
  BY <1>1 DEF Return, Move, Alone, StorageTypeOK
<1> QED
  BY <1>2, <1>3, <1>4, AloneInv

\* What a process leaves that ends while its requests are on their way.
LEMMA EndObjects ==
    ASSUME StorageInv, NEW D \in SUBSET Callers, End(D)
    PROVE  \E S \in SUBSET D :
              /\ \A c \in S : InRequest(c)
              /\ \A k \in Keys :
                    LET c == Writer[k] IN
                    objects'[k] = IF c \in S /\ call[c].key = k
                                  THEN Requested(c) ELSE objects[k]
              /\ objects' = [k \in Keys |-> objects'[k]]
BY DEF End

LEMMA EndInv ==
    ASSUME StorageInv, NEW D \in SUBSET Callers, End(D)
    PROVE  StorageInv'
<1>1. StorageTypeOK
  BY DEF StorageInv
<1>2. PICK S \in SUBSET D :
         /\ \A c \in S : InRequest(c)
         /\ \A k \in Keys :
               LET c == Writer[k] IN
               objects'[k] = IF c \in S /\ call[c].key = k
                             THEN Requested(c) ELSE objects[k]
         /\ objects' = [k \in Keys |-> objects'[k]]
  BY EndObjects
<1>3. objects' \in [Keys -> Objects]
  <2> SUFFICES ASSUME NEW k \in Keys PROVE objects'[k] \in Objects
    BY <1>2
  <2>1. objects[k] \in Objects
    BY <1>1 DEF StorageTypeOK, Objects
  <2>2. ASSUME Writer[k] \in S PROVE Requested(Writer[k]) \in Objects
    BY <1>1, <1>2, <2>2, RequestedIsObject DEF StorageInv
  <2> QED
    BY <1>2, <2>1, <2>2
<1>4. StorageTypeOK'
  BY <1>1, <1>3 DEF End, StorageTypeOK, Places, Atomic!Answer, Objects
<1>5. ASSUME NEW c \in D PROVE CallInv(c)'
  BY <1>1 DEF End, CallInv, StorageTypeOK
<1>6. ASSUME NEW x \in Callers \ D PROVE CallInv(x)'
  <2>1. CallInv(x)
    BY DEF StorageInv
  <2>2. /\ call'[x] = call[x] /\ answer'[x] = answer[x]
        /\ bytes'[x] = bytes[x] /\ at'[x] = at[x] /\ got'[x] = got[x]
    BY <1>1 DEF End, StorageTypeOK
  <2>3. ASSUME at[x] = "remove"
        PROVE  objects'[call[x].key] = objects[call[x].key]
    <3>1. call[x] # None /\ call[x].op = "delete" /\ Writer[call[x].key] = x
      BY <2>1, <2>3 DEF CallInv, Atomic!MayCall
    <3>2. call[x].key \in Keys
      BY <1>1, <3>1, CallFields
    <3> QED
      BY <1>2, <3>1, <3>2
  <2> QED
    BY <2>1, <2>2, <2>3 DEF CallInv, Object, Atomic!MayCall
<1> QED
  BY <1>4, <1>5, <1>6 DEF StorageInv

LEMMA UnchangedInv ==
    ASSUME StorageInv, UNCHANGED <<backend, objects, callVars, tempVars>>,
           cut' \subseteq Callers
    PROVE  StorageInv'
<1>1. StorageTypeOK'
  BY DEF StorageInv, StorageTypeOK, callVars, tempVars
<1>2. \A c \in Callers : CallInv(c)'
  BY DEF StorageInv, CallInv, callVars, Object, Atomic!MayCall
<1> QED
  BY <1>1, <1>2 DEF StorageInv

LEMMA ServeInv ==
    ASSUME StorageInv, NEW c \in Callers, Serve(c)
    PROVE  StorageInv'
BY MiddleInv, ReplyStepInv, ReturnInv DEF Serve

LEMMA StorageStepInv ==
    ASSUME StorageInv, [StorageNext]_storageVars
    PROVE  StorageInv'
<1>1. ASSUME NEW c \in Callers, NEW r \in Atomic!Request, Invoke(c, r)
      PROVE  StorageInv'
  BY <1>1, InvokeInv
<1>2. ASSUME NEW c \in Callers, Serve(c) PROVE StorageInv'
  BY <1>2, ServeInv
<1>3. ASSUME NEW D \in SUBSET Callers, End(D) PROVE StorageInv'
  BY <1>3, EndInv
<1>4. ASSUME cut' \in SUBSET Callers,
             UNCHANGED <<backend, objects, callVars, tempVars>>
      PROVE  StorageInv'
  BY <1>4, UnchangedInv
<1>5. ASSUME UNCHANGED storageVars PROVE StorageInv'
  <2>1. cut' \subseteq Callers
    BY <1>5 DEF storageVars, StorageInv, StorageTypeOK
  <2> QED
    BY <1>5, <2>1, UnchangedInv DEF storageVars
<1> QED
  BY <1>1, <1>2, <1>3, <1>4, <1>5 DEF StorageNext

\* Where a call stands fits the call and its answer, whatever is written, read,
\* cancelled, lost or killed meanwhile (local.go, s3.go).
THEOREM StorageCorrect == StorageSpec => []StorageInv
<1>1. StorageInv /\ [StorageNext]_storageVars => StorageInv'
  BY StorageStepInv
<1> QED
  BY StorageInitOK, <1>1, PTL DEF StorageSpec

(***************************************************************************)
(* The temporary files.                                                    *)
(***************************************************************************)

\* The local store's Puts that read their body.
Writing == {c \in Callers : backend = "local" /\ at[c] = "body"}

TempsInv == temps = Writing

\* What one step may do to the temporary files.
TempsKept ==
    /\ TempsInv'
    /\ \A c \in strays' \ strays : c \in temps /\ answer'[c] \in {"error", "none"}

\* A caller that neither starts nor ends the body of a Put.
LEMMA TempsElsewhere ==
    ASSUME StorageInv, TempsInv, NEW c \in Callers, NEW p \in Places \ {"body"},
           Move(c, p), backend = "local" => at[c] # "body",
           UNCHANGED <<backend, tempVars>>
    PROVE  TempsKept
<1>1. at \in [Callers -> Places] /\ backend' = backend
      /\ temps' = temps /\ strays' = strays
  BY DEF StorageInv, StorageTypeOK, tempVars
<1>2. Writing' = Writing
  BY <1>1 DEF Move, Writing
<1> QED
  BY <1>1, <1>2 DEF TempsInv, TempsKept

\* A caller leaves "body" by a reply that renames, removes or gives up its file,
\* or with its process.
LEMMA TempsStep ==
    ASSUME StorageInv, TempsInv, [StorageNext]_storageVars
    PROVE  TempsKept
<1>1. StorageTypeOK /\ at \in [Callers -> Places]
  BY DEF StorageInv, StorageTypeOK
<1>2. /\ "begin" \in Places \ {"body"} /\ "stream" \in Places \ {"body"}
      /\ "done" \in Places \ {"body"} /\ "idle" \in Places \ {"body"}
      /\ "remove" \in Places \ {"body"}
  BY DEF Places
<1>3. ASSUME NEW c \in Callers, NEW r \in Atomic!Request, Invoke(c, r)
      PROVE  TempsKept
  BY <1>2, <1>3, TempsElsewhere DEF Invoke, tempVars
<1>4. ASSUME NEW c \in Callers, Serve(c) PROVE TempsKept
  <2>1. CASE OpenBody(c)
    BY <1>1, <2>1 DEF OpenBody, Move, TempsInv, TempsKept, Writing, StorageTypeOK
  <2>2. CASE ReadBody(c)
    BY <2>2 DEF ReadBody, TempsInv, TempsKept, Writing, tempVars
  <2>3. CASE OpenObject(c) \/ ReadObject(c) \/ HeadObject(c)
    <3>1. /\ at[c] # "body" /\ UNCHANGED <<backend, tempVars>>
          /\ Move(c, "stream") \/ Move(c, "done") \/ Move(c, "remove")
      BY <2>3 DEF OpenObject, ReadObject, HeadObject, In, tempVars
    <3> QED
      BY <1>2, <3>1, TempsElsewhere
  <2>4. CASE CommitPut(c)
    BY <1>1, <2>4 DEF CommitPut, Reply, Move, TempsInv, TempsKept, Writing,
       StorageTypeOK
  <2>5. CASE FailCall(c)
    <3>1. /\ temps' = temps \ {c} /\ backend' = backend
          /\ at' = [at EXCEPT ![c] = "done"]
          /\ answer' = [answer EXCEPT ![c] = "error"]
          /\ strays' = strays \/ strays' = strays \cup (temps \cap {c})
      BY <2>5 DEF FailCall, Reply, Move
    <3>2. TempsInv'
      BY <1>1, <3>1 DEF TempsInv, Writing
    <3>3. answer'[c] = "error"
      BY <1>1, <3>1 DEF StorageTypeOK
    <3> QED
      BY <3>1, <3>2, <3>3 DEF TempsKept
  <2>6. CASE FindNothing(c) \/ RemoveFile(c) \/ DeleteObject(c) \/ Return(c)
    <3>1. /\ at[c] # "body" /\ UNCHANGED <<backend, tempVars>>
          /\ Move(c, "done") \/ Move(c, "idle")
      BY <2>6 DEF FindNothing, RemoveFile, DeleteObject, Return, In, Reply, tempVars
    <3> QED
      BY <1>2, <3>1, TempsElsewhere
  <2>7. CASE LoseReply(c)
    <3>1. backend = "s3" /\ UNCHANGED <<backend, tempVars>> /\ Move(c, "done")
      BY <2>7 DEF LoseReply, InRequest, Reply, tempVars
    <3> QED
      BY <1>2, <3>1, TempsElsewhere
  <2> QED
    BY <1>4, <2>1, <2>2, <2>3, <2>4, <2>5, <2>6, <2>7 DEF Serve
<1>5. ASSUME NEW D \in SUBSET Callers, End(D) PROVE TempsKept
  BY <1>1, <1>5 DEF End, TempsInv, TempsKept, Writing
<1>6. ASSUME UNCHANGED <<backend, tempVars, at>> PROVE TempsKept
  BY <1>6 DEF TempsInv, TempsKept, Writing, tempVars
<1> QED
  BY <1>3, <1>4, <1>5, <1>6 DEF StorageNext, storageVars, callVars

LEMMA TempsKeptIsTidy ==
    ASSUME TempsKept
    PROVE  /\ temps' = {c \in Callers : backend' = "local" /\ at'[c] = "body"}
           /\ \A c \in strays' \ strays :
                 c \in temps /\ answer'[c] \in {"error", "none"}
BY DEF TempsKept, TempsInv, Writing

LEMMA TempsInit == StorageInit => TempsInv
BY DEF StorageInit, TempsInv, Writing

\* A temporary file is there only while its Put reads the body; only a Put that
\* failed, or ended with its process, can leave one behind (local.go, Put).
THEOREM StorageNoStrayTemps == StorageSpec => NoStrayTemps
<1>1. StorageInv /\ TempsInv /\ [StorageNext]_storageVars => TempsInv'
  BY TempsStep DEF TempsKept
<1>2. StorageInv /\ TempsInv /\ [StorageNext]_storageVars
        => [/\ temps' = {c \in Callers : backend' = "local" /\ at'[c] = "body"}
            /\ \A c \in strays' \ strays :
                  c \in temps /\ answer'[c] \in {"error", "none"}]_storageVars
  BY TempsStep, TempsKeptIsTidy
<1> QED
  BY StorageCorrect, TempsInit, <1>1, <1>2, PTL DEF StorageSpec, NoStrayTemps

(***************************************************************************)
(* Storage implements AtomicStore: each call takes effect at one step.     *)
(***************************************************************************)

LEMMA PerformSteps ==
    ASSUME StorageInv, NEW c \in Callers,
           CommitPut(c) \/ FindNothing(c) \/ OpenObject(c) \/ RemoveFile(c)
    PROVE  Atomic!Perform(c)
<1>1. StorageTypeOK /\ CallInv(c)
  BY DEF StorageInv
<1>2. call[c] # None /\ answer[c] = "none"
  BY <1>1 DEF CommitPut, BodyRead, FindNothing, OpenObject, RemoveFile, In,
              CallInv
<1>3. call[c].key \in Keys
  BY <1>1, <1>2, CallFields
<1>4. CASE CommitPut(c)
  <2>1. call[c].op = "put" /\ got[c] = call[c].size
    BY <1>4 DEF CommitPut, BodyRead, In
  <2> QED
    BY <1>2, <1>4, <2>1
       DEF CommitPut, Replace, Reply, Atomic!Perform, Atomic!Pending,
           Atomic!Effect, Atomic!Respond, Atomic!Outcome, Atomic!Truth
<1>5. CASE FindNothing(c)
  <2>1. call[c].op \in {"get", "delete"} /\ objects[call[c].key] = {}
    BY <1>5 DEF FindNothing, In, Object
  <2>2. objects = [objects EXCEPT ![call[c].key] = {}]
    BY <1>1, <1>3, <2>1 DEF StorageTypeOK
  <2> QED
    BY <1>2, <1>5, <2>1, <2>2
       DEF FindNothing, Reply, Atomic!Perform, Atomic!Pending,
           Atomic!Effect, Atomic!Respond, Atomic!Outcome, Atomic!Truth
<1>6. CASE OpenObject(c)
  <2>1. call[c].op = "get" /\ objects[call[c].key] # {}
    BY <1>6 DEF OpenObject, In, Object
  <2>2. objects = [objects EXCEPT ![call[c].key] = objects[call[c].key]]
    BY <1>1, <1>3 DEF StorageTypeOK
  <2> QED
    BY <1>2, <1>6, <2>1, <2>2
       DEF OpenObject, Object, Atomic!Perform, Atomic!Pending,
           Atomic!Effect, Atomic!Respond, Atomic!Outcome, Atomic!Truth
<1>7. CASE RemoveFile(c)
  <2>1. call[c].op = "delete" /\ objects[call[c].key] # {}
    BY <1>7 DEF RemoveFile, In, Object
  <2> QED
    BY <1>2, <1>7, <2>1
       DEF RemoveFile, Replace, Reply, Atomic!Perform, Atomic!Pending,
           Atomic!Effect, Atomic!Respond, Atomic!Outcome, Atomic!Truth
<1> QED
  BY <1>4, <1>5, <1>6, <1>7

\* The object that HeadObject saw is still there when DeleteObject removes it.
LEMMA DeletePerforms ==
    ASSUME StorageInv, NEW c \in Callers, DeleteObject(c)
    PROVE  Atomic!Perform(c)
<1>1. CallInv(c) /\ at[c] = "remove"
  BY DEF StorageInv, DeleteObject, In
<1>2. /\ call[c] # None /\ answer[c] = "none" /\ call[c].op = "delete"
      /\ objects[call[c].key] # {}
  BY <1>1 DEF CallInv, Object
<1> QED
  BY <1>2 DEF DeleteObject, Replace, Reply, Atomic!Perform, Atomic!Pending,
              Atomic!Effect, Atomic!Respond, Atomic!Outcome, Atomic!Truth

LEMMA ErrorBreaks ==
    ASSUME StorageInv, NEW c \in Callers, LoseReply(c) \/ FailCall(c)
    PROVE  Atomic!Break(c)
<1>1. StorageTypeOK /\ CallInv(c)
  BY DEF StorageInv
<1>2. CASE LoseReply(c)
  <2>1. /\ call[c] # None /\ answer[c] = "none"
        /\ call[c].op \in {"put", "delete"}
        /\ call[c].op = "put" => Requested(c) = {call[c].size}
        /\ call[c].op = "delete" => Requested(c) = {}
    BY <1>1, <1>2, RequestedIsObject DEF LoseReply
  <2> QED
    BY <1>2, <2>1 DEF LoseReply, Replace, Reply, Atomic!Break, Atomic!Pending,
                      Atomic!Effect, Atomic!Respond, Atomic!Outcome
<1>3. CASE FailCall(c)
  <2>1. (call[c] # None /\ answer[c] = "none") \/ answer[c] = "found"
    BY <1>1, <1>3 DEF FailCall, CallInv
  <2> QED
    BY <1>3, <2>1 DEF FailCall, Reply, Atomic!Break, Atomic!Pending,
                      Atomic!Respond
<1> QED
  BY <1>2, <1>3

\* What a killed process had asked for has happened or has not.
LEMMA EndVanishes ==
    ASSUME StorageInv, NEW D \in SUBSET Callers, End(D)
    PROVE  \E S \in SUBSET D : Atomic!Vanish(D, S)
<1>1. StorageTypeOK
  BY DEF StorageInv
<1>2. PICK S \in SUBSET D :
         /\ \A c \in S : InRequest(c)
         /\ \A k \in Keys :
               LET c == Writer[k] IN
               objects'[k] = IF c \in S /\ call[c].key = k
                             THEN Requested(c) ELSE objects[k]
         /\ objects' = [k \in Keys |-> objects'[k]]
  BY EndObjects
<1>3. ASSUME NEW c \in S
      PROVE  /\ call[c] # None /\ answer[c] = "none"
             /\ Requested(c) = Atomic!Outcome(call[c])
  <2>1. CallInv(c) /\ InRequest(c) /\ c \in Callers
    BY <1>2 DEF StorageInv
  <2> QED
    BY <1>1, <2>1, RequestedIsObject DEF Atomic!Outcome
<1>4. S \subseteq {c \in D : Atomic!Pending(c)}
  BY <1>3 DEF Atomic!Pending
<1>5. \A k \in Keys :
         objects'[k] = LET c == Writer[k] IN
                       IF c \in S /\ call[c].key = k
                       THEN Atomic!Outcome(call[c]) ELSE objects[k]
  BY <1>2, <1>3
<1>6. objects' = [k \in Keys |->
                     LET c == Writer[k] IN
                     IF c \in S /\ call[c].key = k
                     THEN Atomic!Outcome(call[c]) ELSE objects[k]]
  BY <1>2, <1>5
<1>7. Atomic!Vanish(D, S)
  BY <1>4, <1>6 DEF End, Atomic!Vanish
<1> QED
  BY <1>7

LEMMA AtomicStep ==
    ASSUME StorageInv, [StorageNext]_storageVars
    PROVE  [Atomic!AtomicNext]_(Atomic!atomicVars)
<1>1. ASSUME NEW c \in Callers, NEW r \in Atomic!Request, Invoke(c, r)
      PROVE  Atomic!AtomicNext
  <2>1. call[c] = None
    BY <1>1 DEF StorageInv, CallInv, Invoke
  <2>2. Atomic!Start(c, r)
    BY <1>1, <2>1 DEF Invoke, Atomic!Start
  <2> QED
    BY <2>2 DEF Atomic!AtomicNext
<1>2. ASSUME NEW c \in Callers, Serve(c)
      PROVE  [Atomic!AtomicNext]_(Atomic!atomicVars)
  <2>1. CASE OpenBody(c) \/ ReadBody(c) \/ ReadObject(c) \/ HeadObject(c)
    BY <2>1 DEF OpenBody, ReadBody, ReadObject, HeadObject, Atomic!atomicVars
  <2>2. CASE \/ CommitPut(c) \/ FindNothing(c) \/ OpenObject(c)
             \/ RemoveFile(c) \/ DeleteObject(c)
    BY <2>2, PerformSteps, DeletePerforms DEF Atomic!AtomicNext
  <2>3. CASE LoseReply(c) \/ FailCall(c)
    BY <2>3, ErrorBreaks DEF Atomic!AtomicNext
  <2>4. CASE Return(c)
    <3>1. answer[c] # "none"
      BY <2>4 DEF StorageInv, CallInv, Return
    <3>2. Atomic!Finish(c)
      BY <2>4, <3>1 DEF Return, Atomic!Finish
    <3> QED
      BY <3>2 DEF Atomic!AtomicNext
  <2> QED
    BY <1>2, <2>1, <2>2, <2>3, <2>4 DEF Serve
<1>3. ASSUME NEW D \in SUBSET Callers, End(D) PROVE Atomic!AtomicNext
  BY <1>3, EndVanishes DEF Atomic!AtomicNext
<1>4. ASSUME UNCHANGED <<objects, call, answer, bytes>>
      PROVE  [Atomic!AtomicNext]_(Atomic!atomicVars)
  BY <1>4 DEF Atomic!atomicVars
<1> QED
  BY <1>1, <1>2, <1>3, <1>4 DEF StorageNext, storageVars, callVars

\* Both stores keep the promise of the interface BlobStore (storage.go): every
\* Put, Get and Delete takes effect in one step, on whole objects.
THEOREM StorageImplementsAtomicStore == StorageSpec => ImplementsAtomicStore
<1>1. StorageInit => Atomic!AtomicInit
  BY DEF StorageInit
<1>2. StorageInv /\ [StorageNext]_storageVars
        => [Atomic!AtomicNext]_(Atomic!atomicVars)
  BY AtomicStep
<1> QED
  BY StorageCorrect, <1>1, <1>2, PTL
     DEF StorageSpec, ImplementsAtomicStore, Atomic!AtomicSpec
=============================================================================

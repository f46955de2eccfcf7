-------------------------- MODULE BlockTreeProofs --------------------------
(***************************************************************************)
(* Facts about chains of the block tree that the proofs about the node     *)
(* use, and what keeps the fork choice of a node on the best chain.        *)
(***************************************************************************)
EXTENDS BlockTree, NaturalsInduction, WellFoundedInduction, TLAPS

\* p leads from block a, which is not part of it, down to a descendant.
IsPath(a, p) ==
    \A i \in 1 .. Len(p) :
        p[i] # Genesis /\ Parent[p[i]] = IF i = 1 THEN a ELSE p[i - 1]

\* A block is an ancestor of itself, so its height alone identifies it among
\* its ancestors.
LEMMA SelfAncestor ==
    ASSUME NEW b \in Block
    PROVE  b \in Anc[b] /\ \A c \in Anc[b] : Anc[c] \subseteq Block /\ c \in Block
BY TreeAssumption

\* Two ancestors of a block at the same height are the same block.
LEMMA SameHeight ==
    ASSUME NEW b \in Block, NEW c \in Anc[b], NEW d \in Anc[b], Height[c] = Height[d]
    PROVE  c = d
<1>1. c \in Block /\ d \in Block
  BY SelfAncestor
<1>2. c \in Anc[d]
  BY <1>1, TreeAssumption
<1>3. CASE d = Genesis
  BY <1>2, <1>3, TreeAssumption
<1>4. CASE d # Genesis
  <2>1. Anc[d] = Anc[Parent[d]] \cup {d} /\ Height[d] = Height[Parent[d]] + 1 /\ Parent[d] \in Block
    BY <1>1, <1>4, TreeAssumption
  <2>2. ASSUME c \in Anc[Parent[d]] PROVE FALSE
    <3>1. Height[c] <= Height[Parent[d]]
      BY <2>1, <2>2, TreeAssumption
    <3>2. Height[c] \in Nat /\ Height[Parent[d]] \in Nat
      BY <1>1, <2>1, TreeAssumption
    <3> QED
      BY <2>1, <3>1, <3>2
  <2> QED
    BY <1>2, <2>1, <2>2
<1> QED
  BY <1>3, <1>4

\* The ancestors of an ancestor are ancestors.
LEMMA AncestorsOfAncestor ==
    ASSUME NEW b \in Block, NEW c \in Anc[b]
    PROVE  Anc[c] \subseteq Anc[b]
<1>1. SUFFICES ASSUME NEW d \in Anc[c] PROVE d \in Anc[b]
  OBVIOUS
<1>2. c \in Block /\ d \in Block
  BY SelfAncestor
<1>3. /\ Height[Genesis] <= Height[d]
      /\ Height[d] <= Height[c]
      /\ Height[c] <= Height[b]
  BY <1>2, TreeAssumption
<1>4. Height[Genesis] \in Nat /\ Height[d] \in Nat /\ Height[c] \in Nat /\ Height[b] \in Nat
  BY <1>2, TreeAssumption
<1>5. Height[d] \in Height[Genesis] .. Height[b]
  BY <1>3, <1>4
<1>6. PICK e \in Anc[b] : Height[e] = Height[d]
  BY <1>5, TreeAssumption
<1>7. e \in Anc[c]
  BY <1>3, <1>6, TreeAssumption
<1>8. e = d
  BY <1>2, <1>6, <1>7, SameHeight
<1> QED
  BY <1>8

\* The parent of an ancestor is one, and lies one below it.
LEMMA ParentOfAncestor ==
    ASSUME NEW b \in Block, NEW c \in Anc[b], c # Genesis
    PROVE  /\ c \in Block /\ Parent[c] \in Block
           /\ Parent[c] \in Anc[b]
           /\ Height[c] = Height[Parent[c]] + 1
           /\ Anc[c] = Anc[Parent[c]] \cup {c}
           /\ c \notin Anc[Parent[c]]
<1>1. c \in Block
  BY SelfAncestor
<1>2. /\ Parent[c] \in Block
      /\ Height[c] = Height[Parent[c]] + 1
      /\ Anc[c] = Anc[Parent[c]] \cup {c}
  BY <1>1, TreeAssumption
<1>3. Parent[c] \in Anc[b]
  <2>1. Parent[c] \in Anc[c]
    BY <1>2, SelfAncestor
  <2> QED
    BY <2>1, AncestorsOfAncestor
<1>4. c \notin Anc[Parent[c]]
  <2>1. c \in Anc[Parent[c]] => Height[c] <= Height[Parent[c]]
    BY <1>2, TreeAssumption
  <2>2. Height[c] \in Nat /\ Height[Parent[c]] \in Nat
    BY <1>1, <1>2, TreeAssumption
  <2> QED
    BY <1>2, <2>1, <2>2
<1> QED
  BY <1>1, <1>2, <1>3, <1>4

\* AncestorAt finds the ancestor of the height asked for.
LEMMA AncestorAtHeight ==
    ASSUME NEW b \in Block, NEW h \in Height[Genesis] .. Height[b]
    PROVE  AncestorAt(b, h) \in Anc[b] /\ Height[AncestorAt(b, h)] = h
<1>1. \E c \in Anc[b] : Height[c] = h
  BY TreeAssumption
<1> QED
  BY <1>1 DEF AncestorAt

\* LastCommon finds the highest block that two chains share.
LEMMA LastCommonHighest ==
    ASSUME NEW b \in Block, NEW t \in Block
    PROVE  /\ LastCommon(b, t) \in Anc[b] \cap Anc[t]
           /\ \A d \in Anc[b] \cap Anc[t] : Height[d] <= Height[LastCommon(b, t)]
<1> DEFINE both == Anc[b] \cap Anc[t]
           depth == {Height[b] - Height[c] : c \in both}
<1>1. \A c \in both : c \in Block /\ Height[c] \in Nat /\ Height[c] <= Height[b]
  BY SelfAncestor, TreeAssumption
<1>2. Height[b] \in Nat
  BY TreeAssumption
<1>3. Genesis \in both
  BY TreeAssumption
<1>4. depth \subseteq Nat /\ depth # {}
  BY <1>1, <1>2, <1>3
<1> HIDE DEF depth
<1>5. \E n \in depth : \A m \in depth : ~(m < n)
  <2>1. PICK n \in depth : \A m \in depth : ~(<<m, n>> \in OpToRel(<, Nat))
    BY <1>4, NatLessThanWellFounded, WFMin, ZenonT(30)
  <2>2. ASSUME NEW m \in depth PROVE ~(m < n)
    BY <1>4, <2>1, Zenon DEF OpToRel
  <2> QED
    BY <2>2
<1>6. PICK c \in both : \A d \in both : Height[d] <= Height[c]
  <2>1. PICK n \in depth : \A m \in depth : ~(m < n)
    BY <1>5
  <2>2. PICK c \in both : n = Height[b] - Height[c]
    BY <2>1 DEF depth
  <2>3. ASSUME NEW d \in both PROVE Height[d] <= Height[c]
    <3>1. ~(Height[b] - Height[d] < Height[b] - Height[c])
      BY <2>1, <2>2 DEF depth
    <3> QED
      BY <1>1, <1>2, <3>1
  <2> QED
    BY <2>3
<1> QED
  BY <1>6 DEF LastCommon

\* PathFromTo(a, b) is the path from an ancestor a of b to b.
LEMMA PathFromToIsPath ==
    ASSUME NEW b \in Block, NEW a \in Anc[b]
    PROVE  /\ PathFromTo(a, b) \in Seq(Anc[b])
           /\ Len(PathFromTo(a, b)) = Height[b] - Height[a]
           /\ IsPath(a, PathFromTo(a, b))
           /\ PathFromTo(a, b) = << >> => a = b
           /\ PathFromTo(a, b) # << >> =>
                  PathFromTo(a, b)[Len(PathFromTo(a, b))] = b
<1> DEFINE p == PathFromTo(a, b)
           n == Height[b] - Height[a]
<1>1. a \in Block /\ b \in Anc[b]
  BY SelfAncestor
<1>2. Height[Genesis] \in Nat /\ Height[a] \in Nat /\ Height[b] \in Nat
  BY <1>1, TreeAssumption
<1>3. Height[Genesis] <= Height[a] /\ Height[a] <= Height[b]
  BY TreeAssumption
<1>4. ASSUME NEW i \in 1 .. n
      PROVE  /\ AncestorAt(b, Height[a] + i) \in Anc[b]
             /\ Height[AncestorAt(b, Height[a] + i)] = Height[a] + i
  <2>1. Height[a] + i \in Height[Genesis] .. Height[b]
    BY <1>2, <1>3
  <2> QED
    BY <2>1, AncestorAtHeight
<1>5. n \in Nat /\ p = [i \in 1 .. n |-> AncestorAt(b, Height[a] + i)]
  BY <1>2, <1>3 DEF PathFromTo
<1>6. p \in Seq(Anc[b]) /\ Len(p) = n
  BY <1>4, <1>5
<1>7. \A i \in 1 .. n : p[i] \in Anc[b] /\ Height[p[i]] = Height[a] + i
  BY <1>4, <1>5
<1> HIDE DEF p, n
<1>8. IsPath(a, p)
  <2>1. SUFFICES ASSUME NEW i \in 1 .. n
                 PROVE  p[i] # Genesis /\ Parent[p[i]] = IF i = 1 THEN a ELSE p[i - 1]
    BY <1>6 DEF IsPath
  <2>2. p[i] \in Anc[b] /\ Height[p[i]] = Height[a] + i
    BY <1>7
  <2>3. p[i] # Genesis
    BY <1>2, <1>3, <1>5, <2>2
  <2>4. Parent[p[i]] \in Anc[b] /\ Height[p[i]] = Height[Parent[p[i]]] + 1 /\ Parent[p[i]] \in Block
    BY <2>2, <2>3, ParentOfAncestor
  <2>5. Height[Parent[p[i]]] = Height[a] + i - 1
    <3>1. Height[Parent[p[i]]] \in Nat
      BY <2>4, TreeAssumption
    <3>2. i \in Int /\ Height[a] \in Int
      BY <1>2, <1>5
    <3> QED
      BY <2>2, <2>4, <3>1, <3>2
  <2>6. CASE i = 1
    <3>1. Height[Parent[p[i]]] = Height[a]
      BY <1>2, <2>5, <2>6
    <3> QED
      BY <2>3, <2>4, <2>6, <3>1, SameHeight
  <2>7. CASE i # 1
    <3>1. i - 1 \in 1 .. n
      BY <1>5, <2>7
    <3>2. p[i - 1] \in Anc[b] /\ Height[p[i - 1]] = Height[a] + (i - 1)
      BY <1>7, <3>1
    <3>3. Height[Parent[p[i]]] = Height[p[i - 1]]
      BY <1>2, <1>5, <2>5, <3>2
    <3> QED
      BY <2>3, <2>4, <2>7, <3>2, <3>3, SameHeight
  <2> QED
    BY <2>6, <2>7
<1>9. p = << >> => a = b
  <2>1. p = << >> => n = 0
    BY <1>6
  <2>2. n = 0 => Height[a] = Height[b]
    BY <1>2 DEF n
  <2> QED
    BY <1>1, <2>1, <2>2, SameHeight
<1>10. p # << >> => p[Len(p)] = b
  <2>1. SUFFICES ASSUME p # << >> PROVE p[n] = b
    BY <1>6
  <2>2. n \in 1 .. n
    BY <1>5, <1>6, <2>1
  <2>3. p[n] \in Anc[b] /\ Height[p[n]] = Height[a] + n
    BY <1>7, <2>2
  <2>4. Height[p[n]] = Height[b]
    BY <1>2, <2>3 DEF n
  <2> QED
    BY <1>1, <2>3, <2>4, SameHeight
<1> QED
  BY <1>6, <1>8, <1>9, <1>10 DEF p, n

\* A path is extended by a child of its last block.
LEMMA AppendPath ==
    ASSUME NEW a, NEW p \in Seq(Block), NEW b \in Block, b # Genesis, IsPath(a, p),
           Parent[b] = IF p = << >> THEN a ELSE p[Len(p)]
    PROVE  IsPath(a, Append(p, b)) /\ Append(p, b)[Len(Append(p, b))] = b
<1>1. /\ Len(Append(p, b)) = Len(p) + 1
      /\ Append(p, b)[Len(p) + 1] = b
      /\ \A i \in 1 .. Len(p) : Append(p, b)[i] = p[i]
      /\ Len(p) \in Nat /\ (p = << >> <=> Len(p) = 0)
  OBVIOUS
<1>2. SUFFICES ASSUME NEW i \in 1 .. (Len(p) + 1)
               PROVE  /\ Append(p, b)[i] # Genesis
                      /\ Parent[Append(p, b)[i]] = IF i = 1 THEN a ELSE Append(p, b)[i - 1]
  BY <1>1 DEF IsPath
<1>3. CASE i \in 1 .. Len(p)
  <2>1. p[i] # Genesis /\ Parent[p[i]] = IF i = 1 THEN a ELSE p[i - 1]
    BY <1>3 DEF IsPath
  <2>2. i # 1 => i - 1 \in 1 .. Len(p)
    BY <1>1, <1>3
  <2> QED
    BY <1>1, <1>3, <2>1, <2>2
<1>4. CASE i = Len(p) + 1
  <2>1. Append(p, b)[i] = b
    BY <1>1, <1>4
  <2>2. i = 1 => Parent[b] = a
    BY <1>1, <1>4
  <2>3. i # 1 => Append(p, b)[i - 1] = Parent[b]
    BY <1>1, <1>4
  <2> QED
    BY <2>1, <2>2, <2>3
<1> QED
  BY <1>1, <1>3, <1>4

\* The rest of a path starts at its first block.
LEMMA TailPath ==
    ASSUME NEW a, NEW p \in Seq(Block), p # << >>, IsPath(a, p)
    PROVE  /\ Head(p) \in Block /\ Head(p) # Genesis /\ Parent[Head(p)] = a
           /\ Tail(p) \in Seq(Block) /\ IsPath(Head(p), Tail(p))
<1>1. /\ Len(p) \in Nat /\ Len(p) # 0 /\ Head(p) = p[1]
      /\ Tail(p) \in Seq(Block) /\ Len(Tail(p)) = Len(p) - 1
      /\ \A i \in 1 .. (Len(p) - 1) : Tail(p)[i] = p[i + 1]
  OBVIOUS
<1>2. 1 \in 1 .. Len(p)
  BY <1>1
<1>3. p[1] # Genesis /\ Parent[p[1]] = a
  BY <1>2 DEF IsPath
<1>4. IsPath(p[1], Tail(p))
  <2>1. SUFFICES ASSUME NEW i \in 1 .. (Len(p) - 1)
                 PROVE  /\ Tail(p)[i] # Genesis
                        /\ Parent[Tail(p)[i]] = IF i = 1 THEN p[1] ELSE Tail(p)[i - 1]
    BY <1>1 DEF IsPath
  <2>2. i + 1 \in 1 .. Len(p) /\ i + 1 # 1 /\ (i + 1) - 1 = i
    BY <1>1
  <2>3. p[i + 1] # Genesis /\ Parent[p[i + 1]] = p[i]
    BY <2>2 DEF IsPath
  <2>4. i # 1 => i - 1 \in 1 .. (Len(p) - 1) /\ (i - 1) + 1 = i
    BY <1>1
  <2> QED
    BY <1>1, <2>3, <2>4
<1> QED
  BY <1>1, <1>2, <1>3, <1>4

\* The blocks of the path to b from its ancestor a are the ancestors of b that are
\* not ancestors of a.
LEMMA PathBlocks ==
    ASSUME NEW b \in Block, NEW a \in Anc[b]
    PROVE  /\ \A i \in 1 .. Len(PathFromTo(a, b)) :
                  /\ PathFromTo(a, b)[i] \in Anc[b]
                  /\ Height[PathFromTo(a, b)[i]] > Height[a]
           /\ \A e \in Anc[b] \ Anc[a] :
                  \E i \in 1 .. Len(PathFromTo(a, b)) : PathFromTo(a, b)[i] = e
<1> DEFINE p == PathFromTo(a, b)
           n == Height[b] - Height[a]
<1>1. a \in Block /\ b \in Anc[b]
  BY SelfAncestor
<1>2. Height[Genesis] \in Nat /\ Height[a] \in Nat /\ Height[b] \in Nat
  BY <1>1, TreeAssumption
<1>3. Height[Genesis] <= Height[a] /\ Height[a] <= Height[b]
  BY TreeAssumption
<1>4. ASSUME NEW i \in 1 .. n
      PROVE  /\ AncestorAt(b, Height[a] + i) \in Anc[b]
             /\ Height[AncestorAt(b, Height[a] + i)] = Height[a] + i
  <2>1. Height[a] + i \in Height[Genesis] .. Height[b]
    BY <1>2, <1>3
  <2> QED
    BY <2>1, AncestorAtHeight
<1>5. n \in Nat /\ p = [i \in 1 .. n |-> AncestorAt(b, Height[a] + i)]
  BY <1>2, <1>3 DEF PathFromTo
<1>6. Len(p) = n
  BY <1>5
<1>7. \A i \in 1 .. n : p[i] \in Anc[b] /\ Height[p[i]] = Height[a] + i
  BY <1>4, <1>5
<1> HIDE DEF p
<1>8. \A i \in 1 .. n : p[i] \in Anc[b] /\ Height[p[i]] > Height[a]
  BY <1>2, <1>7
<1>9. ASSUME NEW e \in Anc[b], e \notin Anc[a] PROVE \E i \in 1 .. n : p[i] = e
  <2>1. e \in Block /\ Height[e] \in Nat
    BY SelfAncestor, TreeAssumption
  <2>2. Height[e] > Height[a] /\ Height[e] <= Height[b]
    <3>1. Height[e] <= Height[a] => e \in Anc[a]
      BY TreeAssumption
    <3>2. Height[e] <= Height[b]
      BY TreeAssumption
    <3> QED
      BY <3>1, <3>2, <1>2, <1>9, <2>1
  <2> DEFINE i == Height[e] - Height[a]
  <2>3. i \in 1 .. n /\ Height[a] + i = Height[e]
    BY <1>2, <2>1, <2>2
  <2> HIDE DEF i, n
  <2>4. p[i] \in Anc[b] /\ Height[p[i]] = Height[e]
    BY <1>7, <2>3
  <2> QED
    BY <2>3, <2>4, SameHeight
<1> QED
  BY <1>6, <1>8, <1>9 DEF p

----------------------------------------------------------------------------
(* The fork choice of a node that has never been stopped.  K are the known *)
(* blocks, val their validity, R the blocks the state refuses and M the    *)
(* depth of the longest fork that is followed; bst is the best block, br   *)
(* the branch point, and rem, app and dn are the blocks taken off, at hand *)
(* and done.                                                               *)

\* isBestBlock, for any block that b is compared with
Better(b, x) == Score[b] > Score[x] \/ (Score[b] = Score[x] /\ Height[b] > Height[x])

LastOf(p) == p[Len(p)]

\* Too low for the fork choice: some valid block is more than M above the
\* point where the chain of b branches off.
BranchedTooLow(K, val, M, b) ==
    \E c \in K : val[c] = "Valid" /\ Height[c] - Height[LastCommon(b, c)] > M

\* No chain of acceptable blocks beats x, but for those that branched off too low.
Settled(K, val, R, M, x) ==
    \A b \in K : Better(b, x) /\ Anc[b] \cap R = {} => BranchedTooLow(K, val, M, b)

\* What lies beyond x has an invalid block on the way from there.
Closed(val, d, x) == \E e \in Anc[d] \ Anc[x] : val[e] = "Invalid"
NothingOpen(K, val, x) == \A d \in K : x \in Anc[d] /\ d # x => Closed(val, d, x)

\* The block at which the chain was before the blocks at hand
Origin(br, rem) == IF rem = << >> THEN br ELSE LastOf(rem)

\* What makes the return to the origin possible, kept while some block at hand will
\* be refused: nothing but the last block at hand is open beyond the origin, the
\* blocks taken off can be applied again, and none of the others is among them.
WayBack(K, val, R, M, bst, br, rem, app, dn) ==
    LET o == Origin(br, rem)
    IN  /\ o \in K /\ Settled(K, val, R, M, o)
        /\ \A d \in K : o \in Anc[d] /\ d # o =>
               Closed(val, d, o) \/ (d = LastOf(app) /\ rem = << >>)
        /\ \A i \in 1 .. Len(rem) : rem[i] \notin R
        /\ rem = << >> => dn = << >> /\ Len(app) = 1 /\ br = bst
        /\ \A i \in 1 .. Len(app) : app[i] \notin Anc[o]
        /\ \A i \in 1 .. Len(dn) : dn[i] \notin Anc[o]

\* The blocks at hand lead to a block that will do as the best one, off the blocks
\* that were taken off; or some of them is refused, and there is a way back.
Planned(K, val, R, M, bst, br, rem, app, dn) ==
    /\ app # << >>
    /\ Settled(K, val, R, M, LastOf(app)) /\ NothingOpen(K, val, LastOf(app))
    /\ \A i \in 1 .. Len(rem) : rem[i] \notin Anc[LastOf(app)]
    /\ (\E i \in 1 .. Len(app) : app[i] \in R) => WayBack(K, val, R, M, bst, br, rem, app, dn)

\* The known blocks with all that come before them
Tree(K) == K \subseteq Block /\ \A d \in K : Anc[d] \subseteq K

\* Block h gets validity v and the other blocks keep theirs.
Marked(K, val, val2, h, v) == \A c \in K : val2[c] = IF c = h THEN v ELSE val[c]

\* Block n comes to a node that is at rest at block x.
Arrives(K, val, val2, R, M, x, n) ==
    /\ Tree(K) /\ x \in K /\ Settled(K, val, R, M, x) /\ NothingOpen(K, val, x)
    /\ \A c \in K : val2[c] = val[c]
    /\ n \in Block /\ n \notin K /\ n # Genesis /\ Parent[n] \in K

\* A block that has been found valid leaves the fork choice no more to choose from.
LEMMA SettledKept ==
    ASSUME NEW K, NEW val, NEW val2, NEW R, NEW M, NEW x, Settled(K, val, R, M, x),
           \A c \in K : val[c] = "Valid" => val2[c] = "Valid"
    PROVE  Settled(K, val2, R, M, x)
BY Zenon DEF Settled, BranchedTooLow

\* An invalid block stays so, and keeps what lies beyond it closed.
LEMMA ClosedKept ==
    ASSUME NEW K \in SUBSET Block, NEW val, NEW val2, NEW d \in K, NEW x, Anc[d] \subseteq K, Closed(val, d, x),
           \A c \in K : val[c] = "Invalid" => val2[c] = "Invalid"
    PROVE  Closed(val2, d, x)
BY Zenon DEF Closed

\* Nothing is opened by a change of validity that leaves invalid blocks alone.
LEMMA NothingOpenKept ==
    ASSUME NEW K \in SUBSET Block, NEW val, NEW val2, NEW x, NothingOpen(K, val, x), \A d \in K : Anc[d] \subseteq K,
           \A c \in K : val[c] = "Invalid" => val2[c] = "Invalid"
    PROVE  NothingOpen(K, val2, x)
BY ClosedKept, Zenon DEF NothingOpen

\* A block beats the blocks that a block it beats beats.
LEMMA BetterTransitive ==
    ASSUME NEW a \in Block, NEW b \in Block, NEW c \in Block, Better(a, b), Better(b, c)
    PROVE  Better(a, c)
<1>1. Score[a] \in Nat /\ Score[b] \in Nat /\ Score[c] \in Nat
  BY TreeAssumption
<1>2. Height[a] \in Nat /\ Height[b] \in Nat /\ Height[c] \in Nat
  BY TreeAssumption
<1> QED
  BY <1>1, <1>2 DEF Better

\* updateSemanticValidity of a block that is not refused.
LEMMA PlannedMarkedValid ==
    ASSUME NEW K, NEW val, NEW val2, NEW R, NEW M, NEW bst, NEW br, NEW rem, NEW app, NEW dn, NEW h,
           Tree(K), Planned(K, val, R, M, bst, br, rem, app, dn), Marked(K, val, val2, h, "Valid"),
           h \notin R, \A c \in K : val[c] = "Invalid" => c \in R
    PROVE  Planned(K, val2, R, M, bst, br, rem, app, dn)
<1>1. \A c \in K : val[c] = "Valid" => val2[c] = "Valid"
  BY Zenon DEF Marked
<1>2. \A c \in K : val[c] = "Invalid" => val2[c] = "Invalid"
  BY Zenon DEF Marked
<1>3. ASSUME NEW x, Settled(K, val, R, M, x) PROVE Settled(K, val2, R, M, x)
  BY ONLY <1>1, <1>3, SettledKept, Zenon
<1>T. K \in SUBSET Block /\ \A d \in K : Anc[d] \subseteq K
  BY DEF Tree
<1>4. ASSUME NEW x, NothingOpen(K, val, x) PROVE NothingOpen(K, val2, x)
  BY ONLY <1>T, <1>2, <1>4, NothingOpenKept, Zenon
<1>5. ASSUME NEW x, NEW d \in K, Closed(val, d, x) PROVE Closed(val2, d, x)
  <2>1. Anc[d] \subseteq K
    BY ONLY <1>T, d \in K, Zenon
  <2> QED
    BY ONLY <1>T, <1>2, <1>5, <2>1, d \in K, ClosedKept, Zenon
<1>6. WayBack(K, val, R, M, bst, br, rem, app, dn) => WayBack(K, val2, R, M, bst, br, rem, app, dn)
  BY <1>3, <1>5, Zenon DEF WayBack
<1> QED
  BY <1>3, <1>4, <1>6, Zenon DEF Planned

\* reportModifierIsInvalid: the chain goes back to the origin.
LEMMA PlannedReturn ==
    ASSUME NEW K, NEW val, NEW val2, NEW R, NEW M, NEW bst, NEW br, NEW rem, NEW app \in Seq(Block), NEW dn,
           Tree(K), Planned(K, val, R, M, bst, br, rem, app, dn), Marked(K, val, val2, app[1], "Invalid"),
           app[1] \in R, \A c \in K : val[c] = "Valid" => c \notin R
    PROVE  /\ rem # << >> => Planned(K, val2, R, M, bst, br, dn, rem, << >>)
           /\ rem = << >> => /\ dn = << >> /\ br = bst
                             /\ Settled(K, val2, R, M, bst) /\ NothingOpen(K, val2, bst)
<1> USE DEF Tree, Marked
<1> DEFINE o == Origin(br, rem)
<1>0. app # << >>
  BY Zenon DEF Planned
<1>1. 1 \in 1 .. Len(app)
  BY <1>0
<1>2. WayBack(K, val, R, M, bst, br, rem, app, dn)
  BY <1>1, Zenon DEF Planned
<1>3. \A c \in K : val[c] = "Valid" => val2[c] = "Valid"
  BY Zenon
<1>4. \A c \in K : val[c] = "Invalid" => val2[c] = "Invalid"
  BY Zenon
<1>5. Settled(K, val2, R, M, o)
  BY <1>2, <1>3, SettledKept, Zenon DEF WayBack
<1>6. ASSUME NEW d \in K, o \in Anc[d], d # o PROVE Closed(val2, d, o)
  <2>1. CASE Closed(val, d, o)
    <3> HIDE DEF o
    <3>1. Anc[d] \subseteq K
      BY Zenon
    <3> QED
      BY <2>1, <3>1, <1>4, ClosedKept
  <2>2. CASE d = LastOf(app) /\ rem = << >>
    <3>1. Len(app) = 1
      BY <1>2, <2>2, Zenon DEF WayBack
    <3>2. d = app[1]
      BY <2>2, <3>1 DEF LastOf
    <3>3. app[1] \notin Anc[o]
      BY <1>1, <1>2, Zenon DEF WayBack
    <3>4. d \in Anc[d]
      BY SelfAncestor
    <3> QED
      BY <3>2, <3>3, <3>4, Zenon DEF Closed
  <2> QED
    BY <2>1, <2>2, <1>2, <1>6, Zenon DEF WayBack
<1>7. NothingOpen(K, val2, o)
  BY <1>6, Zenon DEF NothingOpen
<1>8. ASSUME rem # << >> PROVE Planned(K, val2, R, M, bst, br, dn, rem, << >>)
  <2>1. o = LastOf(rem)
    BY <1>8, Zenon DEF Origin
  <2>2. \A i \in 1 .. Len(dn) : dn[i] \notin Anc[LastOf(rem)]
    BY <1>2, <2>1, Zenon DEF WayBack
  <2>3. \A i \in 1 .. Len(rem) : rem[i] \notin R
    BY <1>2, Zenon DEF WayBack
  <2> QED
    BY <1>5, <1>7, <1>8, <2>1, <2>2, <2>3, Zenon DEF Planned
<1>9. ASSUME rem = << >>
      PROVE  dn = << >> /\ br = bst /\ Settled(K, val2, R, M, bst) /\ NothingOpen(K, val2, bst)
  <2>1. dn = << >> /\ br = bst
    BY <1>2, <1>9, Zenon DEF WayBack
  <2>2. o = bst
    BY <1>9, <2>1, Zenon DEF Origin
  <2> QED
    BY <1>5, <1>7, <2>1, <2>2, Zenon
<1> QED
  BY <1>8, <1>9, Zenon

\* setAsBestBlock: the first of the blocks at hand is done.
LEMMA PlannedAdvance ==
    ASSUME NEW K, NEW val, NEW R, NEW M, NEW bst, NEW br, NEW rem, NEW app \in Seq(Block), NEW dn \in Seq(Block),
           Planned(K, val, R, M, bst, br, rem, app, dn)
    PROVE  /\ Tail(app) # << >> => Planned(K, val, R, M, app[1], br, rem, Tail(app), Append(dn, app[1]))
           /\ Tail(app) = << >> => /\ Settled(K, val, R, M, app[1]) /\ NothingOpen(K, val, app[1])
                                   /\ \A i \in 1 .. Len(rem) : rem[i] \notin Anc[app[1]]
<1>0. app # << >>
  BY Zenon DEF Planned
<1>1. /\ Len(app) \in Nat /\ Len(app) # 0 /\ Len(Tail(app)) = Len(app) - 1
      /\ \A i \in 1 .. Len(Tail(app)) : Tail(app)[i] = app[i + 1] /\ i + 1 \in 1 .. Len(app)
      /\ (Tail(app) = << >> <=> Len(app) = 1)
  <2>1. /\ Len(app) \in Nat /\ Len(app) # 0 /\ Len(Tail(app)) = Len(app) - 1
        /\ Tail(app) \in Seq(Block)
    BY <1>0
  <2>2. \A i \in 1 .. (Len(app) - 1) : Tail(app)[i] = app[i + 1]
    BY <1>0
  <2>3. \A i \in 1 .. (Len(app) - 1) : i + 1 \in 1 .. Len(app)
    BY <2>1
  <2>4. Tail(app) = << >> <=> Len(Tail(app)) = 0
    <3>1. \A t \in Seq(Block) : t = << >> <=> Len(t) = 0
      OBVIOUS
    <3> QED
      BY <2>1, <3>1, Zenon
  <2> QED
    BY <2>1, <2>2, <2>3, <2>4
<1>2. ASSUME Tail(app) = << >>
      PROVE  /\ Settled(K, val, R, M, app[1]) /\ NothingOpen(K, val, app[1])
             /\ \A i \in 1 .. Len(rem) : rem[i] \notin Anc[app[1]]
  <2>1. LastOf(app) = app[1]
    BY <1>1, <1>2 DEF LastOf
  <2> QED
    BY <2>1, Zenon DEF Planned
<1>3. ASSUME Tail(app) # << >>
      PROVE  Planned(K, val, R, M, app[1], br, rem, Tail(app), Append(dn, app[1]))
  <2> DEFINE t == Tail(app)
             dn2 == Append(dn, app[1])
  <2>1. LastOf(t) = LastOf(app)
    <3>1. Len(t) \in 1 .. Len(t) /\ Len(t) + 1 = Len(app)
      BY <1>1, <1>3
    <3> QED
      BY <1>1, <3>1 DEF LastOf
  <2>2. ASSUME NEW i \in 1 .. Len(t), t[i] \in R
        PROVE  WayBack(K, val, R, M, app[1], br, rem, t, dn2)
    <3>1. i + 1 \in 1 .. Len(app) /\ app[i + 1] \in R
      BY <1>1, <2>2
    <3>2. WayBack(K, val, R, M, bst, br, rem, app, dn)
      BY <3>1, Zenon DEF Planned
    <3>3. rem # << >>
      BY <1>1, <1>3, <3>2, Zenon DEF WayBack
    <3> DEFINE o == Origin(br, rem)
    <3>4. /\ \A j \in 1 .. Len(app) : app[j] \notin Anc[o]
          /\ \A j \in 1 .. Len(dn) : dn[j] \notin Anc[o]
      BY <3>2, Zenon DEF WayBack
    <3>5. \A j \in 1 .. Len(t) : t[j] \notin Anc[o]
      BY <1>1, <3>4, Zenon
    <3>6. \A j \in 1 .. Len(dn2) : dn2[j] \notin Anc[o]
      <4>1. app[1] \notin Anc[o]
        BY <1>1, <3>4
      <4>2. Len(dn) \in Nat /\ Len(dn2) = Len(dn) + 1 /\ dn2[Len(dn) + 1] = app[1]
            /\ \A j \in 1 .. Len(dn) : dn2[j] = dn[j]
        BY <1>1
      <4>3. ASSUME NEW j \in 1 .. Len(dn2) PROVE dn2[j] \notin Anc[o]
        <5> HIDE DEF dn2, o
        <5>1. j \in 1 .. Len(dn) \/ j = Len(dn) + 1
          BY <4>2
        <5> QED
          BY <5>1, <4>1, <4>2, <3>4
      <4> QED
        BY <4>3
    <3> HIDE DEF t, dn2
    <3> QED
      BY <2>1, <3>2, <3>3, <3>5, <3>6, Zenon DEF WayBack
  <2> HIDE DEF t, dn2
  <2>3. Planned(K, val, R, M, app[1], br, rem, t, dn2)
    BY <1>3, <2>1, <2>2, Zenon DEF Planned, t
  <2> QED
    BY <2>3 DEF t, dn2
<1> QED
  BY <1>2, <1>3, Zenon

\* A chain that is known in part: a new block has no known descendants, and no block
\* has it as an ancestor.
LEMMA NewBlockIsNew ==
    ASSUME NEW K \in SUBSET Block, \A d \in K : Anc[d] \subseteq K, NEW n \in Block, n \notin K
    PROVE  \A d \in K \cup {n} : n \in Anc[d] => d = n
OBVIOUS

\* Whatever is settled stays so when block n, which may have been put aside, comes.
LEMMA SettledGrows ==
    ASSUME NEW K \in SUBSET Block, NEW val, NEW val2, NEW R, NEW M, NEW x, NEW n, n \notin K,
           Settled(K, val, R, M, x), \A c \in K : val2[c] = val[c],
           Better(n, x) /\ Anc[n] \cap R = {} => BranchedTooLow(K, val, M, n)
    PROVE  Settled(K \cup {n}, val2, R, M, x)
<1>1. \A b : BranchedTooLow(K, val, M, b) => BranchedTooLow(K \cup {n}, val2, M, b)
  BY Zenon DEF BranchedTooLow
<1> QED
  BY <1>1, Zenon DEF Settled

\* What is closed stays closed when a block is added.
LEMMA ClosedGrows ==
    ASSUME NEW K \in SUBSET Block, \A d \in K : Anc[d] \subseteq K, NEW val, NEW val2, NEW x,
           NEW d \in K, \A c \in K : val2[c] = val[c], Closed(val, d, x)
    PROVE  Closed(val2, d, x)
BY Zenon DEF Closed

\* Nothing is beyond the new block, and whatever beats it beats the best block.
LEMMA NewBlockWillDo ==
    ASSUME NEW K \in SUBSET Block, \A d \in K : Anc[d] \subseteq K, NEW val, NEW val2, NEW R, NEW M,
           NEW x \in K, Settled(K, val, R, M, x), \A c \in K : val2[c] = val[c],
           NEW n \in Block, n \notin K, Better(n, x)
    PROVE  Settled(K \cup {n}, val2, R, M, n) /\ NothingOpen(K \cup {n}, val2, n)
<1>1. ~Better(n, n)
  <2>1. Score[n] \in Nat /\ Height[n] \in Nat
    BY TreeAssumption
  <2> QED
    BY <2>1 DEF Better
<1>2. \A b \in K : Better(b, n) => Better(b, x)
  BY BetterTransitive
<1>3. Settled(K, val, R, M, n)
  BY <1>2, Zenon DEF Settled
<1>4. Settled(K \cup {n}, val2, R, M, n)
  BY <1>1, <1>3, SettledGrows, Zenon
<1>5. NothingOpen(K \cup {n}, val2, n)
  BY NewBlockIsNew, Zenon DEF NothingOpen
<1> QED
  BY <1>4, <1>5

\* A child of the best block.
LEMMA ExtensionIsPlanned ==
    ASSUME NEW K, NEW val, NEW val2, NEW R, NEW M, NEW x, NEW n, Arrives(K, val, val2, R, M, x, n),
           Parent[n] = x
    PROVE  Planned(K \cup {n}, val2, R, M, x, x, << >>, <<n>>, << >>)
<1> USE DEF Arrives, Tree
<1> DEFINE K2 == K \cup {n}
<1>1. Better(n, x)
  <2>1. Score[n] > Score[Parent[n]]
    BY TreeAssumption
  <2> QED
    BY <2>1 DEF Better
<1>2. Settled(K2, val2, R, M, n) /\ NothingOpen(K2, val2, n)
  BY <1>1, NewBlockWillDo
<1>3. LastOf(<<n>>) = n /\ Len(<<n>>) = 1 /\ <<n>>[1] = n /\ <<n>> # << >> /\ Len(<< >>) = 0
  BY DEF LastOf
<1>4. ASSUME n \in R PROVE WayBack(K2, val2, R, M, x, x, << >>, <<n>>, << >>)
  <2>1. n \in Anc[n]
    BY SelfAncestor
  <2>2. Settled(K2, val2, R, M, x)
    BY <1>4, <2>1, SettledGrows, SMTT(30)
  <2>3. ASSUME NEW d \in K2, x \in Anc[d], d # x PROVE Closed(val2, d, x) \/ d = n
    BY <2>3, ClosedGrows, Zenon DEF NothingOpen
  <2>4. n \notin Anc[x]
    OBVIOUS
  <2>5. \A i \in 1 .. Len(<<n>>) : <<n>>[i] \notin Anc[x]
    BY <1>3, <2>4
  <2>6. x \in K2 /\ Origin(x, << >>) = x
    BY DEF Origin
  <2>7. \A i \in 1 .. Len(<< >>) : FALSE
    BY <1>3
  <2> HIDE DEF K2
  <2> QED
    BY <1>3, <2>2, <2>3, <2>5, <2>6, <2>7, Zenon DEF WayBack
<1>5. \A i \in 1 .. Len(<<n>>) : <<n>>[i] \in R => n \in R
  BY <1>3
<1>6. \A i \in 1 .. Len(<< >>) : FALSE
  BY <1>3
<1> HIDE DEF K2
<1>7. Planned(K2, val2, R, M, x, x, << >>, <<n>>, << >>)
  BY <1>2, <1>3, <1>4, <1>5, <1>6, Zenon DEF Planned
<1> QED
  BY <1>7 DEF K2

\* The new block does not enter the active chain: it is no better than the best
\* block, it follows a refused block, or it branched off too low.
LEMMA RestIsKept ==
    ASSUME NEW K, NEW val, NEW val2, NEW R, NEW M, NEW x, NEW n, Arrives(K, val, val2, R, M, x, n),
           Parent[n] # x, Better(n, x) /\ Anc[n] \cap R = {} => BranchedTooLow(K, val, M, n)
    PROVE  Settled(K \cup {n}, val2, R, M, x) /\ NothingOpen(K \cup {n}, val2, x)
<1> USE DEF Arrives, Tree
<1>1. Settled(K \cup {n}, val2, R, M, x)
  BY SettledGrows
<1>2. Anc[n] = Anc[Parent[n]] \cup {n}
  BY TreeAssumption
<1>3. ASSUME x \in Anc[n] PROVE Closed(val2, n, x)
  <2>1. x \in Anc[Parent[n]]
    BY <1>2, <1>3
  <2>2. Closed(val2, Parent[n], x)
    BY <2>1, ClosedGrows DEF NothingOpen
  <2> QED
    BY <1>2, <2>2, Zenon DEF Closed
<1>4. \A d \in K : x \in Anc[d] /\ d # x => Closed(val2, d, x)
  BY ClosedGrows, Zenon DEF NothingOpen
<1>5. NothingOpen(K \cup {n}, val2, x)
  BY <1>3, <1>4, Zenon DEF NothingOpen
<1> QED
  BY <1>1, <1>5

\* A better chain that branches off below the best block: it does not come after
\* it, because an invalid block would be on the way.
LEMMA ForkIsPlanned ==
    ASSUME NEW K, NEW val, NEW val2, NEW R, NEW M, NEW x, NEW n, Arrives(K, val, val2, R, M, x, n),
           Parent[n] # x, Better(n, x), \A c \in Anc[x] : c \notin R,
           NEW common, common = LastCommon(Parent[n], x),
           NEW suffix, suffix = PathFromTo(common, Parent[n]),
           NEW old, old = PathFromTo(common, x),
           \A i \in 1 .. Len(suffix) : val[suffix[i]] # "Invalid"
    PROVE  Planned(K \cup {n}, val2, R, M, x, common, old, Append(suffix, n), << >>)
<1> USE DEF Arrives, Tree
<1> DEFINE K2 == K \cup {n}
           app == Append(suffix, n)
<1>1. /\ Anc[n] = Anc[Parent[n]] \cup {n} /\ n \in Anc[n]
      /\ n \notin Anc[x] /\ x \in Block /\ Parent[n] \in Block
  BY TreeAssumption
<1>2. /\ common \in Anc[Parent[n]] /\ common \in Anc[x]
      /\ \A d \in Anc[Parent[n]] \cap Anc[x] : Height[d] <= Height[common]
  BY <1>1, LastCommonHighest, SMTT(30)
<1>3. \A c \in Anc[x] \cup Anc[n] : c \in Block /\ Height[c] \in Nat
  BY <1>1, SelfAncestor, TreeAssumption, ZenonT(30)
<1>4. /\ old \in Seq(Anc[x]) /\ Len(old) = Height[x] - Height[common]
      /\ (old = << >> => common = x) /\ (old # << >> => LastOf(old) = x)
  BY <1>1, <1>2, PathFromToIsPath, SMTT(30) DEF LastOf
<1>5. suffix \in Seq(Anc[Parent[n]])
  BY <1>1, <1>2, PathFromToIsPath
<1>6. /\ \A i \in 1 .. Len(suffix) : suffix[i] \in Anc[Parent[n]] /\ Height[suffix[i]] > Height[common]
      /\ \A e \in Anc[Parent[n]] \ Anc[common] : \E i \in 1 .. Len(suffix) : suffix[i] = e
  BY <1>1, <1>2, PathBlocks
<1>7. \A i \in 1 .. Len(old) : old[i] \in Anc[x] /\ Height[old[i]] > Height[common]
  BY <1>1, <1>2, PathBlocks
<1>8. \A e : e \in Anc[Parent[n]] /\ e \in Anc[x] => ~(Height[e] > Height[common])
  BY <1>1, <1>2, <1>3
<1>9. old # << >>
  <2> SUFFICES ASSUME old = << >> PROVE FALSE
    OBVIOUS
  <2>1. common = x /\ x \in Anc[Parent[n]]
    BY <1>2, <1>4
  <2>2. PICK e \in Anc[Parent[n]] \ Anc[x] : val[e] = "Invalid"
    BY <2>1, Zenon DEF NothingOpen, Closed
  <2>3. e \in Anc[Parent[n]] \ Anc[common]
    BY <2>1, <2>2
  <2>4. PICK i \in 1 .. Len(suffix) : suffix[i] = e
    BY <1>6, <2>3, Zenon
  <2> QED
    BY <2>2, <2>4, Zenon
<1>10. x \notin Anc[Parent[n]]
  <2>1. x \in Anc[x] /\ Height[x] > Height[common]
    <3>1. Len(old) \in 1 .. Len(old)
      BY <1>4, <1>9
    <3> QED
      BY <1>4, <1>7, <1>9, <3>1 DEF LastOf
  <2> QED
    BY <1>8, <2>1
<1>11. /\ app # << >> /\ LastOf(app) = n /\ Len(app) = Len(suffix) + 1 /\ Len(suffix) \in Nat
       /\ \A i \in 1 .. Len(app) : app[i] = n \/ (i \in 1 .. Len(suffix) /\ app[i] = suffix[i])
  <2>1. /\ Len(app) = Len(suffix) + 1 /\ Len(suffix) \in Nat /\ app[Len(suffix) + 1] = n
        /\ \A i \in 1 .. Len(suffix) : app[i] = suffix[i]
    BY <1>5
  <2>2. app # << >>
    BY <2>1
  <2>3. LastOf(app) = n
    BY <2>1, Zenon DEF LastOf
  <2>4. \A i \in 1 .. (Len(suffix) + 1) : i \in 1 .. Len(suffix) \/ i = Len(suffix) + 1
    BY <2>1
  <2> HIDE DEF app
  <2> QED
    BY <2>1, <2>2, <2>3, <2>4
<1> HIDE DEF app
<1>12. \A i \in 1 .. Len(app) : app[i] \in Anc[n] /\ app[i] \notin Anc[x]
  BY <1>1, <1>6, <1>8, <1>11, ZenonT(30)
<1>13. Settled(K2, val2, R, M, n) /\ NothingOpen(K2, val2, n)
  BY NewBlockWillDo
<1>14. \A i \in 1 .. Len(old) : old[i] \notin Anc[n]
  <2>1. \A i \in 1 .. Len(old) : old[i] # n
    BY <1>1, <1>7, Zenon
  <2> QED
    BY <1>1, <1>7, <1>8, <2>1, Zenon
<1>15. ASSUME NEW i \in 1 .. Len(app), app[i] \in R
       PROVE  WayBack(K2, val2, R, M, x, common, old, app, << >>)
  <2>1. Anc[n] \cap R # {}
    BY <1>12, <1>15
  <2>2. Settled(K2, val2, R, M, x)
    BY <2>1, SettledGrows, Zenon
  <2>3. ASSUME NEW d \in K2, x \in Anc[d], d # x PROVE Closed(val2, d, x)
    <3>1. CASE d \in K
      <4>1. Closed(val, d, x)
        BY <2>3, <3>1, Zenon DEF NothingOpen
      <4> QED
        BY <3>1, <4>1, ClosedGrows
    <3>2. CASE d = n
      BY <1>1, <1>10, <2>3, <3>2, Zenon
    <3> QED
      BY <3>1, <3>2
  <2>4. \A j \in 1 .. Len(old) : old[j] \notin R
    BY <1>7, Zenon
  <2>5. Origin(common, old) = x /\ x \in K2
    BY <1>4, <1>9, Zenon DEF Origin
  <2>6. \A j \in 1 .. Len(<< >>) : FALSE
    OBVIOUS
  <2> HIDE DEF K2
  <2> QED
    BY <1>9, <1>12, <2>2, <2>3, <2>4, <2>5, <2>6, ZenonT(30) DEF WayBack
<1> HIDE DEF K2
<1>16. Planned(K2, val2, R, M, x, common, old, app, << >>)
  BY <1>11, <1>13, <1>14, <1>15, Zenon DEF Planned
<1> QED
  BY <1>16 DEF K2, app

=============================================================================

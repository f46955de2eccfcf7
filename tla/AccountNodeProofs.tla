------------------------- MODULE AccountNodeProofs -------------------------
(***************************************************************************)
(* Proofs about the node of the account model, for every block tree, every *)
(* set of refused blocks and every number of stops at any point.           *)
(***************************************************************************)
EXTENDS AccountNodeViewHolder, BlockTreeProofs

metadata == versions["stateMetadata"]

\* The versions in v are ids of blocks of one chain, newest first.
ChainOfVersions(v) ==
    \A i \in 1 .. Len(v) :
        /\ v[i] = IdVersion(v[i][1])
        /\ \A j \in 1 .. Len(v) : i < j => v[j][1] \in Anc[v[i][1]] \ {v[i][1]}

VersionsAreAChain == ChainOfVersions(metadata)

\* A block the state refuses is never marked valid.
ValidAreNotRefused == \A b \in Block : validity[b] = "Valid" => b \notin refused

Working == phase \in {"stateRollback", "apply", "state", "valid", "best", "invalid"}

\* What is to be removed and what is to be applied are paths from the branch
\* point, which is on the active chain; the best block follows what is done.
WorkIsOnPaths ==
    Working =>
        /\ branch \in ActiveChain
        /\ IsPath(branch, toRemove)
        /\ IsPath(branch, done)
        /\ IsPath(IF done = << >> THEN branch ELSE best, toApply)
        /\ phase # "stateRollback" => toApply # << >>
        /\ phase = "stateRollback" => done = << >>
        /\ done # << >> => done[Len(done)] = best

\* Where the state is in each phase.  It may lag behind the best block after a
\* stop, but then only new blocks fail to apply.
StateFollows ==
    /\ phase \in {"idle", "apply", "invalid"} =>
          \E b \in ActiveChain : stateVersion = IdVersion(b)
    /\ phase \in {"apply", "invalid"} /\ done = << >> /\ toRemove # << >> =>
          stateVersion = IdVersion(branch)
    /\ phase = "apply" /\ (done # << >> \/ Head(toApply) \in ActiveChain) =>
          stateVersion = IdVersion(Parent[Head(toApply)])
    /\ phase = "state" =>
          /\ stateVersion = IdVersion(Parent[Head(toApply)])
          /\ Head(toApply) \notin refused
    /\ phase \in {"valid", "best"} =>
          /\ stateVersion = IdVersion(Head(toApply))
          /\ Head(toApply) \notin refused
    /\ phase = "best" => validity[Head(toApply)] = "Valid"
    /\ phase = "invalid" => Head(toApply) \notin ActiveChain

\* The phases of the account node and the storages they write.
AccountPhases ==
    /\ phase \in {"idle", "stateRollback", "apply", "state", "valid", "best",
                  "invalid", "down", "halted"}
    /\ phase \in {"stateRollback", "state"} => left = <<"stateMetadata">>
    /\ phase \notin {"stateRollback", "state"} => left = << >>
    /\ booting = FALSE
    /\ phase = "down" => toRemove = << >> /\ toApply = << >> /\ done = << >>

IInv ==
    /\ TypeOK
    /\ AccountPhases
    /\ VersionsAreAChain
    /\ ValidAreNotRefused
    /\ ActiveChainValid
    /\ WorkIsOnPaths
    /\ StateFollows

-----------------------------------------------------------------------------

\* The account node has one versioned storage, which is also the one that
\* names the version of the state; a rollback starts with it.
LEMMA OneStorage ==
    /\ Storages = {"stateMetadata"}
    /\ ForgingStorage # "stateMetadata"
    /\ RollbackStart = "stateRollback"
    /\ RollbackLeft = <<"stateMetadata">>
    /\ stateVersion = metadata[1]
<1>1. StateStorages = {"stateMetadata"} /\ WalletStorages = {}
  BY StoragesAssumption DEF StateStorages, WalletStorages
<1>2. Storages = {"stateMetadata"}
  BY <1>1 DEF Storages
<1> QED
  BY <1>2, StoragesAssumption
     DEF RollbackStart, RollbackLeft, stateVersion, Top, metadata

\* A rollback to the id of a block ends at that block.
LEMMA RolledBackChain ==
    ASSUME NEW b \in Block, metadata \in Seq(Version), ChainOfVersions(metadata),
           HasVersion("stateMetadata", IdVersion(b))
    PROVE  /\ RolledBack("stateMetadata", IdVersion(b)) \in Seq(Version)
           /\ RolledBack("stateMetadata", IdVersion(b)) # << >>
           /\ RolledBack("stateMetadata", IdVersion(b))[1] = IdVersion(b)
           /\ ChainOfVersions(RolledBack("stateMetadata", IdVersion(b)))
<1> DEFINE n == Len(metadata)
           k == CHOOSE j \in 1 .. n : metadata[j] = IdVersion(b)
           r == SubSeq(metadata, k, n)
<1>1. k \in 1 .. n /\ metadata[k] = IdVersion(b)
  BY DEF HasVersion, metadata
<1>2. n \in Nat
  OBVIOUS
<1> HIDE DEF k
<1>3. /\ r \in Seq(Version) /\ Len(r) = n - k + 1
      /\ \A i \in 1 .. (n - k + 1) : r[i] = metadata[k + i - 1]
  BY <1>1, <1>2
<1> HIDE DEF r, n
<1>4. r # << >> /\ r[1] = IdVersion(b)
  <2>1. 1 \in 1 .. (n - k + 1) /\ k + 1 - 1 = k
    BY <1>1, <1>2
  <2> QED
    BY <1>1, <1>2, <1>3, <2>1
<1>5. ChainOfVersions(r)
  <2>1. SUFFICES ASSUME NEW i \in 1 .. Len(r)
                 PROVE  /\ r[i] = IdVersion(r[i][1])
                        /\ \A j \in 1 .. Len(r) : i < j => r[j][1] \in Anc[r[i][1]] \ {r[i][1]}
    BY DEF ChainOfVersions
  <2>2. k + i - 1 \in 1 .. n /\ r[i] = metadata[k + i - 1]
    BY <1>1, <1>2, <1>3
  <2>3. metadata[k + i - 1] = IdVersion(metadata[k + i - 1][1])
    BY <2>2 DEF ChainOfVersions, n
  <2>4. ASSUME NEW j \in 1 .. Len(r), i < j
        PROVE  r[j][1] \in Anc[r[i][1]] \ {r[i][1]}
    <3>1. j \in 1 .. (n - k + 1) /\ i \in Int
      BY <1>3
    <3>2. k + j - 1 \in 1 .. n /\ k + i - 1 < k + j - 1
      BY <1>1, <1>2, <2>4, <3>1
    <3>3. r[j] = metadata[k + j - 1]
      BY <1>3, <3>1
    <3> QED
      BY <2>2, <3>2, <3>3 DEF ChainOfVersions, n
  <2> QED
    BY <2>2, <2>3, <2>4
<1>6. RolledBack("stateMetadata", IdVersion(b)) = r
  BY DEF RolledBack, metadata, r, k, n
<1> QED
  BY <1>3, <1>4, <1>5, <1>6

\* A block on top of its parent gives a chain again, and is new to it.
LEMMA PushedChain ==
    ASSUME NEW b \in Block, b # Genesis,
           metadata \in Seq(Version), metadata # << >>, ChainOfVersions(metadata),
           metadata[1] = IdVersion(Parent[b])
    PROVE  /\ Pushed("stateMetadata", IdVersion(b)) \in Seq(Version)
           /\ Pushed("stateMetadata", IdVersion(b)) # << >>
           /\ Pushed("stateMetadata", IdVersion(b))[1] = IdVersion(b)
           /\ ChainOfVersions(Pushed("stateMetadata", IdVersion(b)))
           /\ ~HasVersion("stateMetadata", IdVersion(b))
<1> DEFINE n == Len(metadata)
           all == <<IdVersion(b)>> \o metadata
           m == IF Len(all) < Keep THEN Len(all) ELSE Keep
           r == SubSeq(all, 1, m)
<1>1. n \in Nat /\ n # 0 /\ Keep \in Nat /\ Keep > 1
  BY NodeAssumption
<1>2. IdVersion(b) \in Version
  BY DEF IdVersion, Version
<1>3. /\ all \in Seq(Version) /\ Len(all) = n + 1 /\ all[1] = IdVersion(b)
      /\ \A i \in 2 .. (n + 1) : all[i] = metadata[i - 1]
  BY <1>1, <1>2
<1> HIDE DEF all, n
<1>4. m \in 1 .. (n + 1)
  BY <1>1, <1>3
<1> HIDE DEF m
<1>5. r \in Seq(Version) /\ Len(r) = m /\ \A i \in 1 .. m : r[i] = all[i]
  BY <1>1, <1>3, <1>4
<1> HIDE DEF r
<1>6. \A i \in 1 .. n : /\ metadata[i] = IdVersion(metadata[i][1])
                        /\ metadata[i][1] \in Anc[Parent[b]]
  <2>1. SUFFICES ASSUME NEW i \in 1 .. n
                 PROVE  /\ metadata[i] = IdVersion(metadata[i][1])
                        /\ metadata[i][1] \in Anc[Parent[b]]
    OBVIOUS
  <2>2. metadata[i] = IdVersion(metadata[i][1])
    BY DEF ChainOfVersions, n
  <2>3. metadata[1][1] = Parent[b] /\ Parent[b] \in Block
    BY TreeAssumption DEF IdVersion
  <2>4. 1 \in 1 .. n /\ (i = 1 \/ 1 < i)
    BY <1>1
  <2>5. 1 < i => metadata[i][1] \in Anc[metadata[1][1]]
    BY <2>4 DEF ChainOfVersions, n
  <2> QED
    BY <2>2, <2>3, <2>4, <2>5, SelfAncestor
<1>7. /\ Anc[b] = Anc[Parent[b]] \cup {b} /\ b \notin Anc[Parent[b]]
  BY SelfAncestor, ParentOfAncestor
<1>8. ChainOfVersions(r)
  <2>1. SUFFICES ASSUME NEW i \in 1 .. Len(r)
                 PROVE  /\ r[i] = IdVersion(r[i][1])
                        /\ \A j \in 1 .. Len(r) : i < j => r[j][1] \in Anc[r[i][1]] \ {r[i][1]}
    BY SMTT(30) DEF ChainOfVersions
  <2>2. CASE i = 1
    <3>1. r[i] = IdVersion(b) /\ r[i][1] = b
      BY <1>3, <1>4, <1>5, <2>2 DEF IdVersion
    <3>2. ASSUME NEW j \in 1 .. Len(r), i < j
          PROVE  r[j][1] \in Anc[b] \ {b}
      <4>1. j \in 2 .. (n + 1) /\ j - 1 \in 1 .. n /\ j \in 1 .. m
        BY <1>1, <1>4, <1>5, <2>2, <3>2
      <4>2. r[j] = metadata[j - 1]
        BY <1>3, <1>5, <4>1
      <4> QED
        BY <1>6, <1>7, <4>1, <4>2
    <3> QED
      BY <3>1, <3>2
  <2>3. CASE i # 1
    <3>1. i \in 2 .. (n + 1) /\ i - 1 \in 1 .. n /\ i \in 1 .. m
      BY <1>1, <1>4, <1>5, <2>3
    <3>2. r[i] = metadata[i - 1]
      BY <1>3, <1>5, <3>1
    <3>3. ASSUME NEW j \in 1 .. Len(r), i < j
          PROVE  r[j][1] \in Anc[r[i][1]] \ {r[i][1]}
      <4>1. j \in 2 .. (n + 1) /\ j - 1 \in 1 .. n /\ j \in 1 .. m /\ i - 1 < j - 1
        BY <1>1, <1>4, <1>5, <3>1, <3>3
      <4>2. r[j] = metadata[j - 1]
        BY <1>3, <1>5, <4>1
      <4> QED
        BY <3>1, <3>2, <4>1, <4>2 DEF ChainOfVersions, n
    <3> QED
      BY <1>6, <3>1, <3>2, <3>3
  <2> QED
    BY <2>2, <2>3
<1>9. ~HasVersion("stateMetadata", IdVersion(b))
  <2>1. ASSUME NEW i \in 1 .. n, metadata[i] = IdVersion(b) PROVE FALSE
    <3>1. metadata[i][1] = b
      BY <2>1 DEF IdVersion
    <3> QED
      BY <1>6, <1>7, <3>1
  <2> QED
    BY <2>1 DEF HasVersion, metadata, n
<1>10. Pushed("stateMetadata", IdVersion(b)) = r
  BY DEF Pushed, metadata, r, m, all, n
<1> QED
  BY <1>3, <1>4, <1>5, <1>8, <1>9, <1>10

-----------------------------------------------------------------------------

\* updateStateAndWallet starts from the state it finds: the facts about the
\* work hold of a progress made of two paths from a block of the active chain.
LEMMA UpdateStart ==
    ASSUME NEW bp, NEW remove \in Seq(Block), NEW apply \in Seq(Block),
           bp \in ActiveChain, IsPath(bp, remove), IsPath(bp, apply),
           \E b \in ActiveChain : stateVersion = IdVersion(b),
           remove = << >> /\ apply # << >> =>
               Head(apply) \notin ActiveChain \/ stateVersion = IdVersion(bp),
           updateStateAndWallet(Progress(bp, remove, apply)),
           best' = best, versions' = versions, booting' = booting, booting = FALSE
    PROVE  AccountPhases' /\ WorkIsOnPaths' /\ StateFollows'
<1> DEFINE rollback == remove # << >> /\ stateVersion # IdVersion(bp)
<1>1. /\ branch' = bp /\ toRemove' = remove /\ toApply' = apply /\ done' = << >>
      /\ phase' = IF rollback THEN "stateRollback"
                  ELSE IF apply # << >> THEN "apply" ELSE "idle"
      /\ left' = IF rollback THEN <<"stateMetadata">> ELSE << >>
  BY OneStorage DEF updateStateAndWallet, Progress
<1>2. stateVersion' = stateVersion /\ ActiveChain' = ActiveChain
  BY DEF stateVersion, Top, ActiveChain
<1>3. apply # << >> => Parent[Head(apply)] = bp
  <2>1. SUFFICES ASSUME apply # << >> PROVE Parent[apply[1]] = bp
    OBVIOUS
  <2>2. 1 \in 1 .. Len(apply)
    BY <2>1
  <2> QED
    BY <2>2 DEF IsPath
<1>4. AccountPhases'
  BY <1>1 DEF AccountPhases
<1>5. WorkIsOnPaths'
  <2>1. IsPath(bp, << >>)
    BY DEF IsPath
  <2>2. Working' => phase' # "idle"
    BY DEF Working
  <2>3. phase' \in {"stateRollback", "apply", "idle"}
    BY <1>1
  <2>4. phase' = "apply" => apply # << >>
    BY <1>1
  <2>5. Working' =>
            /\ branch' \in ActiveChain'
            /\ IsPath(branch', toRemove')
            /\ IsPath(branch', done')
            /\ IsPath(IF done' = << >> THEN branch' ELSE best', toApply')
    BY <1>1, <1>2, <2>1
  <2>6. IsPath(branch, toRemove)' = IsPath(branch', toRemove')
    BY DEF IsPath
  <2>7. IsPath(branch, done)' = IsPath(branch', done')
    BY DEF IsPath
  <2>8. IsPath(IF done = << >> THEN branch ELSE best, toApply)'
            = IsPath(IF done' = << >> THEN branch' ELSE best', toApply')
    BY DEF IsPath
  <2>9. phase' = "stateRollback" => done' = << >>
    BY <1>1
  <2> QED
    BY <1>1, <2>2, <2>3, <2>4, <2>5, <2>6, <2>7, <2>8, <2>9 DEF WorkIsOnPaths
<1>6. StateFollows'
  <2>1. phase' \in {"stateRollback", "apply", "idle"}
    BY <1>1
  <2>2. phase' \in {"idle", "apply", "invalid"} =>
            \E b \in ActiveChain' : stateVersion' = IdVersion(b)
    BY <1>2
  <2>3. phase' = "apply" /\ remove # << >> => stateVersion = IdVersion(bp)
    BY <1>1
  <2>4. phase' = "apply" /\ Head(apply) \in ActiveChain => stateVersion = IdVersion(bp)
    BY <1>1, <2>3
  <2> QED
    BY <1>1, <1>2, <1>3, <2>1, <2>2, <2>3, <2>4 DEF StateFollows, IdVersion
<1> QED
  BY <1>4, <1>5, <1>6

\* What append hands on is a progress of that kind.
LEMMA ProgressIsOnPaths ==
    ASSUME TypeOK, NEW b \in Block, b \notin known, Parent[b] \in known
    PROVE  \E bp \in ActiveChain, remove \in Seq(known \cup {b}), apply \in Seq(known \cup {b}) :
               /\ ProgressInfo(b) = Progress(bp, remove, apply)
               /\ IsPath(bp, remove) /\ IsPath(bp, apply)
               /\ remove = << >> /\ apply # << >> => Head(apply) \notin ActiveChain
<1>1. /\ best \in Block /\ best \in known /\ known \subseteq Block
      /\ \A c \in known : Anc[c] \subseteq known
  BY DEF TypeOK
<1>2. b # Genesis
  BY <1>1, TreeAssumption
<1>3. /\ Parent[b] \in Block /\ b \notin Anc[Parent[b]]
  BY <1>2, SelfAncestor, ParentOfAncestor
<1>4. best \in ActiveChain /\ ActiveChain \subseteq Block
  BY <1>1, SelfAncestor DEF ActiveChain
<1>5. \A a : IsPath(a, << >>)
  BY DEF IsPath
<1>6. CASE Parent[b] = best
  <2>1. ProgressInfo(b) = Progress(best, << >>, <<b>>)
    BY <1>6 DEF ProgressInfo
  <2>2. IsPath(best, <<b>>)
    BY <1>2, <1>6 DEF IsPath
  <2>3. Head(<<b>>) \notin ActiveChain
    BY <1>3, <1>6 DEF ActiveChain
  <2>4. << >> \in Seq(known \cup {b}) /\ <<b>> \in Seq(known \cup {b})
    OBVIOUS
  <2> QED
    BY <1>4, <1>5, <2>1, <2>2, <2>3, <2>4, Zenon
<1>7. CASE ProgressInfo(b) = NoProgress
  <2>1. ProgressInfo(b) = Progress(best, << >>, << >>)
    BY <1>7 DEF NoProgress
  <2>2. << >> \in Seq(known \cup {b})
    OBVIOUS
  <2> QED
    BY <1>4, <1>5, <2>1, <2>2, Zenon
<1>8. CASE ProgressInfo(b) # NoProgress /\ Parent[b] # best
  <2> DEFINE common == LastCommon(Parent[b], best)
             suffix == PathFromTo(common, Parent[b])
             old == PathFromTo(common, best)
  <2>1. ProgressInfo(b) = Progress(common, old, Append(suffix, b))
    BY <1>8 DEF ProgressInfo, bestForkChanges
  <2>2. common \in Anc[Parent[b]] \cap Anc[best]
    BY <1>1, <1>3, LastCommonHighest
  <2> HIDE DEF common
  <2>3. /\ suffix \in Seq(Anc[Parent[b]]) /\ IsPath(common, suffix)
        /\ suffix = << >> => common = Parent[b]
        /\ suffix # << >> => suffix[Len(suffix)] = Parent[b]
    BY <1>3, <2>2, PathFromToIsPath
  <2>4. /\ old \in Seq(Anc[best]) /\ IsPath(common, old)
        /\ old = << >> => common = best
    BY <1>1, <2>2, PathFromToIsPath
  <2> HIDE DEF suffix, old
  <2>5. old \in Seq(known \cup {b}) /\ suffix \in Seq(known \cup {b})
    <3>1. Anc[best] \subseteq known \cup {b} /\ Anc[Parent[b]] \subseteq known \cup {b}
      BY <1>1
    <3>2. \A i \in 1 .. Len(old) : old[i] \in known \cup {b}
      BY <2>4, <3>1
    <3>3. \A i \in 1 .. Len(suffix) : suffix[i] \in known \cup {b}
      BY <2>3, <3>1
    <3> QED
      BY <2>3, <2>4, <3>2, <3>3
  <2>6. Append(suffix, b) \in Seq(known \cup {b})
    BY <2>5
  <2>7. Len(Append(suffix, b)) = Len(suffix) + 1 /\ Len(suffix) \in Nat
    BY <2>3
  <2>8. IsPath(common, Append(suffix, b))
    <3>1. suffix \in Seq(Block)
      BY <1>1, <2>5
    <3> QED
      BY <1>2, <2>3, <3>1, AppendPath
  <2>9. old = << >> => Head(Append(suffix, b)) \notin ActiveChain
    <3>1. SUFFICES ASSUME old = << >> PROVE Append(suffix, b)[1] \notin Anc[best]
      BY <2>7 DEF ActiveChain
    <3>2. 1 \in 1 .. Len(Append(suffix, b))
      BY <2>7
    <3>3. Append(suffix, b)[1] # Genesis /\ Parent[Append(suffix, b)[1]] = best
      BY <2>4, <2>8, <3>1, <3>2 DEF IsPath
    <3>4. Append(suffix, b)[1] \in Block
      BY <1>1, <2>6, <3>2
    <3> QED
      BY <3>3, <3>4, SelfAncestor, ParentOfAncestor
  <2>10. common \in ActiveChain
    BY <2>2 DEF ActiveChain
  <2> QED
    BY <2>1, <2>4, <2>5, <2>6, <2>8, <2>9, <2>10, ZenonT(30)
<1> QED
  BY <1>6, <1>7, <1>8

-----------------------------------------------------------------------------

\* The phases an account node goes through are phases of the node view holder,
\* before and after a step.
LEMMA PhaseTypes ==
    /\ AccountPhases => phase \in Phases /\ left \in Seq(Storages)
    /\ AccountPhases' => (phase \in Phases /\ left \in Seq(Storages))'
<1>1. << >> \in Seq(Storages) /\ <<"stateMetadata">> \in Seq(Storages)
  BY OneStorage
<1> QED
  BY <1>1, Zenon DEF AccountPhases, Phases

\* Sequences of known blocks are sequences of blocks, and stay known.
LEMMA KnownSequences ==
    ASSUME TypeOK
    PROVE  /\ known \subseteq Block /\ best \in Block
           /\ ActiveChain \subseteq known /\ best \in ActiveChain
           /\ metadata \in Seq(Version) /\ metadata # << >>
           /\ \A K : known \subseteq K =>
                 toRemove \in Seq(K) /\ toApply \in Seq(K) /\ done \in Seq(K)
           /\ toRemove \in Seq(Block) /\ toApply \in Seq(Block) /\ done \in Seq(Block)
<1>1. known \subseteq Block /\ best \in Block /\ ActiveChain \subseteq known
  BY DEF TypeOK, ActiveChain
<1>2. best \in ActiveChain
  BY <1>1, SelfAncestor DEF ActiveChain
<1>3. metadata \in Seq(Version) /\ metadata # << >>
  BY OneStorage DEF TypeOK, metadata
<1>4. ASSUME NEW K, known \subseteq K
      PROVE  toRemove \in Seq(K) /\ toApply \in Seq(K) /\ done \in Seq(K)
  <2>1. \A q \in Seq(known) : q \in Seq(K)
    <3>1. SUFFICES ASSUME NEW q \in Seq(known) PROVE q \in Seq(K)
      OBVIOUS
    <3>2. \A i \in 1 .. Len(q) : q[i] \in K
      BY <1>4
    <3> QED
      BY <3>2
  <2> QED
    BY <2>1 DEF TypeOK
<1> QED
  BY <1>1, <1>2, <1>3, <1>4

\* A new block is stored, and what the fork choice makes of it starts.
LEMMA pmodModifyKeepsIInv ==
    ASSUME IInv, NEW b \in Block, pmodModify(b)
    PROVE  IInv'
<1> USE DEF IInv
<1>1. /\ phase = "idle" /\ b \notin known /\ Parent[b] \in known
      /\ known' = known \cup {b}
      /\ validity' = [validity EXCEPT ![b] = "Unknown"]
      /\ updateStateAndWallet(ProgressInfo(b))
      /\ best' = best /\ versions' = versions /\ booting' = booting
      /\ crashes' = crashes /\ refused' = refused
  BY DEF pmodModify
<1>2. PICK bp \in ActiveChain, remove \in Seq(known'), apply \in Seq(known') :
          /\ ProgressInfo(b) = Progress(bp, remove, apply)
          /\ IsPath(bp, remove) /\ IsPath(bp, apply)
          /\ remove = << >> /\ apply # << >> => Head(apply) \notin ActiveChain
  BY <1>1, ProgressIsOnPaths, Zenon
<1>3. /\ known \subseteq Block /\ best \in Block
      /\ ActiveChain \subseteq known /\ best \in ActiveChain
  BY KnownSequences
<1>4. known' \subseteq Block
  BY <1>1, <1>3
<1>5. remove \in Seq(Block) /\ apply \in Seq(Block)
  BY <1>2, <1>4
<1>6. \E c \in ActiveChain : stateVersion = IdVersion(c)
  BY <1>1 DEF StateFollows
<1>7. booting = FALSE
  BY DEF AccountPhases
<1>8. AccountPhases' /\ WorkIsOnPaths' /\ StateFollows'
  BY <1>1, <1>2, <1>5, <1>6, <1>7, UpdateStart, ZenonT(30)
<1>9. branch' = bp /\ toRemove' = remove /\ toApply' = apply /\ done' = << >>
  BY <1>1, <1>2, SMTT(30) DEF updateStateAndWallet, Progress
<1>10. TypeOK'
  <2>1. b # Genesis
    BY <1>1, <1>3, TreeAssumption DEF ActiveChain
  <2>2. Anc[b] = Anc[Parent[b]] \cup {b}
    BY <2>1, TreeAssumption
  <2>3. \A c \in known' : Anc[c] \subseteq known'
    BY <1>1, <2>2, Zenon DEF TypeOK
  <2>4. validity' \in [Block -> {"Absent", "Unknown", "Valid", "Invalid"}]
    BY <1>1 DEF TypeOK
  <2>5. branch' \in known' /\ done' \in Seq(known')
    BY <1>1, <1>3, <1>9, SMTT(30)
  <2> QED
    BY <1>1, <1>2, <1>4, <1>8, <1>9, <2>3, <2>4, <2>5, PhaseTypes, SMTT(30) DEF TypeOK, AccountPhases
<1>11. VersionsAreAChain'
  BY <1>1 DEF VersionsAreAChain, ChainOfVersions, metadata, IdVersion
<1>12. ValidAreNotRefused'
  BY <1>1 DEF ValidAreNotRefused, TypeOK
<1>13. ActiveChainValid'
  BY <1>1, <1>3 DEF ActiveChainValid, ActiveChain, TypeOK
<1> QED
  BY <1>8, <1>10, <1>11, <1>12, <1>13

\* A step that leaves the history and the progress alone only has to account
\* for the state and the phase.
LEMMA HistoryUnchanged ==
    ASSUME IInv, UNCHANGED <<history, progress, booting, crashes, refused>>,
           AccountPhases', metadata' \in Seq(Version), metadata' # << >>,
           versions' \in [Storages -> Seq(Version)]
    PROVE  /\ TypeOK' /\ ValidAreNotRefused' /\ ActiveChainValid'
           /\ ActiveChain' = ActiveChain
<1> USE DEF IInv, history, progress
<1>1. ActiveChain' = ActiveChain
  BY DEF ActiveChain
<1>2. TypeOK'
  <2>1. \A s \in Storages : versions'[s] # << >>
    BY OneStorage DEF metadata
  <2> QED
    BY <2>1, PhaseTypes DEF TypeOK
<1> QED
  BY <1>1, <1>2 DEF ValidAreNotRefused, ActiveChainValid

\* The rollback of the state ends at the branch point, from which the blocks
\* to apply go on.
LEMMA stateRollbackKeepsIInv ==
    ASSUME IInv, stateRollback
    PROVE  IInv'
<1> USE DEF IInv
<1>1. /\ phase = "stateRollback" /\ left = <<"stateMetadata">> /\ booting = FALSE
      /\ UNCHANGED <<history, progress, booting, crashes, refused>>
  BY DEF stateRollback, AccountPhases
<1>2. /\ known \subseteq Block /\ branch \in Block /\ branch \in ActiveChain
      /\ metadata \in Seq(Version) /\ metadata # << >>
      /\ versions \in [Storages -> Seq(Version)]
  BY <1>1, KnownSequences DEF TypeOK, WorkIsOnPaths, Working
<1>3. /\ IsPath(branch, toApply) /\ done = << >> /\ toApply \in Seq(Block)
  BY <1>1, KnownSequences DEF WorkIsOnPaths, Working
<1>4. CASE HasVersion("stateMetadata", IdVersion(branch))
  <2>1. /\ versions' = [versions EXCEPT !["stateMetadata"] =
                           RolledBack("stateMetadata", IdVersion(branch))]
        /\ phase' = IF toApply # << >> THEN "apply" ELSE "idle"
        /\ left' = << >>
    BY <1>1, <1>4 DEF stateRollback, RollbackStorage, Advance
  <2>2. metadata' = RolledBack("stateMetadata", IdVersion(branch))
    BY <1>2, <2>1, OneStorage DEF metadata
  <2>3. /\ metadata' \in Seq(Version) /\ metadata' # << >>
        /\ metadata'[1] = IdVersion(branch) /\ ChainOfVersions(metadata')
    BY <1>2, <1>4, <2>2, RolledBackChain DEF VersionsAreAChain
  <2>4. versions' \in [Storages -> Seq(Version)]
    BY <1>2, <2>1, <2>2, <2>3, OneStorage
  <2>5. AccountPhases'
    BY <1>1, <2>1 DEF AccountPhases
  <2>6. /\ TypeOK' /\ ValidAreNotRefused' /\ ActiveChainValid'
        /\ ActiveChain' = ActiveChain
    BY <1>1, <2>3, <2>4, <2>5, HistoryUnchanged
  <2>7. VersionsAreAChain'
    BY <2>3 DEF VersionsAreAChain, ChainOfVersions, IdVersion
  <2>8. stateVersion' = IdVersion(branch)
    BY <2>3, StoragesAssumption DEF stateVersion, Top, metadata
  <2>9. toApply # << >> => Parent[Head(toApply)] = branch
    BY <1>3, TailPath
  <2>10. StateFollows'
    BY <1>1, <1>2, <1>3, <2>1, <2>6, <2>8, <2>9, SMTT(30) DEF StateFollows, progress, IdVersion
  <2>11. WorkIsOnPaths'
    BY <1>1, <2>1, <2>6 DEF WorkIsOnPaths, Working, IsPath, progress, history
  <2> QED
    BY <2>5, <2>6, <2>7, <2>10, <2>11
<1>5. CASE ~HasVersion("stateMetadata", IdVersion(branch))
  <2>1. phase' = "halted" /\ left' = << >> /\ versions' = versions
    BY <1>1, <1>5 DEF stateRollback, RollbackStorage
  <2>2. AccountPhases'
    BY <1>1, <2>1 DEF AccountPhases
  <2>3. metadata' = metadata
    BY <2>1 DEF metadata
  <2>4. TypeOK' /\ ValidAreNotRefused' /\ ActiveChainValid'
    BY <1>1, <1>2, <2>1, <2>2, <2>3, HistoryUnchanged
  <2>5. VersionsAreAChain'
    BY <2>3 DEF VersionsAreAChain, ChainOfVersions, IdVersion
  <2>6. StateFollows' /\ WorkIsOnPaths'
    BY <2>1 DEF StateFollows, WorkIsOnPaths, Working
  <2> QED
    BY <2>2, <2>4, <2>5, <2>6
<1> QED
  BY <1>4, <1>5

\* Both ways of starting a block look at the state and leave it alone.
LEMMA StartBlockKeepsIInv ==
    ASSUME IInv, phase = "apply", StartBlock(Head(toApply)), versions' = versions,
           UNCHANGED <<history, progress, booting, crashes, refused>>
    PROVE  IInv'
<1> USE DEF IInv
<1>1. /\ phase' = IF AppliesToState(Head(toApply)) THEN "state" ELSE "invalid"
      /\ left' = IF AppliesToState(Head(toApply)) THEN <<"stateMetadata">> ELSE << >>
  BY StoragesAssumption DEF StartBlock
<1>2. AccountPhases'
  BY <1>1 DEF AccountPhases
<1>3. metadata' = metadata /\ stateVersion' = stateVersion
  BY DEF metadata, stateVersion, Top
<1>4. /\ metadata \in Seq(Version) /\ metadata # << >> /\ toApply \in Seq(Block)
      /\ versions \in [Storages -> Seq(Version)]
  BY KnownSequences DEF TypeOK
<1>5. /\ TypeOK' /\ ValidAreNotRefused' /\ ActiveChainValid'
      /\ ActiveChain' = ActiveChain
  BY <1>2, <1>3, <1>4, HistoryUnchanged, SMTT(30)
<1>6. VersionsAreAChain'
  BY <1>3 DEF VersionsAreAChain, ChainOfVersions, IdVersion
<1>7. WorkIsOnPaths'
  BY <1>1, <1>5 DEF WorkIsOnPaths, Working, IsPath, progress, history
<1>8. StateFollows'
  <2>1. /\ toApply' = toApply /\ toRemove' = toRemove /\ done' = done /\ branch' = branch
        /\ refused' = refused /\ validity' = validity
    BY DEF progress, history
  <2>2. toApply # << >>
    BY DEF WorkIsOnPaths, Working
  <2>3. Head(toApply) \in Block
    BY <1>4, <2>2
  <2>4. Head(toApply) \in ActiveChain => AppliesToState(Head(toApply))
    BY <2>3 DEF StateFollows, AppliesToState, ActiveChainValid, ValidAreNotRefused
  <2>5. phase' = "state" => AppliesToState(Head(toApply))
    BY <1>1
  <2>6. phase' = "invalid" => Head(toApply) \notin ActiveChain
    BY <1>1, <2>4
  <2>7. phase' \in {"state", "invalid"}
    BY <1>1
  <2> QED
    BY <1>3, <1>5, <2>1, <2>5, <2>6, <2>7 DEF StateFollows, AppliesToState, IdVersion
<1> QED
  BY <1>2, <1>5, <1>6, <1>7, <1>8

\* The account wallet has no storage for epoch information, so a new consensus
\* epoch writes nothing.
LEMMA applyConsensusEpochInfoKeepsIInv ==
    ASSUME IInv, applyConsensusEpochInfo
    PROVE  IInv'
<1>1. versions' = versions
  <2>1. versions' = [s \in Storages |-> versions[s]]
    BY OneStorage DEF applyConsensusEpochInfo
  <2>2. versions \in [Storages -> Seq(Version)]
    BY DEF IInv, TypeOK
  <2> QED
    BY <2>1, <2>2
<1> QED
  BY <1>1, StartBlockKeepsIInv DEF applyConsensusEpochInfo

\* A block refused for its epoch information leaves the storages alone.
LEMMA epochInfoFailsKeepsIInv ==
    ASSUME IInv, epochInfoFails
    PROVE  IInv'
BY StartBlockKeepsIInv DEF epochInfoFails

\* A block of the current consensus epoch goes straight to the state.
LEMMA stayInEpochKeepsIInv ==
    ASSUME IInv, stayInEpoch
    PROVE  IInv'
BY StartBlockKeepsIInv DEF stayInEpoch

\* The metadata storage cannot hold the block already: it holds ancestors of
\* its parent.
LEMMA applyModifierKeepsIInv ==
    ASSUME IInv, applyModifier
    PROVE  IInv'
<1> USE DEF IInv
<1> DEFINE b == Head(toApply)
<1>1. /\ phase = "state" /\ left = <<"stateMetadata">> /\ booting = FALSE
      /\ UNCHANGED <<history, progress, booting, crashes, refused>>
  BY DEF applyModifier, AccountPhases
<1>2. /\ metadata \in Seq(Version) /\ metadata # << >> /\ toApply \in Seq(Block)
      /\ versions \in [Storages -> Seq(Version)]
  BY KnownSequences DEF TypeOK
<1>3. toApply # << >> /\ IsPath(IF done = << >> THEN branch ELSE best, toApply)
  BY <1>1 DEF WorkIsOnPaths, Working
<1>4. b \in Block /\ b # Genesis
  BY <1>2, <1>3, TailPath
<1>5. stateVersion = IdVersion(Parent[b]) /\ b \notin refused
  BY <1>1 DEF StateFollows
<1>6. metadata[1] = IdVersion(Parent[b])
  BY <1>5, OneStorage
<1>7. /\ Pushed("stateMetadata", IdVersion(b)) \in Seq(Version)
      /\ Pushed("stateMetadata", IdVersion(b)) # << >>
      /\ Pushed("stateMetadata", IdVersion(b))[1] = IdVersion(b)
      /\ ChainOfVersions(Pushed("stateMetadata", IdVersion(b)))
      /\ ~HasVersion("stateMetadata", IdVersion(b))
  BY <1>2, <1>4, <1>6, PushedChain, SMTT(30) DEF VersionsAreAChain
<1>8. /\ versions' = [versions EXCEPT !["stateMetadata"] = Pushed("stateMetadata", IdVersion(b))]
      /\ phase' = "valid" /\ left' = << >>
  <2>1. WalletOrder = << >>
    BY StoragesAssumption
  <2> QED
    BY <1>1, <1>7, <2>1 DEF applyModifier, UpdateStorage, Advance
<1> HIDE DEF b
<1>9. metadata' = Pushed("stateMetadata", IdVersion(b))
  BY <1>2, <1>8, OneStorage DEF metadata
<1>10. versions' \in [Storages -> Seq(Version)]
  BY <1>2, <1>7, <1>8, OneStorage
<1>11. AccountPhases'
  BY <1>1, <1>8 DEF AccountPhases
<1>12. /\ TypeOK' /\ ValidAreNotRefused' /\ ActiveChainValid'
       /\ ActiveChain' = ActiveChain
  BY <1>1, <1>7, <1>9, <1>10, <1>11, HistoryUnchanged
<1>13. VersionsAreAChain'
  BY <1>7, <1>9, ZenonT(30) DEF VersionsAreAChain, ChainOfVersions, IdVersion
<1>14. WorkIsOnPaths'
  BY <1>1, <1>8, <1>12, SMTT(30) DEF WorkIsOnPaths, Working, IsPath, progress, history
<1>15. stateVersion' = IdVersion(b)
  BY <1>7, <1>9, StoragesAssumption, SMTT(30) DEF stateVersion, Top, metadata
<1>16. StateFollows'
  <2>1. Head(toApply)' = b /\ refused' = refused
    BY <1>1 DEF progress, b
  <2> QED
    BY <1>5, <1>8, <1>15, <2>1 DEF StateFollows, IdVersion
<1> QED
  BY <1>11, <1>12, <1>13, <1>14, <1>16

\* The block marked valid is the one the state has just accepted.
LEMMA updateSemanticValidityKeepsIInv ==
    ASSUME IInv, updateSemanticValidity
    PROVE  IInv'
<1> USE DEF IInv
<1> DEFINE b == Head(toApply)
<1>1. /\ phase = "valid" /\ phase' = "best"
      /\ validity' = [validity EXCEPT ![b] = "Valid"]
      /\ UNCHANGED <<known, best, versions, left, progress, booting, crashes, refused>>
  BY DEF updateSemanticValidity
<1>2. toApply # << >> /\ toApply \in Seq(Block)
  BY <1>1, KnownSequences DEF WorkIsOnPaths, Working
<1>3. b \in Block /\ b \notin refused
  BY <1>1, <1>2 DEF StateFollows
<1>4. AccountPhases'
  BY <1>1 DEF AccountPhases
<1>5. TypeOK'
  BY <1>1, <1>4, PhaseTypes, ZenonT(30) DEF TypeOK, progress
<1>6. VersionsAreAChain'
  BY <1>1 DEF VersionsAreAChain, ChainOfVersions, IdVersion, metadata
<1>7. ValidAreNotRefused'
  BY <1>1, <1>3 DEF ValidAreNotRefused, TypeOK
<1>8. ActiveChainValid'
  BY <1>1, SMTT(30) DEF ActiveChainValid, ActiveChain, TypeOK
<1>9. WorkIsOnPaths'
  BY <1>1 DEF WorkIsOnPaths, Working, IsPath, progress, ActiveChain
<1>10. StateFollows'
  <2>1. validity'[b] = "Valid"
    BY <1>1, <1>3 DEF TypeOK
  <2>2. stateVersion' = stateVersion /\ Head(toApply)' = b
    BY <1>1 DEF stateVersion, Top, progress
  <2>3. stateVersion = IdVersion(b)
    BY <1>1 DEF StateFollows
  <2> QED
    BY <1>1, <1>3, <2>1, <2>2, <2>3 DEF StateFollows, IdVersion
<1> QED
  BY <1>4, <1>5, <1>6, <1>7, <1>8, <1>9, <1>10

\* The new best block is a child of a block of the active chain.
LEMMA NewBestBlock ==
    ASSUME IInv, setAsBestBlock
    PROVE  /\ best' = Head(toApply) /\ best' \in known /\ best' # Genesis
           /\ Parent[best'] \in ActiveChain
           /\ Parent[best'] = IF done = << >> THEN branch ELSE best
           /\ ActiveChain' = Anc[Parent[best']] \cup {best'}
           /\ Anc[Parent[best']] \subseteq ActiveChain
<1> USE DEF IInv
<1> DEFINE b == Head(toApply)
<1>1. phase = "best" /\ best' = b
  BY DEF setAsBestBlock
<1>2. /\ toApply # << >> /\ IsPath(IF done = << >> THEN branch ELSE best, toApply)
      /\ branch \in ActiveChain
  BY <1>1, SMTT(30) DEF WorkIsOnPaths, Working
<1>3. toApply \in Seq(Block) /\ toApply \in Seq(known) /\ best \in ActiveChain /\ best \in Block
  BY KnownSequences DEF TypeOK
<1>4. b \in Block /\ b # Genesis /\ Parent[b] = IF done = << >> THEN branch ELSE best
  BY <1>2, <1>3, TailPath
<1>5. b \in known
  BY <1>2, <1>3
<1>6. Parent[b] \in ActiveChain
  BY <1>2, <1>3, <1>4
<1>7. Anc[b] = Anc[Parent[b]] \cup {b}
  BY <1>4, TreeAssumption, SMTT(30)
<1>8. Anc[Parent[b]] \subseteq ActiveChain
  BY <1>3, <1>6, AncestorsOfAncestor DEF ActiveChain
<1> QED
  BY <1>1, <1>4, <1>5, <1>6, <1>7, <1>8 DEF ActiveChain

\* The new best block extends the active chain, and the blocks left to apply
\* go on from it.
LEMMA setAsBestBlockKeepsIInv ==
    ASSUME IInv, setAsBestBlock
    PROVE  IInv'
<1> USE DEF IInv
<1>1. /\ phase = "best" /\ best' = Head(toApply) /\ toApply' = Tail(toApply)
      /\ done' = Append(done, Head(toApply))
      /\ phase' = IF Tail(toApply) = << >> THEN "idle" ELSE "apply"
      /\ UNCHANGED <<known, validity, versions, left, branch, toRemove, booting, crashes, refused>>
  BY DEF setAsBestBlock
<1>2. /\ best' \in known /\ best' # Genesis /\ Parent[best'] \in ActiveChain
      /\ Parent[best'] = IF done = << >> THEN branch ELSE best
      /\ ActiveChain' = Anc[Parent[best']] \cup {best'}
      /\ Anc[Parent[best']] \subseteq ActiveChain
  BY NewBestBlock
<1>3. /\ toApply # << >> /\ IsPath(IF done = << >> THEN branch ELSE best, toApply)
      /\ branch \in ActiveChain /\ IsPath(branch, done) /\ IsPath(branch, toRemove)
      /\ done # << >> => done[Len(done)] = best
  BY <1>1 DEF WorkIsOnPaths, Working
<1>4. /\ toApply \in Seq(Block) /\ done \in Seq(Block) /\ known \subseteq Block
      /\ toApply \in Seq(known) /\ done \in Seq(known) /\ best \in Block
  BY KnownSequences, SMTT(30) DEF TypeOK
<1>5. best' \in Block /\ best' = Head(toApply)
  BY <1>1, <1>2, <1>4
<1>6. AccountPhases'
  BY <1>1, SMTT(30) DEF AccountPhases
<1>7. TypeOK'
  <2>1. Tail(toApply) \in Seq(known) /\ Append(done, Head(toApply)) \in Seq(known)
    BY <1>3, <1>4
  <2> QED
    BY <1>1, <1>2, <1>6, <2>1, PhaseTypes, SMTT(30) DEF TypeOK
<1>8. VersionsAreAChain'
  BY <1>1, SMTT(30) DEF VersionsAreAChain, ChainOfVersions, IdVersion, metadata
<1>9. ValidAreNotRefused'
  BY <1>1 DEF ValidAreNotRefused
<1>10. ActiveChainValid'
  <2>1. validity[best'] = "Valid"
    BY <1>1, SMTT(30) DEF StateFollows
  <2> QED
    BY <1>1, <1>2, <2>1 DEF ActiveChainValid
<1>11. IsPath(branch, done') /\ done' # << >> /\ done'[Len(done')] = best'
  <2>1. Parent[best'] = IF done = << >> THEN branch ELSE done[Len(done)]
    BY <1>2, <1>3
  <2>2. done' = Append(done, best')
    BY <1>1
  <2>3. Append(done, best') # << >>
    BY <1>4, <1>5
  <2> QED
    BY <1>2, <1>3, <1>4, <1>5, <2>1, <2>2, <2>3, AppendPath, SMTT(30)
<1>12. IsPath(best', toApply') /\ toApply' \in Seq(Block)
  BY <1>1, <1>3, <1>4, TailPath
<1>13. WorkIsOnPaths'
  <2>1. branch \in ActiveChain'
    <3>1. branch \in Anc[Parent[best']]
      <4>1. CASE done = << >>
        BY <1>2, <1>4, <4>1, SelfAncestor DEF TypeOK
      <4>2. CASE done # << >>
        BY <1>2, <1>3, <4>2 DEF ActiveChain
      <4> QED
        BY <4>1, <4>2, SMTT(30)
    <3> QED
      BY <1>2, <3>1
  <2>2. phase' \in {"idle", "apply"} /\ (phase' = "apply" => toApply' # << >>)
    BY <1>1
  <2> QED
    BY <1>1, <1>3, <1>11, <1>12, <2>1, <2>2, ZenonT(30) DEF WorkIsOnPaths, Working, IsPath
<1>14. StateFollows'
  <2>1. stateVersion' = stateVersion /\ stateVersion = IdVersion(best')
    BY <1>1 DEF StateFollows, stateVersion, Top
  <2>2. best' \in ActiveChain'
    BY <1>2
  <2>3. toApply' # << >> => Parent[Head(toApply')] = best'
    BY <1>12, TailPath
  <2>4. phase' \in {"idle", "apply"} /\ (phase' = "apply" => toApply' # << >>)
    BY <1>1
  <2> QED
    BY <1>11, <2>1, <2>2, <2>3, <2>4, SMTT(30) DEF StateFollows, IdVersion
<1> QED
  BY <1>6, <1>7, <1>8, <1>9, <1>10, <1>13, <1>14

\* Only blocks off the active chain are ever marked invalid.
LEMMA reportModifierIsInvalidKeepsIInv ==
    ASSUME IInv, reportModifierIsInvalid
    PROVE  IInv'
<1> USE DEF IInv
<1> DEFINE b == Head(toApply)
<1>1. /\ phase = "invalid"
      /\ validity' = [validity EXCEPT ![b] = "Invalid"]
      /\ updateStateAndWallet(Progress(branch, done, toRemove))
      /\ known' = known /\ best' = best /\ versions' = versions
      /\ booting' = booting /\ crashes' = crashes /\ refused' = refused
  BY DEF reportModifierIsInvalid
<1>2. /\ branch \in ActiveChain /\ IsPath(branch, done) /\ IsPath(branch, toRemove)
  BY <1>1 DEF WorkIsOnPaths, Working
<1>3. toRemove \in Seq(Block) /\ done \in Seq(Block) /\ booting = FALSE
  BY KnownSequences, SMTT(30) DEF AccountPhases
<1>4. \E c \in ActiveChain : stateVersion = IdVersion(c)
  BY <1>1, SMTT(30) DEF StateFollows
<1>5. done = << >> /\ toRemove # << >> => stateVersion = IdVersion(branch)
  BY <1>1 DEF StateFollows
<1>6. AccountPhases' /\ WorkIsOnPaths' /\ StateFollows'
  BY <1>1, <1>2, <1>3, <1>4, <1>5, UpdateStart, ZenonT(30)
<1>7. branch' = branch /\ toRemove' = done /\ toApply' = toRemove /\ done' = << >>
  BY <1>1, SMTT(30) DEF updateStateAndWallet, Progress
<1>8. TypeOK'
  <2>1. validity' \in [Block -> {"Absent", "Unknown", "Valid", "Invalid"}]
    BY <1>1, Zenon DEF TypeOK
  <2>2. done' \in Seq(known')
    BY <1>7
  <2> QED
    BY <1>1, <1>6, <1>7, <2>1, <2>2, PhaseTypes, SMTT(30) DEF TypeOK, AccountPhases
<1>9. VersionsAreAChain'
  BY <1>1, ZenonT(30) DEF VersionsAreAChain, ChainOfVersions, IdVersion, metadata
<1>10. ValidAreNotRefused'
  BY <1>1, SMTT(30) DEF ValidAreNotRefused, TypeOK
<1>11. ActiveChainValid'
  <2>1. b \notin ActiveChain /\ ActiveChain' = ActiveChain
    BY <1>1 DEF StateFollows, ActiveChain
  <2>2. \A c \in ActiveChain : c \in Block
    BY KnownSequences
  <2> QED
    BY <1>1, <2>1, <2>2, SMTT(30) DEF ActiveChainValid, TypeOK
<1> QED
  BY <1>6, <1>8, <1>9, <1>10, <1>11

\* A stop forgets the work in progress and touches no storage.
LEMMA CrashKeepsIInv ==
    ASSUME IInv, Crash
    PROVE  IInv'
<1> USE DEF IInv
<1>1. /\ phase' = "down" /\ left' = << >> /\ branch' = best /\ crashes' = crashes + 1
      /\ toRemove' = << >> /\ toApply' = << >> /\ done' = << >> /\ booting' = FALSE
      /\ known' = known /\ validity' = validity /\ best' = best
      /\ versions' = versions /\ refused' = refused
  BY DEF Crash, history
<1>2. AccountPhases'
  BY <1>1 DEF AccountPhases
<1>3. TypeOK'
  <2>1. << >> \in Seq(known)
    OBVIOUS
  <2>2. crashes + 1 \in Nat
    BY SMTT(30) DEF TypeOK
  <2> QED
    BY <1>1, <1>2, <2>1, <2>2, PhaseTypes, Zenon DEF TypeOK
<1>4. VersionsAreAChain'
  BY <1>1 DEF VersionsAreAChain, ChainOfVersions, IdVersion, metadata
<1>5. ValidAreNotRefused' /\ ActiveChainValid'
  BY <1>1, SMTT(30) DEF ValidAreNotRefused, ActiveChainValid, ActiveChain
<1>6. WorkIsOnPaths' /\ StateFollows'
  BY <1>1 DEF WorkIsOnPaths, StateFollows, Working
<1> QED
  BY <1>2, <1>3, <1>4, <1>5, <1>6

\* The block the state is taken back to is on the active chain.
LEMMA checkAndRecoverStoragesKeepsIInv ==
    ASSUME IInv, checkAndRecoverStorages
    PROVE  IInv'
<1> USE DEF IInv
<1>1. /\ phase = "down"
      /\ UNCHANGED <<history, versions, toRemove, toApply, done, booting, crashes, refused>>
      /\ toRemove = << >> /\ toApply = << >> /\ done = << >> /\ booting = FALSE
  BY DEF checkAndRecoverStorages, AccountPhases
<1>2. ActiveChain' = ActiveChain /\ stateVersion' = stateVersion
  BY <1>1 DEF ActiveChain, stateVersion, Top, history
<1>3. best \in Block /\ best \in ActiveChain /\ ActiveChain \subseteq known
  BY KnownSequences, SMTT(30)
<1>4. branch' \in ActiveChain
  <2>1. stateVersion[1] \in Block
    <3>1. 1 \in 1 .. Len(metadata) /\ metadata \in Seq(Version)
      BY KnownSequences
    <3> QED
      BY <3>1, OneStorage DEF Version
  <2> QED
    BY <1>3, <2>1, LastCommonHighest DEF checkAndRecoverStorages, ActiveChain
<1>5. \/ phase' = "idle" /\ left' = << >> /\ stateVersion = IdVersion(best)
      \/ phase' = "stateRollback" /\ left' = <<"stateMetadata">>
  BY OneStorage DEF checkAndRecoverStorages
<1>6. AccountPhases'
  BY <1>1, <1>5, SMTT(30) DEF AccountPhases
<1>7. TypeOK'
  BY <1>1, <1>3, <1>4, <1>6, PhaseTypes, SMTT(30) DEF TypeOK, history
<1>8. VersionsAreAChain'
  BY <1>1 DEF VersionsAreAChain, ChainOfVersions, IdVersion, metadata
<1>9. ValidAreNotRefused' /\ ActiveChainValid'
  BY <1>1, <1>2, SMTT(30) DEF ValidAreNotRefused, ActiveChainValid, history
<1>10. WorkIsOnPaths'
  BY <1>1, <1>2, <1>4, <1>5, SMTT(30) DEF WorkIsOnPaths, Working, IsPath
<1>11. StateFollows'
  BY <1>1, <1>2, <1>3, <1>5 DEF StateFollows, IdVersion
<1> QED
  BY <1>6, <1>7, <1>8, <1>9, <1>10, <1>11, SMTT(30)

\* After createGenesisState and createGenesisHistory the invariant holds.
LEMMA InitIInv ==
    ASSUME Init
    PROVE  IInv
<1>1. /\ known = {Genesis} /\ best = Genesis /\ phase = "idle" /\ left = << >>
      /\ branch = Genesis /\ toRemove = << >> /\ toApply = << >> /\ done = << >>
      /\ booting = FALSE /\ crashes = 0 /\ refused \in SUBSET Dubious
      /\ validity = [b \in Block |-> IF b = Genesis THEN "Valid" ELSE "Absent"]
  BY DEF Init
<1>2. versions = [s \in Storages |-> <<IdVersion(Genesis)>>]
  BY OneStorage DEF Init
<1>3. Genesis \in Block /\ Anc[Genesis] = {Genesis} /\ IdVersion(Genesis) \in Version
  BY TreeAssumption DEF IdVersion, Version
<1>4. ActiveChain = {Genesis}
  BY <1>1, <1>3 DEF ActiveChain
<1>5. metadata = <<IdVersion(Genesis)>> /\ stateVersion = IdVersion(Genesis)
  BY <1>2, OneStorage DEF metadata
<1>6. AccountPhases
  BY <1>1 DEF AccountPhases
<1>7. TypeOK
  <2>1. versions \in [Storages -> Seq(Version)] /\ \A s \in Storages : versions[s] # << >>
    BY <1>2, <1>3
  <2>2. validity \in [Block -> {"Absent", "Unknown", "Valid", "Invalid"}]
    BY <1>1
  <2>3. << >> \in Seq(known)
    OBVIOUS
  <2>4. known \in SUBSET Block /\ \A b \in known : Anc[b] \subseteq known
    BY <1>1, <1>3
  <2> QED
    BY <1>1, <1>6, <2>1, <2>2, <2>3, <2>4, PhaseTypes, ZenonT(30) DEF TypeOK
<1>8. VersionsAreAChain
  BY <1>5 DEF VersionsAreAChain, ChainOfVersions, IdVersion
<1>9. ValidAreNotRefused
  BY <1>1, NodeAssumption DEF ValidAreNotRefused
<1>10. ActiveChainValid
  BY <1>1, <1>3, <1>4, ZenonT(30) DEF ActiveChainValid
<1>11. WorkIsOnPaths /\ StateFollows
  BY <1>1, <1>4, <1>5 DEF WorkIsOnPaths, StateFollows, Working
<1> QED
  BY <1>6, <1>7, <1>8, <1>9, <1>10, <1>11 DEF IInv

\* Every step of the account node keeps the invariant.
LEMMA NextIInv ==
    ASSUME IInv, [Next]_vars
    PROVE  IInv'
<1>1. CASE UNCHANGED vars
  <2>1. UNCHANGED <<known, validity, best, versions, phase, branch, toRemove, toApply,
                    done, left, booting, crashes, refused>>
    BY <1>1 DEF vars, history, progress
  <2>2. TypeOK /\ AccountPhases /\ VersionsAreAChain /\ ValidAreNotRefused
    BY DEF IInv
  <2>3. ActiveChainValid /\ WorkIsOnPaths /\ StateFollows
    BY DEF IInv
  <2>4. ActiveChain' = ActiveChain /\ stateVersion' = stateVersion
    BY <2>1, ZenonT(30) DEF ActiveChain, stateVersion, Top, metadata
  <2>5. TypeOK'
    BY <2>1, <2>2 DEF TypeOK
  <2>6. AccountPhases'
    BY <2>1, <2>2, SMTT(30) DEF AccountPhases
  <2>7. VersionsAreAChain'
    BY <2>1, <2>2 DEF VersionsAreAChain, ChainOfVersions, metadata
  <2>8. ValidAreNotRefused'
    BY <2>1, <2>2 DEF ValidAreNotRefused
  <2>9. ActiveChainValid'
    BY <2>1, <2>3, <2>4, Zenon DEF ActiveChainValid
  <2>10. WorkIsOnPaths'
    BY <2>1, <2>3, <2>4, ZenonT(30) DEF WorkIsOnPaths, Working, IsPath
  <2>11. StateFollows'
    BY <2>1, <2>3, <2>4, SMTT(30) DEF StateFollows
  <2> QED
    BY <2>5, <2>6, <2>7, <2>8, <2>9, <2>10, <2>11 DEF IInv
<1>2. CASE Receive
  BY <1>2, pmodModifyKeepsIInv DEF Receive
<1>3. CASE Process
  <2>1. ~walletRollback /\ ~scanPersistent
    BY DEF walletRollback, scanPersistent, IInv, AccountPhases
  <2> QED
    BY <1>3, <2>1, stateRollbackKeepsIInv, applyConsensusEpochInfoKeepsIInv,
       epochInfoFailsKeepsIInv, stayInEpochKeepsIInv, applyModifierKeepsIInv, updateSemanticValidityKeepsIInv,
       setAsBestBlockKeepsIInv, reportModifierIsInvalidKeepsIInv, SMTT(30) DEF Process
<1>4. CASE Crash
  BY <1>4, CrashKeepsIInv
<1>5. CASE checkAndRecoverStorages
  BY <1>5, checkAndRecoverStoragesKeepsIInv
<1> QED
  BY <1>1, <1>2, <1>3, <1>4, <1>5 DEF Next

\* The invariant holds throughout.
LEMMA Invariance == Spec => []IInv
BY InitIInv, NextIInv, PTL DEF Spec

\* The history holds whole chains, and whatever the node view holder works on
\* is part of it, also after stops.
THEOREM AccountTypeCorrect == Spec => []TypeOK
<1>1. IInv => TypeOK
  BY DEF IInv
<1> QED
  BY <1>1, Invariance, PTL

\* Every block of the active chain is known and marked valid, whenever the
\* node may have been stopped.
THEOREM AccountActiveChainValid == Spec => []ActiveChainValid
<1>1. IInv => ActiveChainValid
  BY DEF IInv
<1> QED
  BY <1>1, Invariance, PTL

\* After any number of stops the state is on the active chain whenever the
\* node takes a block.
THEOREM AccountStateIsOnActiveChain == Spec => []StateIsOnActiveChain
<1>1. IInv => StateIsOnActiveChain
  BY DEF IInv, StateFollows, StateIsOnActiveChain
<1> QED
  BY <1>1, Invariance, PTL

\* ActiveChain.setNonGenesisBlock never meets a block whose parent is not in
\* the active chain: the best block moves from parent to child only.
THEOREM AccountBestMovesAlongActiveChain == Spec => BestMovesAlongActiveChain
<1>1. ASSUME IInv, [Next]_vars
      PROVE  [best' # best => Parent[best'] \in ActiveChain]_vars
  <2>1. CASE setAsBestBlock
    BY <1>1, <2>1, NewBestBlock
  <2>2. CASE [Next]_vars /\ ~setAsBestBlock
    <3>1. best' = best
      BY <2>2, Zenon DEF Next, Receive, pmodModify, Process, walletRollback, stateRollback,
         applyConsensusEpochInfo, epochInfoFails, stayInEpoch, applyModifier, scanPersistent,
         updateSemanticValidity, reportModifierIsInvalid, Crash,
         checkAndRecoverStorages, history, vars
    <3> QED
      BY <3>1
  <2> QED
    BY <1>1, <2>1, <2>2
<1> QED
  BY <1>1, Invariance, PTL DEF Spec, BestMovesAlongActiveChain
=============================================================================

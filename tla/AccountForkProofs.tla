------------------------- MODULE AccountForkProofs -------------------------
(***************************************************************************)
(* Proofs about the fork choice of the account node, for every block tree, *)
(* every set of refused blocks and every order in which blocks come, up to *)
(* the first stop of the node: the best chain that is not refused becomes  *)
(* the active one, and the state follows it.                               *)
(***************************************************************************)
EXTENDS AccountNodeProofs

\* The fork choice of AbstractHistory.append, for a block that comes to a node at
\* rest.
LEMMA ProgressIsPlanned ==
    ASSUME IInv, OnlyRefusedAreInvalid, NEW b \in Block, NEW val2,
           Arrives(known, validity, val2, refused, MaxRewrite, best, b),
           NEW info, info = ProgressInfo(b)
    PROVE  \/ /\ info.toApply = << >> /\ info.toRemove = << >>
              /\ Settled(known \cup {b}, val2, refused, MaxRewrite, best)
              /\ NothingOpen(known \cup {b}, val2, best)
           \/ Planned(known \cup {b}, val2, refused, MaxRewrite, best, info.branchPoint, info.toRemove,
                      info.toApply, << >>)
<1>1. /\ known \in SUBSET Block /\ best \in known /\ best \in Block
      /\ \A d \in known : Anc[d] \subseteq known
  BY DEF IInv, TypeOK
<1>2. b # Genesis /\ b \notin known /\ Parent[b] \in known /\ Parent[b] \in Block
  BY <1>1, Zenon DEF Arrives, Tree
<1>3. \A c \in Anc[best] : c \notin refused /\ validity[c] = "Valid"
  BY <1>1, SelfAncestor DEF IInv, ActiveChainValid, ActiveChain, ValidAreNotRefused
<1> DEFINE common == LastCommon(Parent[b], best)
           suffix == PathFromTo(common, Parent[b])
           old == PathFromTo(common, best)
<1>4. CASE Parent[b] = best
  <2>1. info = Progress(best, << >>, <<b>>)
    BY <1>4 DEF ProgressInfo
  <2>2. info.branchPoint = best /\ info.toRemove = << >> /\ info.toApply = <<b>>
    BY <2>1 DEF Progress
  <2>3. Planned(known \cup {b}, val2, refused, MaxRewrite, best, best, << >>, <<b>>, << >>)
    BY <1>4, ExtensionIsPlanned, Zenon
  <2> QED
    BY <2>2, <2>3
<1>5. CASE Parent[b] # best /\ info # NoProgress
  <2>1. /\ isBestBlock(b) /\ info = Progress(common, old, Append(suffix, b))
        /\ ~ \E i \in DOMAIN suffix : validity[suffix[i]] = "Invalid"
    BY <1>5, Zenon DEF ProgressInfo, bestForkChanges
  <2>2. info.branchPoint = common /\ info.toRemove = old /\ info.toApply = Append(suffix, b)
    BY <2>1 DEF Progress
  <2>3. Better(b, best)
    BY <2>1 DEF isBestBlock, Better
  <2>4. common \in Anc[Parent[b]]
    BY <1>1, <1>2, LastCommonHighest
  <2>5. suffix \in Seq(Anc[Parent[b]])
    <3> HIDE DEF common
    <3> QED
      BY <1>2, <2>4, PathFromToIsPath
  <2>6. \A i \in 1 .. Len(suffix) : validity[suffix[i]] # "Invalid"
    <3> HIDE DEF suffix
    <3>1. DOMAIN suffix = 1 .. Len(suffix)
      BY <2>5
    <3> QED
      BY <2>1, <3>1, Zenon
  <2>7. Planned(known \cup {b}, val2, refused, MaxRewrite, best, common, old, Append(suffix, b), << >>)
    <3> DEFINE c == common
               s == suffix
               o == old
    <3>1. c = LastCommon(Parent[b], best) /\ s = PathFromTo(c, Parent[b]) /\ o = PathFromTo(c, best)
          /\ \A i \in 1 .. Len(s) : validity[s[i]] # "Invalid"
      BY <2>6
    <3> HIDE DEF c, s, o, common, suffix, old
    <3>2. \A y \in Anc[best] : y \notin refused
      BY <1>3, Zenon
    <3>3. Planned(known \cup {b}, val2, refused, MaxRewrite, best, c, o, Append(s, b), << >>)
      BY <1>5, <2>3, <3>1, <3>2, ForkIsPlanned, ZenonT(30)
    <3> QED
      BY <3>3 DEF c, s, o
  <2> QED
    BY <2>2, <2>7
<1>6. CASE Parent[b] # best /\ info = NoProgress
  <2>1. info.toRemove = << >> /\ info.toApply = << >>
    BY <1>6 DEF NoProgress, Progress
  <2>2. ASSUME Better(b, best), Anc[b] \cap refused = {} PROVE BranchedTooLow(known, validity, MaxRewrite, b)
    <3>1. bestForkChanges(b) = NoProgress
      BY <1>6, <2>2 DEF ProgressInfo, isBestBlock, Better
    <3>2. Anc[b] = Anc[Parent[b]] \cup {b} /\ b \notin Anc[best]
      BY <1>1, <1>2, TreeAssumption
    <3>3. LastCommon(b, best) = common
      <4>1. Anc[b] \cap Anc[best] = Anc[Parent[b]] \cap Anc[best]
        BY <3>2
      <4> QED
        BY <4>1, Zenon DEF LastCommon
    <3>4. common \in Anc[Parent[b]]
      BY <1>1, <1>2, LastCommonHighest
    <3>5. CASE Height[best] - Height[common] > MaxRewrite
      <4>1. validity[best] = "Valid"
        BY <1>1, <1>3, SelfAncestor
      <4> QED
        BY <1>1, <3>3, <3>5, <4>1, Zenon DEF BranchedTooLow
    <3>6. CASE \E i \in DOMAIN suffix : validity[suffix[i]] = "Invalid"
      <4>1. suffix \in Seq(Anc[Parent[b]])
        <5> HIDE DEF common
        <5> QED
          BY <1>2, <3>4, PathFromToIsPath
      <4>2. PICK i \in DOMAIN suffix : validity[suffix[i]] = "Invalid"
        BY <3>6, Zenon
      <4> HIDE DEF suffix
      <4>3. suffix[i] \in Anc[Parent[b]]
        BY <4>1, <4>2
      <4>4. suffix[i] \in Block
        BY <1>2, <4>3, SelfAncestor
      <4>5. suffix[i] \in refused
        BY <4>2, <4>4 DEF OnlyRefusedAreInvalid
      <4> QED
        BY <2>2, <3>2, <4>3, <4>5
    <3>7. CASE /\ ~(Height[best] - Height[common] > MaxRewrite)
               /\ ~ \E i \in DOMAIN suffix : validity[suffix[i]] = "Invalid"
      <4>1. Progress(common, old, Append(suffix, b)) = NoProgress
        BY <3>1, <3>7, Zenon DEF bestForkChanges
      <4>2. Append(suffix, b) = << >>
        BY <4>1 DEF NoProgress, Progress
      <4>3. suffix \in Seq(Anc[Parent[b]])
        <5> HIDE DEF common
        <5> QED
          BY <1>2, <3>4, PathFromToIsPath
      <4> HIDE DEF suffix
      <4>4. Len(Append(suffix, b)) = Len(suffix) + 1 /\ Len(suffix) \in Nat
        BY <4>3
      <4> QED
        BY <4>2, <4>4
    <3> QED
      BY <3>5, <3>6, <3>7, Zenon
  <2>3. /\ Settled(known \cup {b}, val2, refused, MaxRewrite, best)
        /\ NothingOpen(known \cup {b}, val2, best)
    BY <1>6, <2>2, RestIsKept, Zenon
  <2> QED
    BY <2>1, <2>3
<1> QED
  BY <1>4, <1>5, <1>6, Zenon

----------------------------------------------------------------------------

\* Between two blocks the state is at the best block; while the node is at work the
\* state is where the next block belongs, and only refused blocks fail.
ForkInv ==
    crashes = 0 =>
        /\ phase # "down"
        /\ OnlyRefusedAreInvalid
        /\ phase = "idle" =>
              /\ stateVersion = IdVersion(best)
              /\ Settled(known, validity, refused, MaxRewrite, best) /\ NothingOpen(known, validity, best)
              /\ \A i \in 1 .. Len(toRemove) : toRemove[i] \notin Anc[best]
        /\ Working =>
              /\ Planned(known, validity, refused, MaxRewrite, best, branch, toRemove, toApply, done)
              /\ phase \in {"apply", "invalid"} => stateVersion = IdVersion(Parent[toApply[1]])
              /\ phase = "invalid" => toApply[1] \in refused

\* What updateStateAndWallet does, for a progress that is planned or empty.
LEMMA UpdatePlanned ==
    ASSUME NEW bp, NEW remove \in Seq(Block), NEW apply \in Seq(Block), IsPath(bp, apply),
           updateStateAndWallet(Progress(bp, remove, apply)), versions' = versions, best' = best,
           OnlyRefusedAreInvalid',
           \/ /\ apply = << >> /\ remove = << >> /\ stateVersion = IdVersion(best)
              /\ Settled(known', validity', refused', MaxRewrite, best) /\ NothingOpen(known', validity', best)
           \/ /\ Planned(known', validity', refused', MaxRewrite, best, bp, remove, apply, << >>)
              /\ remove = << >> => stateVersion = IdVersion(bp)
    PROVE  ForkInv'
<1> DEFINE rollback == remove # << >> /\ stateVersion # IdVersion(bp)
<1>1. /\ branch' = bp /\ toRemove' = remove /\ toApply' = apply /\ done' = << >>
      /\ phase' = IF rollback THEN "stateRollback"
                  ELSE IF apply # << >> THEN "apply" ELSE "idle"
  BY OneStorage DEF updateStateAndWallet, Progress
<1>2. stateVersion' = stateVersion
  BY DEF stateVersion, Top
<1>3. phase' # "down" /\ phase' # "invalid"
  BY <1>1
<1>4. CASE /\ apply = << >> /\ remove = << >> /\ stateVersion = IdVersion(best)
           /\ Settled(known', validity', refused', MaxRewrite, best) /\ NothingOpen(known', validity', best)
  <2>1. phase' = "idle" /\ ~Working'
    BY <1>1, <1>4 DEF Working
  <2>2. \A i \in 1 .. Len(toRemove') : toRemove'[i] \notin Anc[best']
    BY <1>1, <1>4
  <2>3. Settled(known, validity, refused, MaxRewrite, best)' /\ NothingOpen(known, validity, best)'
    BY <1>4, Zenon DEF Settled, NothingOpen, Closed, BranchedTooLow
  <2>4. stateVersion' = IdVersion(best')
    BY <1>2, <1>4
  <2> QED
    BY <1>3, <2>1, <2>2, <2>3, <2>4, Zenon DEF ForkInv, IdVersion
<1>5. CASE /\ Planned(known', validity', refused', MaxRewrite, best, bp, remove, apply, << >>)
           /\ remove = << >> => stateVersion = IdVersion(bp)
  <2>1. apply # << >>
    BY <1>5, Zenon DEF Planned
  <2>2. phase' # "idle"
    BY <1>1, <2>1
  <2>3. Planned(known', validity', refused', MaxRewrite, best', branch', toRemove', toApply', done')
    BY <1>1, <1>5, Zenon
  <2>4. Parent[apply[1]] = bp
    <3>1. 1 \in 1 .. Len(apply)
      BY <2>1
    <3> QED
      BY <3>1 DEF IsPath
  <2>5. phase' = "apply" => stateVersion' = IdVersion(Parent[toApply'[1]])
    BY <1>1, <1>2, <1>5, <2>4
  <2>6. Planned(known, validity, refused, MaxRewrite, best, branch, toRemove, toApply, done)'
    BY <2>3, Zenon DEF Planned, WayBack, Settled, NothingOpen, Closed, BranchedTooLow, Origin, LastOf, Better
  <2>7. phase' \in {"apply", "invalid"} => phase' = "apply"
    BY <1>3
  <2>8. (stateVersion = IdVersion(Parent[toApply[1]]))' <=> stateVersion' = IdVersion(Parent[toApply'[1]])
    BY Zenon DEF IdVersion
  <2> QED
    BY <1>3, <2>2, <2>5, <2>6, <2>7, <2>8, Zenon DEF ForkInv
<1> QED
  BY <1>4, <1>5, Zenon

\* The state accepts the block that the node starts to write: no version of it is
\* there yet.
LEMMA ModifierIsApplied ==
    ASSUME IInv, applyModifier
    PROVE  phase' = "valid"
<1> USE DEF IInv
<1> DEFINE b == Head(toApply)
<1>1. phase = "state" /\ left = <<"stateMetadata">>
  BY DEF applyModifier, AccountPhases
<1>2. /\ metadata \in Seq(Version) /\ metadata # << >> /\ toApply \in Seq(Block)
      /\ versions \in [Storages -> Seq(Version)]
  BY KnownSequences DEF TypeOK
<1>3. toApply # << >> /\ IsPath(IF done = << >> THEN branch ELSE best, toApply)
  BY <1>1 DEF WorkIsOnPaths, Working
<1>4. b \in Block /\ b # Genesis
  BY <1>2, <1>3, TailPath
<1>5. metadata[1] = IdVersion(Parent[b])
  BY <1>1, OneStorage DEF StateFollows
<1>6. ~HasVersion("stateMetadata", IdVersion(b))
  BY <1>2, <1>4, <1>5, PushedChain DEF VersionsAreAChain
<1>7. WalletOrder = << >>
  BY StoragesAssumption
<1> QED
  BY <1>1, <1>6, <1>7 DEF applyModifier, UpdateStorage, Advance

\* A rollback that finds its version leaves the state at the branch point.
LEMMA RollbackEndsAtBranch ==
    ASSUME IInv, stateRollback
    PROVE  \/ phase' = "halted"
           \/ /\ phase' = IF toApply # << >> THEN "apply" ELSE "idle"
              /\ stateVersion' = IdVersion(branch)
<1> USE DEF IInv
<1>1. phase = "stateRollback" /\ left = <<"stateMetadata">> /\ booting = FALSE
  BY DEF stateRollback, AccountPhases
<1>2. /\ known \subseteq Block /\ branch \in Block
      /\ metadata \in Seq(Version) /\ versions \in [Storages -> Seq(Version)]
  BY KnownSequences DEF TypeOK
<1>3. CASE HasVersion("stateMetadata", IdVersion(branch))
  <2>1. /\ versions' = [versions EXCEPT !["stateMetadata"] =
                           RolledBack("stateMetadata", IdVersion(branch))]
        /\ phase' = IF toApply # << >> THEN "apply" ELSE "idle"
    BY <1>1, <1>3 DEF stateRollback, RollbackStorage, Advance
  <2>2. metadata' = RolledBack("stateMetadata", IdVersion(branch))
    BY <1>2, <2>1, OneStorage DEF metadata
  <2>3. metadata' \in Seq(Version) /\ metadata' # << >> /\ metadata'[1] = IdVersion(branch)
    BY <1>2, <1>3, <2>2, RolledBackChain DEF VersionsAreAChain
  <2>4. stateVersion' = IdVersion(branch)
    BY <2>3, StoragesAssumption DEF stateVersion, Top, metadata
  <2> QED
    BY <2>1, <2>4
<1>4. CASE ~HasVersion("stateMetadata", IdVersion(branch))
  BY <1>1, <1>4 DEF stateRollback, RollbackStorage
<1> QED
  BY <1>3, <1>4

\* A step within the work on the blocks at hand that leaves the history alone.
LEMMA ForkKept ==
    ASSUME ForkInv, crashes = 0, Working,
           UNCHANGED <<known, validity, best, branch, toRemove, toApply, done, refused>>,
           phase' \notin {"down", "idle"},
           phase' \in {"apply", "invalid"} => stateVersion' = IdVersion(Parent[toApply[1]]),
           phase' = "invalid" => toApply[1] \in refused
    PROVE  ForkInv'
<1>1. /\ OnlyRefusedAreInvalid
      /\ Planned(known, validity, refused, MaxRewrite, best, branch, toRemove, toApply, done)
  BY Zenon DEF ForkInv
<1>2. OnlyRefusedAreInvalid'
  BY <1>1, Zenon DEF OnlyRefusedAreInvalid
<1>3. Planned(known, validity, refused, MaxRewrite, best, branch, toRemove, toApply, done)'
  BY <1>1, ZenonT(30) DEF Planned, WayBack, Settled, NothingOpen, Closed, BranchedTooLow, Origin, LastOf, Better
<1>4. phase' # "down" /\ phase' # "idle"
  OBVIOUS
<1>5. phase' \in {"apply", "invalid"} => (stateVersion = IdVersion(Parent[toApply[1]]))'
  BY Zenon DEF IdVersion
<1>6. phase' = "invalid" => (toApply[1] \in refused)'
  BY Zenon
<1> QED
  BY <1>2, <1>3, <1>4, <1>5, <1>6, Zenon DEF ForkInv

\* The block at hand is checked against the state.
LEMMA ForkStartBlock ==
    ASSUME IInv, ForkInv, crashes = 0, phase = "apply", StartBlock(Head(toApply)), versions' = versions,
           UNCHANGED <<history, progress, refused>>
    PROVE  ForkInv'
<1>1. Working
  BY DEF Working
<1>2. toApply # << >> /\ toApply \in Seq(Block)
  BY <1>1, KnownSequences DEF IInv, WorkIsOnPaths
<1>3. Head(toApply) = toApply[1]
  BY <1>2
<1>4. stateVersion' = stateVersion /\ stateVersion = IdVersion(Parent[toApply[1]])
  <2>1. stateVersion' = stateVersion
    BY DEF stateVersion, Top
  <2>2. stateVersion = IdVersion(Parent[toApply[1]])
    BY <1>1 DEF ForkInv
  <2> QED
    BY <2>1, <2>2
<1>5. phase' = IF toApply[1] \notin refused THEN "state" ELSE "invalid"
  BY <1>3, <1>4, Zenon DEF StartBlock, AppliesToState
<1>6. UNCHANGED <<known, validity, best, branch, toRemove, toApply, done, refused>>
  BY Zenon DEF history, progress
<1>7. phase' \notin {"down", "idle"} /\ (phase' = "invalid" => toApply[1] \in refused)
  BY <1>5
<1> QED
  BY <1>1, <1>4, <1>6, <1>7, ForkKept, ZenonT(30)

\* A block that comes to a node at rest.
LEMMA ForkReceive ==
    ASSUME IInv, ForkInv, crashes = 0, NEW b \in Block, pmodModify(b)
    PROVE  ForkInv'
<1>1. /\ phase = "idle" /\ b \notin known /\ Parent[b] \in known
      /\ known' = known \cup {b} /\ validity' = [validity EXCEPT ![b] = "Unknown"]
      /\ updateStateAndWallet(ProgressInfo(b))
      /\ best' = best /\ versions' = versions /\ refused' = refused
  BY Zenon DEF pmodModify
<1>2. /\ stateVersion = IdVersion(best) /\ OnlyRefusedAreInvalid
      /\ Settled(known, validity, refused, MaxRewrite, best) /\ NothingOpen(known, validity, best)
  BY <1>1, Zenon DEF ForkInv
<1>3. /\ known \in SUBSET Block
      /\ validity \in [Block -> {"Absent", "Unknown", "Valid", "Invalid"}]
  BY DEF IInv, TypeOK
<1>4. \A c \in Block : validity'[c] = IF c = b THEN "Unknown" ELSE validity[c]
  BY <1>1, <1>3
<1>5. OnlyRefusedAreInvalid'
  BY <1>1, <1>2, <1>4 DEF OnlyRefusedAreInvalid
<1>6. PICK bp \in ActiveChain, remove \in Seq(known'), apply \in Seq(known') :
          /\ ProgressInfo(b) = Progress(bp, remove, apply)
          /\ IsPath(bp, remove) /\ IsPath(bp, apply)
  BY <1>1, ProgressIsOnPaths, Zenon DEF IInv
<1>7. remove \in Seq(Block) /\ apply \in Seq(Block)
  BY <1>1, <1>3
<1>8. /\ Progress(bp, remove, apply).branchPoint = bp
      /\ Progress(bp, remove, apply).toRemove = remove
      /\ Progress(bp, remove, apply).toApply = apply
  BY DEF Progress
<1> DEFINE info == ProgressInfo(b)
           val2 == validity'
<1>9. info = ProgressInfo(b) /\ info.branchPoint = bp /\ info.toRemove = remove /\ info.toApply = apply
  BY <1>6, <1>8
<1>10. \A c \in known : val2[c] = validity[c]
  BY <1>1, <1>3, <1>4, SMTT(30)
<1> HIDE DEF info, val2
<1>a. Arrives(known, validity, val2, refused, MaxRewrite, best, b)
  BY <1>1, <1>2, <1>10, TreeAssumption, SMTT(30) DEF Arrives, Tree, IInv, TypeOK
<1>11. \/ /\ apply = << >> /\ remove = << >>
          /\ Settled(known \cup {b}, val2, refused, MaxRewrite, best) /\ NothingOpen(known \cup {b}, val2, best)
       \/ Planned(known \cup {b}, val2, refused, MaxRewrite, best, bp, remove, apply, << >>)
  <2>1. \/ /\ info.toApply = << >> /\ info.toRemove = << >>
           /\ Settled(known \cup {b}, val2, refused, MaxRewrite, best)
           /\ NothingOpen(known \cup {b}, val2, best)
        \/ Planned(known \cup {b}, val2, refused, MaxRewrite, best, info.branchPoint,
                   info.toRemove, info.toApply, << >>)
    BY <1>2, <1>9, <1>a, ProgressIsPlanned, Zenon
  <2> QED
    BY <1>9, <2>1, Zenon
<1>12. remove = << >> => bp = best
  <2>1. CASE ProgressInfo(b) = Progress(best, << >>, <<b>>) \/ ProgressInfo(b) = NoProgress
    BY <1>6, <2>1 DEF NoProgress, Progress
  <2>2. CASE /\ Parent[b] # best
             /\ ProgressInfo(b) = Progress(LastCommon(Parent[b], best),
                                           PathFromTo(LastCommon(Parent[b], best), best),
                                           Append(PathFromTo(LastCommon(Parent[b], best), Parent[b]), b))
    <3> DEFINE c == LastCommon(Parent[b], best)
    <3>1. best \in Block /\ Parent[b] \in Block
      BY <1>1, <1>3, SMTT(30) DEF IInv, TypeOK
    <3>2. c \in Anc[best]
      BY <3>1, LastCommonHighest
    <3>3. bp = c /\ remove = PathFromTo(c, best)
      BY <1>6, <2>2 DEF Progress
    <3> HIDE DEF c
    <3> QED
      BY <3>1, <3>2, <3>3, PathFromToIsPath, ZenonT(30)
  <2> QED
    BY <2>1, <2>2, Zenon DEF ProgressInfo, bestForkChanges
<1>13. \/ /\ apply = << >> /\ remove = << >> /\ stateVersion = IdVersion(best)
          /\ Settled(known', validity', refused', MaxRewrite, best) /\ NothingOpen(known', validity', best)
       \/ /\ Planned(known', validity', refused', MaxRewrite, best, bp, remove, apply, << >>)
          /\ remove = << >> => stateVersion = IdVersion(bp)
  BY <1>1, <1>2, <1>11, <1>12, Zenon DEF val2
<1>14. updateStateAndWallet(Progress(bp, remove, apply))
  BY <1>1, <1>6, Zenon
<1> QED
  BY <1>1, <1>5, <1>6, <1>7, <1>13, <1>14, UpdatePlanned, Zenon

\* A block is refused: the chain goes back to where it was.
LEMMA ForkReturn ==
    ASSUME IInv, ForkInv, crashes = 0, reportModifierIsInvalid
    PROVE  ForkInv'
<1>1. /\ phase = "invalid" /\ validity' = [validity EXCEPT ![Head(toApply)] = "Invalid"]
      /\ updateStateAndWallet(Progress(branch, done, toRemove))
      /\ known' = known /\ best' = best /\ versions' = versions /\ refused' = refused
  BY Zenon DEF reportModifierIsInvalid
<1>2. Working
  BY <1>1, SMTT(30) DEF Working
<1>3. /\ OnlyRefusedAreInvalid /\ toApply[1] \in refused
      /\ Planned(known, validity, refused, MaxRewrite, best, branch, toRemove, toApply, done)
      /\ stateVersion = IdVersion(Parent[toApply[1]])
  BY <1>1, <1>2 DEF ForkInv
<1>4. /\ toApply # << >> /\ IsPath(IF done = << >> THEN branch ELSE best, toApply)
      /\ IsPath(branch, toRemove)
  BY <1>1, <1>2, ZenonT(30) DEF IInv, WorkIsOnPaths, Planned
<1>5. /\ toApply \in Seq(Block) /\ toRemove \in Seq(Block) /\ done \in Seq(Block) /\ known \in SUBSET Block
      /\ \A d \in known : Anc[d] \subseteq known
      /\ validity \in [Block -> {"Absent", "Unknown", "Valid", "Invalid"}]
  BY KnownSequences DEF IInv, TypeOK
<1>6. Head(toApply) = toApply[1] /\ toApply[1] \in Block
  BY <1>4, <1>5
<1>7. \A c \in Block : validity'[c] = IF c = toApply[1] THEN "Invalid" ELSE validity[c]
  BY <1>1, <1>5, <1>6
<1>8. OnlyRefusedAreInvalid'
  BY <1>1, <1>3, <1>7 DEF OnlyRefusedAreInvalid
<1> DEFINE val2 == validity'
<1>9. \A c \in known : val2[c] = IF c = toApply[1] THEN "Invalid" ELSE validity[c]
  BY <1>5, <1>7
<1>10. \A c \in known : validity[c] = "Valid" => c \notin refused
  BY <1>5 DEF IInv, ValidAreNotRefused
<1> HIDE DEF val2
<1>11. /\ toRemove # << >> => Planned(known, val2, refused, MaxRewrite, best, branch, done, toRemove, << >>)
       /\ toRemove = << >> => /\ done = << >> /\ branch = best
                              /\ Settled(known, val2, refused, MaxRewrite, best) /\ NothingOpen(known, val2, best)
  <2>1. Tree(known) /\ toApply \in Seq(Block) /\ Marked(known, validity, val2, toApply[1], "Invalid")
    BY <1>5, <1>9, Zenon DEF Tree, Marked
  <2>2. /\ Planned(known, validity, refused, MaxRewrite, best, branch, toRemove, toApply, done)
        /\ toApply[1] \in refused
    BY <1>3, Zenon
  <2> QED
    BY <2>1, <2>2, <1>10, PlannedReturn
<1>12. done = << >> => Parent[toApply[1]] = branch
  <2>1. 1 \in 1 .. Len(toApply)
    BY <1>4, <1>5
  <2> QED
    BY <1>4, <2>1 DEF IsPath
<1>13. \/ /\ toRemove = << >> /\ done = << >> /\ stateVersion = IdVersion(best)
          /\ Settled(known', validity', refused', MaxRewrite, best) /\ NothingOpen(known', validity', best)
       \/ /\ Planned(known', validity', refused', MaxRewrite, best, branch, done, toRemove, << >>)
          /\ done = << >> => stateVersion = IdVersion(branch)
  BY <1>1, <1>3, <1>11, <1>12, Zenon DEF val2
<1> QED
  BY <1>1, <1>4, <1>5, <1>8, <1>13, UpdatePlanned, Zenon

\* The block that the state has accepted is marked valid.
LEMMA ForkMarkedValid ==
    ASSUME IInv, ForkInv, crashes = 0, updateSemanticValidity
    PROVE  ForkInv'
<1>1. /\ phase = "valid" /\ phase' = "best" /\ validity' = [validity EXCEPT ![Head(toApply)] = "Valid"]
      /\ UNCHANGED <<known, best, branch, toRemove, toApply, done, refused>>
  BY Zenon DEF updateSemanticValidity, progress
<1>2. Working /\ Working'
  BY <1>1 DEF Working
<1>3. /\ OnlyRefusedAreInvalid
      /\ Planned(known, validity, refused, MaxRewrite, best, branch, toRemove, toApply, done)
  BY <1>2, Zenon DEF ForkInv
<1>4. /\ known \in SUBSET Block /\ \A d \in known : Anc[d] \subseteq known
      /\ validity \in [Block -> {"Absent", "Unknown", "Valid", "Invalid"}]
      /\ toApply \in Seq(Block)
  BY KnownSequences DEF IInv, TypeOK
<1>5. Head(toApply) \notin refused /\ Head(toApply) \in Block
  <2>1. toApply # << >>
    BY <1>3, Zenon DEF Planned
  <2> QED
    BY <1>1, <1>4, <2>1 DEF IInv, StateFollows
<1> DEFINE h == Head(toApply)
           val2 == validity'
<1>6. \A c \in Block : val2[c] = IF c = h THEN "Valid" ELSE validity[c]
  BY <1>1, <1>4, <1>5
<1>7. OnlyRefusedAreInvalid'
  BY <1>1, <1>3, <1>6 DEF OnlyRefusedAreInvalid
<1> HIDE DEF h, val2
<1>8. h \notin refused /\ Tree(known) /\ Marked(known, validity, val2, h, "Valid")
  BY <1>4, <1>5, <1>6 DEF h, Tree, Marked
<1>9. \A c \in known : validity[c] = "Invalid" => c \in refused
  BY <1>3, <1>4 DEF OnlyRefusedAreInvalid
<1>10. Planned(known, val2, refused, MaxRewrite, best, branch, toRemove, toApply, done)
  BY <1>3, <1>8, <1>9, PlannedMarkedValid, Zenon
<1>11. Planned(known', validity', refused', MaxRewrite, best', branch', toRemove', toApply', done')
  BY <1>1, <1>10, Zenon DEF val2
<1>12. Planned(known, validity, refused, MaxRewrite, best, branch, toRemove, toApply, done)'
  BY <1>11, Zenon DEF Planned, WayBack, Settled, NothingOpen, Closed, BranchedTooLow, Origin, LastOf, Better
<1>13. phase' # "down" /\ phase' # "idle" /\ phase' \notin {"apply", "invalid"} /\ phase' # "invalid"
  BY <1>1
<1> QED
  BY <1>7, <1>12, <1>13, Zenon DEF ForkInv

\* The block becomes the best one.
LEMMA ForkAdvance ==
    ASSUME IInv, ForkInv, crashes = 0, setAsBestBlock, IInv'
    PROVE  ForkInv'
<1>1. /\ phase = "best" /\ best' = Head(toApply) /\ toApply' = Tail(toApply)
      /\ done' = Append(done, Head(toApply))
      /\ phase' = IF Tail(toApply) = << >> THEN "idle" ELSE "apply"
      /\ UNCHANGED <<known, validity, versions, branch, toRemove, refused>>
  BY Zenon DEF setAsBestBlock
<1>2. Working
  BY <1>1 DEF Working
<1>3. /\ OnlyRefusedAreInvalid
      /\ Planned(known, validity, refused, MaxRewrite, best, branch, toRemove, toApply, done)
  BY <1>2, Zenon DEF ForkInv
<1>4. OnlyRefusedAreInvalid'
  BY <1>1, <1>3, ZenonT(30) DEF OnlyRefusedAreInvalid
<1>5. toApply # << >> /\ toApply \in Seq(Block) /\ done \in Seq(Block)
  BY <1>3, KnownSequences DEF IInv, Planned
<1>6. Head(toApply) = toApply[1]
  BY <1>5
<1>7. stateVersion' = stateVersion /\ stateVersion = IdVersion(toApply[1])
  BY <1>1, <1>6 DEF stateVersion, Top, IInv, StateFollows
<1>8. /\ Tail(toApply) # << >> =>
             Planned(known, validity, refused, MaxRewrite, toApply[1], branch,
                     toRemove, Tail(toApply), Append(done, toApply[1]))
      /\ Tail(toApply) = << >> =>
             /\ Settled(known, validity, refused, MaxRewrite, toApply[1]) /\ NothingOpen(known, validity, toApply[1])
             /\ \A i \in 1 .. Len(toRemove) : toRemove[i] \notin Anc[toApply[1]]
  BY <1>3, <1>5, PlannedAdvance, Zenon
<1>9. CASE Tail(toApply) = << >>
  <2>1. phase' = "idle" /\ ~Working'
    BY <1>1, <1>9 DEF Working
  <2>2. Settled(known', validity', refused', MaxRewrite, best') /\ NothingOpen(known', validity', best')
    BY <1>1, <1>6, <1>8, <1>9, Zenon
  <2>3. Settled(known, validity, refused, MaxRewrite, best)' /\ NothingOpen(known, validity, best)'
    BY <2>2, Zenon DEF Settled, NothingOpen, Closed, BranchedTooLow, Better
  <2>4. \A i \in 1 .. Len(toRemove') : toRemove'[i] \notin Anc[best']
    BY <1>1, <1>6, <1>8, <1>9, Zenon
  <2>5. (stateVersion = IdVersion(best))'
    BY <1>1, <1>6, <1>7, Zenon DEF IdVersion
  <2>6. phase' # "down"
    BY <2>1
  <2> QED
    BY <1>4, <2>1, <2>3, <2>4, <2>5, <2>6, Zenon DEF ForkInv
<1>10. CASE Tail(toApply) # << >>
  <2>1. phase' = "apply" /\ phase' # "down" /\ phase' # "idle" /\ phase' # "invalid" /\ Working'
    BY <1>1, <1>10 DEF Working
  <2>2. Planned(known', validity', refused', MaxRewrite, best', branch', toRemove', toApply', done')
    BY <1>1, <1>6, <1>8, <1>10, Zenon
  <2>3. Planned(known, validity, refused, MaxRewrite, best, branch, toRemove, toApply, done)'
    BY <2>2, Zenon DEF Planned, WayBack, Settled, NothingOpen, Closed, BranchedTooLow, Origin, LastOf, Better
  <2>4. done' # << >>
    <3>1. Len(Append(done, Head(toApply))) = Len(done) + 1 /\ Len(done) \in Nat
      BY <1>5
    <3> QED
      BY <1>1, <3>1
  <2>5. stateVersion' = IdVersion(Parent[Head(toApply')])
    BY <2>1, <2>4 DEF IInv, StateFollows, IdVersion
  <2>6. Head(toApply') = toApply'[1]
    BY <1>1, <1>5, <1>10
  <2>7. (stateVersion = IdVersion(Parent[toApply[1]]))'
    BY <2>5, <2>6, Zenon DEF IdVersion
  <2> QED
    BY <1>4, <2>1, <2>3, <2>7, Zenon DEF ForkInv
<1> QED
  BY <1>9, <1>10

\* Every step of a node that has not been stopped keeps the invariant.
LEMMA ForkStep ==
    ASSUME IInv, ForkInv, [Next]_vars, IInv'
    PROVE  ForkInv'
<1>1. CASE crashes # 0
  <2>1. crashes' = crashes \/ crashes' = crashes + 1
    BY Zenon DEF Next, Receive, pmodModify, Process, walletRollback, stateRollback,
       applyConsensusEpochInfo, epochInfoFails, stayInEpoch, applyModifier, scanPersistent,
       updateSemanticValidity, setAsBestBlock, reportModifierIsInvalid, Crash,
       checkAndRecoverStorages, vars
  <2>2. crashes \in Nat
    BY Zenon DEF IInv, TypeOK
  <2>3. crashes' # 0
    BY <1>1, <2>1, <2>2
  <2> QED
    BY <2>3, Zenon DEF ForkInv
<1>2. CASE crashes = 0
  <2>1. CASE UNCHANGED vars
    <3>1. UNCHANGED <<known, validity, best, versions, phase, branch, toRemove, toApply, done, refused, crashes>>
      BY <2>1, Zenon DEF vars, history, progress
    <3>2. ForkInv' <=> ForkInv
      BY <3>1, ZenonT(30) DEF ForkInv, OnlyRefusedAreInvalid, stateVersion, Top, IdVersion, Working,
         Planned, WayBack, Settled, NothingOpen, Closed, BranchedTooLow, Origin, LastOf, Better
    <3> QED
      BY <3>2
  <2>2. CASE Receive
    BY <1>2, <2>2, ForkReceive, Zenon DEF Receive
  <2>3. CASE stateRollback
    <3>1. /\ phase = "stateRollback"
          /\ UNCHANGED <<known, validity, best, branch, toRemove, toApply, done, refused>>
      BY <2>3, Zenon DEF stateRollback, history, progress
    <3>2. Working
      BY <3>1 DEF Working
    <3>3. toApply # << >> /\ toApply \in Seq(Block)
      BY <1>2, <3>2, KnownSequences, Zenon DEF ForkInv, Planned, IInv
    <3>4. IsPath(branch, toApply)
      BY <3>1, <3>2 DEF IInv, WorkIsOnPaths
    <3>5. Parent[toApply[1]] = branch
      <4>1. 1 \in 1 .. Len(toApply)
        BY <3>3
      <4> QED
        BY <3>4, <4>1 DEF IsPath
    <3>6. phase' = "halted" \/ (phase' = "apply" /\ stateVersion' = IdVersion(branch))
      BY <2>3, <3>3, RollbackEndsAtBranch, Zenon
    <3>7. /\ phase' \notin {"down", "idle"} /\ phase' # "invalid"
          /\ phase' \in {"apply", "invalid"} => stateVersion' = IdVersion(Parent[toApply[1]])
      BY <3>5, <3>6
    <3> QED
      BY <1>2, <3>1, <3>2, <3>7, ForkKept, Zenon
  <2>4. CASE applyConsensusEpochInfo \/ epochInfoFails \/ stayInEpoch
    <3>1. versions' = versions
      <4>1. CASE applyConsensusEpochInfo
        <5>1. versions' = [s \in Storages |-> versions[s]]
          BY <4>1, OneStorage DEF applyConsensusEpochInfo
        <5>2. versions \in [Storages -> Seq(Version)]
          BY DEF IInv, TypeOK
        <5> QED
          BY <5>1, <5>2
      <4> QED
        BY <2>4, <4>1, Zenon DEF epochInfoFails, stayInEpoch
    <3>2. /\ phase = "apply" /\ StartBlock(Head(toApply)) /\ UNCHANGED <<history, progress, refused>>
      BY <2>4, Zenon DEF applyConsensusEpochInfo, epochInfoFails, stayInEpoch
    <3> QED
      BY <1>2, <3>1, <3>2, ForkStartBlock, Zenon
  <2>5. CASE applyModifier
    <3>1. /\ phase = "state"
          /\ UNCHANGED <<known, validity, best, branch, toRemove, toApply, done, refused>>
      BY <2>5, Zenon DEF applyModifier, history, progress
    <3>2. Working
      BY <3>1 DEF Working
    <3>3. phase' = "valid"
      BY <2>5, ModifierIsApplied, Zenon
    <3>4. phase' \notin {"down", "idle"} /\ phase' \notin {"apply", "invalid"} /\ phase' # "invalid"
      BY <3>3
    <3> QED
      BY <1>2, <3>1, <3>2, <3>4, ForkKept, Zenon
  <2>6. CASE updateSemanticValidity
    BY <1>2, <2>6, ForkMarkedValid, Zenon
  <2>7. CASE setAsBestBlock
    BY <1>2, <2>7, ForkAdvance, ZenonT(30)
  <2>8. CASE reportModifierIsInvalid
    BY <1>2, <2>8, ForkReturn, Zenon
  <2>9. CASE Crash
    <3>1. crashes' = 1
      BY <1>2, <2>9 DEF Crash
    <3>2. crashes' # 0
      BY <3>1
    <3> QED
      BY <3>2, Zenon DEF ForkInv
  <2>10. ~walletRollback /\ ~scanPersistent /\ ~checkAndRecoverStorages
    <3>1. ~walletRollback /\ ~scanPersistent
      BY DEF walletRollback, scanPersistent, IInv, AccountPhases
    <3>2. ~checkAndRecoverStorages
      BY <1>2, Zenon DEF checkAndRecoverStorages, ForkInv
    <3> QED
      BY <3>1, <3>2
  <2> QED
    BY <2>1, <2>2, <2>3, <2>4, <2>5, <2>6, <2>7, <2>8, <2>9, <2>10, ZenonT(30) DEF Next, Process
<1> QED
  BY <1>1, <1>2

\* The node starts at rest.
LEMMA ForkInitial ==
    ASSUME Init
    PROVE  ForkInv
<1>1. /\ known = {Genesis} /\ best = Genesis /\ phase = "idle" /\ toRemove = << >>
      /\ validity = [b \in Block |-> IF b = Genesis THEN "Valid" ELSE "Absent"]
  BY DEF Init
<1>2. stateVersion = IdVersion(Genesis)
  BY OneStorage DEF Init, metadata
<1>3. Genesis \in Block /\ Score[Genesis] \in Nat /\ Height[Genesis] \in Nat
  BY TreeAssumption
<1>4. ~Better(Genesis, Genesis)
  BY <1>3 DEF Better
<1>5. Settled(known, validity, refused, MaxRewrite, best) /\ NothingOpen(known, validity, best)
  BY <1>1, <1>4 DEF Settled, NothingOpen
<1>6. OnlyRefusedAreInvalid
  BY <1>1 DEF OnlyRefusedAreInvalid
<1>7. /\ phase # "down" /\ ~Working
      /\ \A i \in 1 .. Len(toRemove) : toRemove[i] \notin Anc[best]
      /\ stateVersion = IdVersion(best)
  BY <1>1, <1>2 DEF Working
<1> QED
  BY <1>5, <1>6, <1>7, Zenon DEF ForkInv

\* So a node that has not been stopped is at rest whenever it waits for a block.
LEMMA ForkInvariance == Spec => [](IInv /\ ForkInv)
<1>1. Init => IInv /\ ForkInv
  BY InitIInv, ForkInitial
<1>2. (IInv /\ ForkInv) /\ [Next]_vars => (IInv /\ ForkInv)'
  BY NextIInv, ForkStep
<1> QED
  BY <1>1, <1>2, PTL DEF Spec

\* The fork choice of append, the limit on the length of a fork and the return after
\* a refused block leave the node on the best known chain of acceptable blocks, for
\* every block tree and every order in which its blocks come.
THEOREM AccountBestChainIsActive == Spec => []BestChainIsActive
<1>1. IInv /\ ForkInv => BestChainIsActive
  <2> SUFFICES ASSUME ForkInv, phase = "idle", crashes = 0, NEW b \in known,
                      isBestBlock(b), Anc[b] \cap refused = {}
               PROVE  \E c \in known : /\ validity[c] = "Valid"
                                       /\ Height[c] - Height[LastCommon(b, c)] > MaxRewrite
    BY Zenon DEF BestChainIsActive
  <2>1. Settled(known, validity, refused, MaxRewrite, best)
    BY Zenon DEF ForkInv
  <2>2. Better(b, best)
    BY Zenon DEF isBestBlock, Better
  <2> QED
    BY <2>1, <2>2, Zenon DEF Settled, BranchedTooLow
<1> QED
  BY <1>1, ForkInvariance, PTL

\* As long as the node is not stopped, the state is at the best block between two
\* blocks, the blocks that were taken off are off the active chain, and a block is
\* marked invalid only if the state refuses it (updateStateAndWallet).
THEOREM AccountInStepUntilStopped ==
    Spec => [](crashes = 0 => InStep /\ RemovedBlocksLeaveActiveChain /\ OnlyRefusedAreInvalid)
<1>1. IInv /\ ForkInv => (crashes = 0 => InStep /\ RemovedBlocksLeaveActiveChain /\ OnlyRefusedAreInvalid)
  <2> SUFFICES ASSUME IInv, ForkInv, crashes = 0
               PROVE  InStep /\ RemovedBlocksLeaveActiveChain /\ OnlyRefusedAreInvalid
    OBVIOUS
  <2>1. OnlyRefusedAreInvalid
    BY Zenon DEF ForkInv
  <2>2. RemovedBlocksLeaveActiveChain
    <3> SUFFICES ASSUME phase = "idle", NEW i \in DOMAIN toRemove PROVE toRemove[i] \notin Anc[best]
      BY Zenon DEF RemovedBlocksLeaveActiveChain, ActiveChain
    <3>1. toRemove \in Seq(Block)
      BY KnownSequences DEF IInv
    <3>2. i \in 1 .. Len(toRemove)
      BY <3>1
    <3> QED
      BY <3>2, Zenon DEF ForkInv
  <2>3. InStep
    <3> SUFFICES ASSUME phase = "idle", NEW s \in Storages
                 PROVE  Top(s)[1] = best /\ Top(s)[2] = 0
      BY DEF InStep
    <3>1. s = VersionStorage
      BY OneStorage, StoragesAssumption
    <3>2. Top(s) = IdVersion(best)
      BY <3>1, Zenon DEF ForkInv, stateVersion
    <3> QED
      BY <3>2 DEF IdVersion
  <2> QED
    BY <2>1, <2>2, <2>3
<1> QED
  BY <1>1, ForkInvariance, PTL

=============================================================================

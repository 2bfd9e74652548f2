----------------------------- MODULE StoresProofs -----------------------------
(***************************************************************************)
(* What the stores shared by concurrent runs and tabs keep: the memories    *)
(* and their promotion, the branch of a task, and the refresh tokens with   *)
(* the localStorage of a browser.  One part for each component; none uses   *)
(* another.                                                                 *)
(***************************************************************************)
EXTENDS Memories, Workspace, Accounts, FiniteSetTheorems, TLAPS

-----------------------------------------------------------------------------
(* Memories.  What the promotion of lessons keeps, for any number of        *)
(* projects, passes and rows, and whatever recalls and prunings come        *)
(* between the read of a pass and its commit.  The strengthening speaks of  *)
(* what an open pass holds: no other pass holds it unless the two raced, and *)
(* if they did not, no copy of it is shared yet.                            *)

MemoryRow == [project : Project \cup {Shared}, portable : BOOLEAN, access : Nat,
              meta : {"plain", "checked", "promoted"}]
PassRow == [project : Project \cup {Shared}, left : SUBSET Id, promote : SUBSET Id,
            reject : SUBSET Id, again : SUBSET Id, dirty : SUBSET Id]
Held(a) == pass[a].left \cup pass[a].promote \cup pass[a].reject

MemoriesTypeOK ==
  /\ Kept \subseteq Id /\ memory \in [Kept -> MemoryRow]
  /\ pass \in [Pass -> PassRow]
  /\ copies \in [Id -> Nat] /\ raced \subseteq Id
  /\ ids \in Nat /\ ids <= MaxRows

\* Ids above the counter have never been used.
IdsAreNew ==
  \A r \in Id : r > ids => r \notin Kept /\ copies[r] = 0 /\ \A a \in Pass : r \notin Held(a)

\* Two passes hold a memory only if they raced, and it is not copied meanwhile.
HeldAlone ==
  \A a \in Pass : \A r \in Held(a) \ raced :
    copies[r] = 0 /\ \A b \in Pass : b # a => r \notin Held(b)

MemoriesInv == MemoriesTypeOK /\ IdsAreNew /\ HeldAlone /\ PromotedOnce

----------------------------------------------------------------------------
LEMMA LessonIsRow ==
  ASSUME NEW project \in Project \cup {Shared}, NEW portable \in BOOLEAN
  PROVE  Lesson(project, portable) \in MemoryRow /\ Lesson(project, portable).meta = "plain"
  BY DEF Lesson, MemoryRow

\* The number of copies a pass writes.
LEMMA PromoteIsFinite ==
  ASSUME MemoriesTypeOK, NEW a \in Pass
  PROVE  Cardinality(pass[a].promote) \in Nat
<1>1. pass[a].promote \subseteq 1 .. MaxRows
  BY DEF MemoriesTypeOK, PassRow, Id
<1>2. 1 \in Int /\ MaxRows \in Int
  BY MemoriesAssumption
<1>3. IsFiniteSet(1 .. MaxRows)
  BY <1>2, FS_Interval
<1> QED
  BY <1>1, <1>3, FS_Subset, FS_CardinalityType

\* Steps of a pass that leave the rows alone.
LEMMA HeldInDomain ==
  ASSUME MemoriesTypeOK, NEW a \in Pass
  PROVE  Held(a) \subseteq Id /\ pass[a] \in PassRow
  BY DEF MemoriesTypeOK, PassRow, Held

LEMMA InitHolds == MemoriesInit => MemoriesInv
<1> SUFFICES ASSUME MemoriesInit PROVE MemoriesInv
  OBVIOUS
<1> USE MemoriesAssumption DEF MemoriesInit
<1>1. Kept = {} /\ MaxRows \in Nat
  BY DEF Kept
<1>2. MemoriesTypeOK
  BY <1>1 DEF MemoriesTypeOK, Closed, PassRow
<1>3. \A a \in Pass : Held(a) = {} /\ pass[a] = Closed
  BY DEF Held, Closed
<1>5. IdsAreNew /\ HeldAlone /\ PromotedOnce
  BY <1>1, <1>3 DEF IdsAreNew, HeldAlone, PromotedOnce
<1> QED
  BY <1>2, <1>5 DEF MemoriesInv

LEMMA RememberKeeps ==
  ASSUME MemoriesInv, NEW p \in Project, NEW portable \in BOOLEAN, Remember(p, portable)
  PROVE  MemoriesInv'
<1> USE MemoriesAssumption DEF MemoriesInv, Remember
<1>1. /\ ids \in Nat /\ MaxRows \in Nat /\ ids' = ids + 1 /\ ids' \in Id /\ ids' \notin Kept
  BY DEF MemoriesTypeOK, IdsAreNew, Id
<1>2. /\ Kept' = Kept \cup {ids'} /\ memory'[ids'] = Lesson(p, portable)
      /\ \A r \in Kept : memory'[r] = memory[r]
  BY <1>1 DEF Kept
<1>3. Lesson(p, portable) \in MemoryRow /\ Lesson(p, portable).meta = "plain"
  BY LessonIsRow
<1>4. MemoriesTypeOK'
  <2>1. memory' \in [Kept' -> MemoryRow]
    BY <1>2, <1>3 DEF MemoriesTypeOK
  <2> QED
    BY <2>1, <1>1, <1>2 DEF MemoriesTypeOK, Id
<1>5. \A a \in Pass : Held(a)' = Held(a) /\ ids' \notin Held(a)
  BY <1>1 DEF Held, IdsAreNew, Id
<1>6. IdsAreNew'
  BY <1>1, <1>2, <1>5 DEF IdsAreNew, Id
<1>8. HeldAlone'
  BY <1>5 DEF HeldAlone
<1>9. PromotedOnce'
  BY <1>1, <1>2, <1>3 DEF PromotedOnce, IdsAreNew, Id
<1> QED
  BY <1>4, <1>6, <1>8, <1>9

LEMMA RecallKeeps ==
  ASSUME MemoriesInv, NEW p \in Project \cup {Shared}, NEW hits \in SUBSET Kept, Recall(p, hits)
  PROVE  MemoriesInv'
<1> USE MemoriesAssumption DEF MemoriesInv, Recall
<1>1. Kept' = Kept
  BY DEF Kept
<1>2. ASSUME NEW r \in Kept
      PROVE  /\ memory'[r] \in MemoryRow /\ memory'[r].meta = memory[r].meta
  <2>1. memory[r] \in MemoryRow
    BY DEF MemoriesTypeOK
  <2>2. CASE r \in hits /\ memory[r].access < MinAccess
    <3>1. memory'[r] = [memory[r] EXCEPT !.access = memory[r].access + 1]
      BY <2>2
    <3> QED
      BY <2>1, <3>1 DEF MemoryRow
  <2>3. CASE ~(r \in hits /\ memory[r].access < MinAccess)
    <3>1. memory'[r] = memory[r]
      BY <2>3
    <3> QED
      BY <2>1, <3>1 DEF MemoryRow
  <2> QED
    BY <2>2, <2>3
<1>3. memory' \in [Kept -> MemoryRow]
  BY <1>2
<1>4. MemoriesTypeOK'
  BY <1>1, <1>3 DEF MemoriesTypeOK
<1>5. \A a \in Pass : Held(a)' = Held(a)
  BY DEF Held
<1>7. IdsAreNew' /\ HeldAlone'
  BY <1>1, <1>5 DEF IdsAreNew, HeldAlone
<1>8. PromotedOnce'
  BY <1>1, <1>2 DEF PromotedOnce
<1> QED
  BY <1>4, <1>7, <1>8

LEMMA PruneKeeps ==
  ASSUME MemoriesInv, NEW gone \in SUBSET Kept, Prune(gone)
  PROVE  MemoriesInv'
<1> USE DEF MemoriesInv, Prune
<1>1. Kept' = Kept \ gone /\ \A r \in Kept' : r \in Kept /\ memory'[r] = memory[r]
  BY DEF Kept
<1>2. memory' \in [Kept' -> MemoryRow]
  BY <1>1 DEF MemoriesTypeOK
<1>3. MemoriesTypeOK'
  BY <1>1, <1>2 DEF MemoriesTypeOK
<1>4. \A a \in Pass : Held(a)' = Held(a)
  BY DEF Held
<1>5. IdsAreNew' /\ HeldAlone' /\ PromotedOnce'
  BY <1>1, <1>4 DEF IdsAreNew, HeldAlone, PromotedOnce
<1> QED
  BY <1>3, <1>5

LEMMA PassBeginKeeps ==
  ASSUME MemoriesInv, NEW a \in Pass, NEW p \in Project, PassBegin(a, p)
  PROVE  MemoriesInv'
<1> USE DEF MemoriesInv, PassBegin
<1>1. Candidates(p) \subseteq Kept /\ Candidates(p) \subseteq Id
  BY DEF Candidates, MemoriesTypeOK
<1>2. pass'[a] = [project |-> p, left |-> Candidates(p), promote |-> {}, reject |-> {},
                   again |-> {r \in Candidates(p) : memory[r].meta = "checked"}, dirty |-> {}]
  BY DEF MemoriesTypeOK, Closed
<1>3. /\ Held(a)' = Candidates(p)
      /\ \A b \in Pass : b # a => Held(b)' = Held(b) /\ pass'[b] = pass[b]
  BY <1>2 DEF Held, MemoriesTypeOK
<1>4. /\ raced \subseteq raced'
      /\ \A r \in Candidates(p) : \A b \in Pass : b # a /\ r \in Held(b) => r \in raced'
  BY DEF Held
<1>5. Kept' = Kept
  BY DEF Kept
<1>6. MemoriesTypeOK'
  <2>1. pass'[a] \in PassRow
    <3> DEFINE seen == {r \in Candidates(p) : memory[r].meta = "checked"}
    <3>1. seen \in SUBSET Id
      BY <1>1
    <3>2. pass'[a] = [project |-> p, left |-> Candidates(p), promote |-> {}, reject |-> {},
                      again |-> seen, dirty |-> {}]
      BY <1>2
    <3> HIDE DEF seen, PassBegin, MemoriesInv
    <3> QED
      BY <1>1, <3>1, <3>2 DEF PassRow
  <2>2. pass \in [Pass -> PassRow]
    BY DEF MemoriesTypeOK
  <2>3. pass' \in [Pass -> PassRow]
    BY <2>1, <2>2
  <2> QED
    BY <2>3, <1>1, <1>5 DEF MemoriesTypeOK
<1>7. IdsAreNew'
  BY <1>1, <1>3, <1>5 DEF IdsAreNew
<1>9. HeldAlone'
  <2>1. ASSUME NEW r \in Candidates(p), r \notin raced' PROVE copies[r] = 0
    <3>1. r \in Kept /\ r \in Id /\ memory[r].meta # "promoted" /\ r \notin raced
      BY <2>1, <1>1, <1>4 DEF Candidates
    <3>2. r \in Id \ raced /\ copies[r] \in Nat
      BY <3>1 DEF MemoriesTypeOK
    <3>3. copies[r] <= 1 /\ copies[r] # 1
      BY <3>1, <3>2 DEF PromotedOnce
    <3> QED
      BY <3>2, <3>3
  <2> QED
    BY <2>1, <1>3, <1>4 DEF HeldAlone
<1>10. PromotedOnce'
  BY <1>4, <1>5 DEF PromotedOnce
<1> QED
  BY <1>6, <1>7, <1>9, <1>10

\* A pass that gives up what it holds, or judges some of it, leaves the rest.
LEMMA ShrinkKeeps ==
  ASSUME MemoriesInv, NEW a \in Pass, NEW row \in PassRow,
         pass' = [pass EXCEPT ![a] = row], UNCHANGED <<memory, copies, raced, ids>>,
         row.left \cup row.promote \cup row.reject \subseteq Held(a)
  PROVE  MemoriesInv'
<1> USE DEF MemoriesInv
<1>1. /\ pass'[a] = row /\ Held(a)' \subseteq Held(a)
      /\ \A b \in Pass : b # a => Held(b)' = Held(b) /\ pass'[b] = pass[b]
  BY DEF MemoriesTypeOK, Held
<1>2. Kept' = Kept
  BY DEF Kept
<1>3. MemoriesTypeOK'
  BY <1>2 DEF MemoriesTypeOK
<1>4. IdsAreNew'
  BY <1>1, <1>2 DEF IdsAreNew
<1>5. HeldAlone'
  BY <1>1 DEF HeldAlone
<1>6. PromotedOnce'
  BY <1>2 DEF PromotedOnce
<1> QED
  BY <1>3, <1>4, <1>5, <1>6

LEMMA JudgeKeeps ==
  ASSUME MemoriesInv, NEW a \in Pass, NEW r \in Id, Judge(a, r)
  PROVE  MemoriesInv'
<1> DEFINE old == pass[a]
           judged == [old EXCEPT !.left = @ \ {r}]
           refused == [judged EXCEPT !.reject = @ \cup {r}, !.dirty = @ \cup {r}]
           shared == [judged EXCEPT !.promote = @ \cup {r}, !.dirty = {r}]
<1>1. old \in PassRow /\ r \in old.left
  BY DEF Judge, MemoriesInv, MemoriesTypeOK
<1>2. PICK row \in {judged, refused, shared} : pass' = [pass EXCEPT ![a] = row]
  BY DEF Judge
<1>3. judged \in PassRow /\ refused \in PassRow /\ shared \in PassRow
  BY <1>1 DEF PassRow
<1>4. /\ judged.left \cup judged.promote \cup judged.reject \subseteq Held(a)
      /\ refused.left \cup refused.promote \cup refused.reject \subseteq Held(a)
      /\ shared.left \cup shared.promote \cup shared.reject \subseteq Held(a)
  BY <1>1 DEF Held, PassRow
<1>5. UNCHANGED <<memory, copies, raced, ids>>
  BY DEF Judge
<1> HIDE DEF judged, refused, shared
<1>6. row \in PassRow /\ row.left \cup row.promote \cup row.reject \subseteq Held(a)
  BY <1>3, <1>4
<1> QED
  BY <1>2, <1>5, <1>6, ShrinkKeeps

LEMMA PassFailsKeeps ==
  ASSUME MemoriesInv, NEW a \in Pass, PassFails(a)
  PROVE  MemoriesInv'
<1>1. Closed \in PassRow /\ Closed.left = {} /\ Closed.promote = {} /\ Closed.reject = {}
  BY DEF Closed, PassRow
<1> QED
  BY <1>1, ShrinkKeeps DEF PassFails

LEMMA PassCommitKeeps ==
  ASSUME MemoriesInv, NEW a \in Pass, PassCommit(a)
  PROVE  MemoriesInv'
<1> DEFINE n == Cardinality(pass[a].promote)
           new == ids + 1 .. ids + n
<1> USE DEF MemoriesInv
<1>1. /\ n \in Nat /\ ids \in Nat /\ MaxRows \in Nat /\ ids + n <= MaxRows /\ ids' = ids + n
  BY PromoteIsFinite, MemoriesAssumption DEF PassCommit, MemoriesTypeOK
<1>2. /\ new \subseteq Id /\ new \cap Kept = {} /\ \A r \in new : r > ids /\ r <= ids'
      /\ \A r \in new : r \notin Written(a)
  BY <1>1 DEF Id, IdsAreNew, Held, Written
<1>3. /\ Written(a) \subseteq Id /\ Kept \subseteq Id
      /\ pass[a].promote \subseteq Written(a) /\ Written(a) \subseteq Held(a)
  BY HeldInDomain DEF PassCommit, MemoriesTypeOK, Written, Held
<1>4. Kept' = Kept \cup new /\ memory' = PassRows(a)
  BY DEF PassCommit, PassRows, Kept
<1>5. \A r \in new : memory'[r] = Lesson(Shared, TRUE)
  BY <1>4 DEF PassRows
<1>6. \A r \in Written(a) \cap Kept :
        memory'[r] = [memory[r] EXCEPT !.meta =
                        IF r \in pass[a].promote THEN "promoted" ELSE "checked"]
  BY <1>2, <1>3, <1>4 DEF PassRows
<1>7. \A r \in Kept \ Written(a) : memory'[r] = memory[r]
  BY <1>2, <1>4 DEF PassRows
<1>8. Lesson(Shared, TRUE) \in MemoryRow /\ Lesson(Shared, TRUE).meta = "plain"
  BY LessonIsRow
<1>9. ASSUME NEW r \in Written(a) \cap Kept
      PROVE  memory'[r] \in MemoryRow /\ (memory'[r].meta = "promoted" <=> r \in pass[a].promote)
  <2>1. memory[r] \in MemoryRow
    BY DEF MemoriesTypeOK
  <2> DEFINE mark == IF r \in pass[a].promote THEN "promoted" ELSE "checked"
  <2>2. mark \in {"checked", "promoted"} /\ (mark = "promoted" <=> r \in pass[a].promote)
    OBVIOUS
  <2>3. memory'[r] = [memory[r] EXCEPT !.meta = mark]
    BY <1>6
  <2> HIDE DEF mark
  <2>4. memory'[r] \in MemoryRow /\ memory'[r].meta = mark
    BY <2>1, <2>2, <2>3 DEF MemoryRow
  <2> QED
    BY <2>2, <2>4
<1>10. /\ \A r \in pass[a].promote : copies'[r] = copies[r] + 1
       /\ \A r \in Id \ pass[a].promote : copies'[r] = copies[r]
       /\ copies' \in [Id -> Nat]
  BY <1>3 DEF PassCommit, MemoriesTypeOK
<1>11. /\ Held(a)' = {} /\ pass'[a] = Closed
       /\ \A b \in Pass : b # a => Held(b)' = Held(b) /\ pass'[b] = pass[b]
  BY DEF PassCommit, MemoriesTypeOK, Held, Closed
<1>12. MemoriesTypeOK'
  <2>1. memory' \in [Kept' -> MemoryRow]
    <3>1. \A r \in Kept' : memory'[r] \in MemoryRow
      BY <1>4, <1>5, <1>7, <1>8, <1>9 DEF MemoriesTypeOK
    <3>2. DOMAIN memory' = Kept' /\ memory' = [r \in Kept' |-> memory'[r]]
      BY <1>4 DEF PassRows, Kept
    <3> QED
      BY <3>1, <3>2
  <2>2. pass' \in [Pass -> PassRow]
    BY DEF PassCommit, MemoriesTypeOK, Closed, PassRow
  <2>3. Kept' \subseteq Id
    BY <1>2, <1>3, <1>4
  <2> QED
    BY <2>1, <2>2, <2>3, <1>1, <1>10 DEF MemoriesTypeOK, PassCommit
<1>13. IdsAreNew'
  <2> SUFFICES ASSUME NEW r \in Id, r > ids'
               PROVE  r \notin Kept' /\ copies'[r] = 0 /\ \A b \in Pass : r \notin Held(b)'
    BY DEF IdsAreNew
  <2>1. r > ids /\ r \notin new
    BY <1>1, <1>2 DEF Id
  <2>2. r \notin Kept /\ copies[r] = 0 /\ \A b \in Pass : r \notin Held(b)
    BY <2>1 DEF IdsAreNew
  <2> QED
    BY <2>1, <2>2, <1>3, <1>4, <1>10, <1>11
<1>15. HeldAlone'
  <2> SUFFICES ASSUME NEW b \in Pass, NEW r \in Held(b)', r \notin raced'
               PROVE  copies'[r] = 0 /\ \A c \in Pass : c # b => r \notin Held(c)'
    BY DEF HeldAlone
  <2>1. b # a /\ r \in Held(b) /\ r \notin raced /\ r \in Id
    BY <1>11, HeldInDomain DEF PassCommit
  <2>2. copies[r] = 0 /\ r \notin Held(a) /\ \A c \in Pass : c # b => r \notin Held(c)
    BY <2>1 DEF HeldAlone
  <2>3. r \notin pass[a].promote
    BY <2>2, <1>3
  <2> QED
    BY <2>1, <2>2, <2>3, <1>10, <1>11
<1>16. PromotedOnce'
  <2> SUFFICES ASSUME NEW r \in Id, r \notin raced
               PROVE  /\ copies'[r] <= 1
                      /\ r \in Kept' => (memory'[r].meta = "promoted" <=> copies'[r] = 1)
    BY DEF PromotedOnce, PassCommit
  <2>1. CASE r \in Written(a)
    <3>1. copies[r] = 0
      BY <2>1, <1>3 DEF HeldAlone
    <3>2. r \in Kept' => r \in Kept
      BY <2>1, <1>2, <1>4
    <3> QED
      BY <2>1, <3>1, <3>2, <1>9, <1>10
  <2>2. CASE r \in new
    <3>1. copies[r] = 0 /\ r \notin pass[a].promote
      BY <2>2, <1>2, <1>3 DEF IdsAreNew
    <3>2. copies'[r] = 0
      BY <2>2, <3>1, <1>2, <1>10
    <3>3. memory'[r].meta = "plain"
      BY <2>2, <1>5, <1>8
    <3> QED
      BY <3>2, <3>3
  <2>3. CASE r \notin Written(a) /\ r \notin new
    <3>1. copies'[r] = copies[r] /\ (r \in Kept' => r \in Kept /\ memory'[r] = memory[r])
      BY <2>3, <1>3, <1>4, <1>7, <1>10
    <3> QED
      BY <3>1 DEF PromotedOnce
  <2> QED
    BY <2>1, <2>2, <2>3
<1> QED
  BY <1>12, <1>13, <1>15, <1>16

LEMMA StutterKeeps == ASSUME MemoriesInv, UNCHANGED memoryVars PROVE MemoriesInv'
<1> USE DEF memoryVars, MemoriesInv
<1>1. Kept' = Kept /\ \A a \in Pass : Held(a)' = Held(a)
  BY DEF Kept, Held
<1>2. MemoriesTypeOK' /\ PromotedOnce'
  BY <1>1 DEF MemoriesTypeOK, PromotedOnce
<1>3. IdsAreNew' /\ HeldAlone'
  BY <1>1 DEF IdsAreNew, HeldAlone
<1> QED
  BY <1>2, <1>3

----------------------------------------------------------------------------
\* In every reachable state the invariant holds.
LEMMA InvHolds == MemoriesSpec => []MemoriesInv
<1>1. MemoriesInv /\ [MemoriesNext]_memoryVars => MemoriesInv'
  BY RememberKeeps, RecallKeeps, PruneKeeps, PassBeginKeeps, JudgeKeeps, PassCommitKeeps,
     PassFailsKeeps, StutterKeeps
     DEF MemoriesNext
<1> QED
  BY InitHolds, <1>1, PTL DEF MemoriesSpec

\* promote_project copies a lesson into the shared layer once, and marks just
\* those it copied, unless two passes judged it at the same time.
THEOREM PromotedOnceHolds == MemoriesSpec => []PromotedOnce
<1>1. MemoriesInv => PromotedOnce
  BY DEF MemoriesInv
<1> QED
  BY InvHolds, <1>1, PTL

-----------------------------------------------------------------------------
(* Workspace.  What the runs of a task do to its branch, for every set of   *)
(* files and workers and without a bound on the history of the branch.      *)
(* The invariant says that what a run has read and not been overtaken on    *)
(* is still what a read would return: a push onto the head replaces just    *)
(* that.                                                                    *)

\* Versions of some files.
Files == UNION {[S -> Nat] : S \in SUBSET Path}

Run == [pc : {"idle", "work", "tip", "create", "head", "push", "pull"},
        staged : Files, known : Files, outdated : SUBSET Path, tip : Tree, base : Nat]

WorkspaceTypeOK ==
  /\ main \in Tree /\ branch \in Seq(Tree) /\ pull \in BOOLEAN
  /\ worker \in [Worker -> Run] /\ versions \in Nat /\ trouble \in Nat

\* A push is prepared on a commit of the branch.
BaseIsCommit == \A w \in Worker : At(w, "push") => worker[w].base \in 1 .. Len(branch)

\* What was read is current, or known not to be.
KnownIsCurrent ==
  \A w \in Worker : \A p \in DOMAIN worker[w].known :
    p \notin worker[w].outdated => worker[w].known[p] = Content(p)

WorkspaceInv == WorkspaceTypeOK /\ BaseIsCommit /\ KnownIsCurrent

----------------------------------------------------------------------------
LEMMA NothingIsFiles == Nothing \in Files
<1>1. Nothing \in [{} -> Nat]
  BY DEF Nothing
<1> QED
  BY <1>1 DEF Files

LEMMA IdleIsRun == Idle \in Run
  BY NothingIsFiles DEF Idle, Run, Tree

LEMMA FilesDomain == ASSUME NEW f \in Files PROVE DOMAIN f \subseteq Path /\ f \in [DOMAIN f -> Nat]
  BY DEF Files

\* With adds a file.
LEMMA WithIsFiles ==
  ASSUME NEW f \in Files, NEW p \in Path, NEW v \in Nat
  PROVE  /\ With(f, p, v) \in Files /\ DOMAIN With(f, p, v) = DOMAIN f \cup {p}
         /\ With(f, p, v)[p] = v
         /\ \A q \in DOMAIN f : q # p => With(f, p, v)[q] = f[q]
<1>1. DOMAIN f \cup {p} \in SUBSET Path /\ \A q \in DOMAIN f : f[q] \in Nat
  BY FilesDomain
<1>2. With(f, p, v) \in [DOMAIN f \cup {p} -> Nat]
  BY <1>1 DEF With
<1>3. With(f, p, v) \in Files
  BY <1>1, <1>2 DEF Files
<1> QED
  BY <1>3 DEF With

\* A commit is a whole tree.
LEMMA OntoIsTree ==
  ASSUME NEW f \in Files, NEW tree \in Tree
  PROVE  Onto(f, tree) \in Tree
<1>1. \A q \in DOMAIN f : f[q] \in Nat
  BY FilesDomain
<1> QED
  BY <1>1 DEF Onto, Tree

LEMMA ContentIsVersion ==
  ASSUME WorkspaceTypeOK, NEW p \in Path
  PROVE  Content(p) \in Nat
<1>1. CASE branch = <<>>
  BY <1>1 DEF WorkspaceTypeOK, Content, OnBranch, Tree
<1>2. CASE branch # <<>>
  <2>1. Last(branch) \in Tree
    BY <1>2 DEF WorkspaceTypeOK, Last
  <2> QED
    BY <2>1, <1>2 DEF WorkspaceTypeOK, Content, OnBranch, Tree
<1> QED
  BY <1>1, <1>2

\* What Noting compares is what a read returns.
LEMMA VisibleIsContent ==
  ASSUME NEW p \in Path
  PROVE  Visible(p, main, branch) = Content(p) /\ Visible(p, main', branch') = Content(p)'
  BY DEF Visible, Content, OnBranch

LEMMA WorkspaceInvInit == WorkspaceInit => WorkspaceInv
<1> SUFFICES ASSUME WorkspaceInit PROVE WorkspaceInv
  OBVIOUS
<1>0. pull \in BOOLEAN
  BY Zenon DEF WorkspaceInit
<1>1. WorkspaceTypeOK
  BY <1>0, IdleIsRun, WorkspaceAssumption DEF WorkspaceInit, WorkspaceTypeOK, Tree
<1>2. \A w \in Worker : worker[w].pc = "idle" /\ DOMAIN worker[w].known = {}
  BY DEF WorkspaceInit, Idle, Nothing
<1> QED
  BY <1>1, <1>2 DEF WorkspaceInv, BaseIsCommit, KnownIsCurrent, At

\* A step that leaves the branches alone and changes one run at most keeps the
\* invariant if the run still does.
LEMMA OneRunKeeps ==
  ASSUME WorkspaceInv, NEW w \in Worker, NEW new \in Run,
         worker' = [worker EXCEPT ![w] = new],
         main' = main, branch' = branch, pull' \in BOOLEAN, versions' \in Nat, trouble' \in Nat,
         new.pc = "push" => new.base \in 1 .. Len(branch),
         \A p \in DOMAIN new.known : p \notin new.outdated => new.known[p] = Content(p)
  PROVE  WorkspaceInv'
<1>1. WorkspaceTypeOK'
  BY DEF WorkspaceInv, WorkspaceTypeOK
<1>2. \A u \in Worker : worker'[u] = IF u = w THEN new ELSE worker[u]
  BY DEF WorkspaceInv, WorkspaceTypeOK
<1>3. BaseIsCommit'
  BY <1>2 DEF WorkspaceInv, BaseIsCommit, At
<1>4. \A p : Content(p)' = Content(p)
  BY DEF Content, OnBranch
<1>5. KnownIsCurrent'
  BY <1>2, <1>4 DEF WorkspaceInv, KnownIsCurrent
<1> QED
  BY <1>1, <1>3, <1>5 DEF WorkspaceInv

LEMMA StageKeeps ==
  ASSUME WorkspaceInv, NEW w \in Worker, Begin(w) \/ Leave(w) \/ Ship(w) \/ GetTip(w)
           \/ CreateFails(w) \/ GetHead(w) \/ OpenPull(w) \/ Refused(w) \/ Fails(w)
  PROVE  WorkspaceInv'
<1> DEFINE idle == worker' = [worker EXCEPT ![w] = Idle]
<1>1. worker[w] \in Run /\ worker \in [Worker -> Run]
  BY DEF WorkspaceInv, WorkspaceTypeOK
<1>a. main' = main /\ branch' = branch /\ versions' = versions /\ trouble' \in Nat
  BY DEF WorkspaceInv, WorkspaceTypeOK, Begin, Leave, Ship, GetTip, CreateFails, GetHead, OpenPull,
         Refused, Fails, CallFails
<1>b. pull' = pull \/ pull' = TRUE
  BY DEF Begin, Leave, Ship, GetTip, CreateFails, GetHead, OpenPull, Refused, Fails
<1>2. /\ main' = main /\ branch' = branch /\ pull' \in BOOLEAN
      /\ versions' \in Nat /\ trouble' \in Nat
  BY <1>a, <1>b DEF WorkspaceInv, WorkspaceTypeOK
<1>3. Idle.pc = "idle" /\ DOMAIN Idle.known = {}
  BY DEF Idle, Nothing
<1>4. ASSUME NEW new \in Run, worker' = [worker EXCEPT ![w] = new],
             new.pc = "push" => new.base \in 1 .. Len(branch),
             new.known = worker[w].known /\ new.outdated = worker[w].outdated
      PROVE  WorkspaceInv'
  <2>1. \A p \in DOMAIN new.known : p \notin new.outdated => new.known[p] = Content(p)
    BY <1>4 DEF WorkspaceInv, KnownIsCurrent
  <2> QED
    BY <1>2, <1>4, <2>1, OneRunKeeps
<1>5. ASSUME idle PROVE WorkspaceInv'
  BY <1>2, <1>3, <1>5, IdleIsRun, OneRunKeeps
<1>6. CASE Begin(w)
  <2>1. [Idle EXCEPT !.pc = "work"] \in Run
    BY IdleIsRun DEF Run
  <2>2. /\ [Idle EXCEPT !.pc = "work"].pc = "work"
        /\ DOMAIN [Idle EXCEPT !.pc = "work"].known = {}
    BY DEF Idle, Nothing
  <2>3. worker' = [worker EXCEPT ![w] = [Idle EXCEPT !.pc = "work"]]
    BY <1>6 DEF Begin
  <2> QED
    BY <1>2, <2>1, <2>2, <2>3, OneRunKeeps
<1>7. CASE Leave(w) \/ OpenPull(w) \/ Refused(w) \/ Fails(w)
  BY <1>5, <1>7 DEF Leave, OpenPull, Refused, Fails
<1>8. CASE Ship(w) \/ CreateFails(w)
  <2>1. PICK pc \in {"tip", "head"} : worker' = [worker EXCEPT ![w].pc = pc]
    BY <1>8 DEF Ship, CreateFails, Go
  <2>2. [worker[w] EXCEPT !.pc = pc] \in Run
    BY <1>1 DEF Run
  <2>3. worker' = [worker EXCEPT ![w] = [worker[w] EXCEPT !.pc = pc]]
    BY <2>1
  <2>4. /\ [worker[w] EXCEPT !.pc = pc].pc = pc
        /\ [worker[w] EXCEPT !.pc = pc].known = worker[w].known
        /\ [worker[w] EXCEPT !.pc = pc].outdated = worker[w].outdated
    BY <1>1 DEF Run
  <2> QED
    BY <1>4, <2>2, <2>3, <2>4
<1>9. CASE GetTip(w)
  <2> DEFINE new == [worker[w] EXCEPT !.pc = "create", !.tip = main]
  <2>1. worker' = [worker EXCEPT ![w] = new]
    BY <1>9 DEF GetTip
  <2>2. new \in Run /\ new.pc = "create" /\ new.known = worker[w].known
        /\ new.outdated = worker[w].outdated
    BY <1>1 DEF Run, WorkspaceInv, WorkspaceTypeOK
  <2> QED
    BY <1>4, <2>1, <2>2
<1>10. CASE GetHead(w)
  <2> DEFINE new == [worker[w] EXCEPT !.pc = "push", !.base = Len(branch)]
  <2>1. worker' = [worker EXCEPT ![w] = new] /\ branch # <<>>
    BY <1>10 DEF GetHead
  <2>2. Len(branch) \in Nat /\ Len(branch) \in 1 .. Len(branch)
    BY <2>1 DEF WorkspaceInv, WorkspaceTypeOK
  <2>3. new \in Run /\ new.base = Len(branch) /\ new.known = worker[w].known
        /\ new.outdated = worker[w].outdated
    BY <1>1, <2>2 DEF Run
  <2> QED
    BY <1>4, <2>1, <2>2, <2>3
<1> QED
  BY <1>6, <1>7, <1>8, <1>9, <1>10

LEMMA AgentKeeps ==
  ASSUME WorkspaceInv, NEW w \in Worker, NEW p \in Path,
         ReadFile(w, p) \/ ReadFallsBack(w, p) \/ WriteFile(w, p)
  PROVE  WorkspaceInv'
<1>1. /\ worker[w] \in Run /\ worker \in [Worker -> Run]
      /\ worker[w].staged \in Files /\ worker[w].known \in Files /\ main[p] \in Nat
  BY DEF WorkspaceInv, WorkspaceTypeOK, Run, Tree
<1>2. /\ main' = main /\ branch' = branch /\ pull' \in BOOLEAN
      /\ versions' \in Nat /\ trouble' \in Nat /\ worker[w].pc = "work"
  BY DEF WorkspaceInv, WorkspaceTypeOK, ReadFile, ReadFallsBack, WriteFile, CallFails, NewVersion, At
<1>3. \A q \in DOMAIN worker[w].known : q \notin worker[w].outdated => worker[w].known[q] = Content(q)
  BY DEF WorkspaceInv, KnownIsCurrent
<1>4. CASE ReadFile(w, p)
  <2> DEFINE new == [worker[w] EXCEPT !.known = With(@, p, Content(p)), !.outdated = @ \ {p}]
  <2>1. worker' = [worker EXCEPT ![w] = new]
    BY <1>4 DEF ReadFile, Knows
  <2>2. Content(p) \in Nat
    BY ContentIsVersion DEF WorkspaceInv
  <2>3. /\ new \in Run /\ new.pc = "work" /\ new.outdated = worker[w].outdated \ {p}
        /\ new.known = With(worker[w].known, p, Content(p))
    BY <1>1, <1>2, <2>2, WithIsFiles DEF Run
  <2> HIDE DEF new
  <2>4. /\ DOMAIN With(worker[w].known, p, Content(p)) = DOMAIN worker[w].known \cup {p}
        /\ With(worker[w].known, p, Content(p))[p] = Content(p)
        /\ \A q \in DOMAIN worker[w].known :
             q # p => With(worker[w].known, p, Content(p))[q] = worker[w].known[q]
    BY DEF With
  <2>5. \A q \in DOMAIN new.known : q \notin new.outdated => new.known[q] = Content(q)
    BY <1>3, <2>3, <2>4
  <2> QED
    BY <1>2, <2>1, <2>3, <2>5, OneRunKeeps
<1>5. CASE ReadFallsBack(w, p)
  <2> DEFINE new == [worker[w] EXCEPT !.known = With(@, p, main[p]), !.outdated = @ \cup {p}]
  <2>1. worker' = [worker EXCEPT ![w] = new]
    BY <1>5 DEF ReadFallsBack
  <2>2. /\ new \in Run /\ new.pc = "work" /\ new.outdated = worker[w].outdated \cup {p}
        /\ new.known = With(worker[w].known, p, main[p])
    BY <1>1, <1>2, WithIsFiles DEF Run
  <2> HIDE DEF new
  <2>3. /\ DOMAIN With(worker[w].known, p, main[p]) = DOMAIN worker[w].known \cup {p}
        /\ \A q \in DOMAIN worker[w].known :
             q # p => With(worker[w].known, p, main[p])[q] = worker[w].known[q]
    BY DEF With
  <2>4. \A q \in DOMAIN new.known : q \notin new.outdated => new.known[q] = Content(q)
    BY <1>3, <2>2, <2>3
  <2> QED
    BY <1>2, <2>1, <2>2, <2>4, OneRunKeeps
<1>6. CASE WriteFile(w, p)
  <2> DEFINE new == [worker[w] EXCEPT !.staged = With(@, p, versions')]
  <2>1. worker' = [worker EXCEPT ![w] = new]
    BY <1>6 DEF WriteFile
  <2>2. /\ new \in Run /\ new.pc = "work" /\ new.outdated = worker[w].outdated
        /\ new.known = worker[w].known
    BY <1>1, <1>2, WithIsFiles DEF Run
  <2> QED
    BY <1>2, <1>3, <2>1, <2>2, OneRunKeeps
<1> QED
  BY <1>4, <1>5, <1>6

LEMMA LongerHasIndices ==
  ASSUME NEW s \in Seq(Tree), NEW t \in Seq(Tree), Len(s) <= Len(t), NEW i \in 1 .. Len(s)
  PROVE  i \in 1 .. Len(t)
<1>1. Len(s) \in Nat /\ Len(t) \in Nat
  OBVIOUS
<1> QED
  BY <1>1

\* A step that moves a branch and notes it for every run keeps the invariant.
LEMMA MoveKeeps ==
  ASSUME WorkspaceInv, NEW stage, main' \in Tree, branch' \in Seq(Tree),
         Len(branch) <= Len(branch'), UNCHANGED <<pull, trouble>>, versions' \in Nat,
         \A u \in Worker : stage[u] \in {worker[u].pc, "head", "pull"},
         worker' = [u \in Worker |-> [worker[u] EXCEPT !.pc = stage[u], !.outdated = Noting(u)]]
  PROVE  WorkspaceInv'
<1>1. worker \in [Worker -> Run]
  BY DEF WorkspaceInv, WorkspaceTypeOK
<1>2. \A u \in Worker : Noting(u) \in SUBSET Path
  BY <1>1, FilesDomain DEF Noting, Run
<1>3. \A u \in Worker :
        /\ worker'[u] \in Run /\ worker'[u].pc = stage[u] /\ worker'[u].base = worker[u].base
        /\ worker'[u].known = worker[u].known /\ worker'[u].outdated = Noting(u)
  BY <1>1, <1>2 DEF Run
<1>4. worker' \in [Worker -> Run]
  BY <1>3
<1>5. WorkspaceTypeOK'
  BY <1>4 DEF WorkspaceInv, WorkspaceTypeOK
<1>6. BaseIsCommit'
  <2>0. branch \in Seq(Tree)
    BY DEF WorkspaceInv, WorkspaceTypeOK
  <2>2. \A u \in Worker : worker'[u].pc = "push" => worker[u].pc = "push"
    BY <1>3
  <2>3. \A u \in Worker : worker'[u].pc = "push" => worker'[u].base \in 1 .. Len(branch)
    BY <1>3, <2>2 DEF WorkspaceInv, BaseIsCommit, At
  <2>4. \A i \in 1 .. Len(branch) : i \in 1 .. Len(branch')
    BY ONLY <2>0, branch' \in Seq(Tree), Len(branch) <= Len(branch'), LongerHasIndices
  <2>5. \A u \in Worker : worker'[u].pc = "push" => worker'[u].base \in 1 .. Len(branch')
    BY <2>3, <2>4
  <2> QED
    BY <2>5 DEF BaseIsCommit, At
<1>7. ASSUME NEW u \in Worker, NEW p \in DOMAIN worker[u].known, p \notin Noting(u)
      PROVE  worker[u].known[p] = Content(p)'
  <2>1. p \in Path
    BY <1>1, FilesDomain DEF Run
  <2>2. p \notin worker[u].outdated /\ Visible(p, main', branch') = Visible(p, main, branch)
    BY <1>7 DEF Noting
  <2> QED
    BY <2>1, <2>2, VisibleIsContent DEF WorkspaceInv, KnownIsCurrent
<1>8. KnownIsCurrent'
  <2> SUFFICES ASSUME NEW u \in Worker, NEW p \in DOMAIN worker'[u].known,
                      p \notin worker'[u].outdated
               PROVE  worker'[u].known[p] = Content(p)'
    BY DEF KnownIsCurrent
  <2>1. /\ p \in DOMAIN worker[u].known /\ p \notin Noting(u)
        /\ worker'[u].known[p] = worker[u].known[p]
    BY <1>3
  <2> QED
    BY <1>7, <2>1
<1> QED
  BY <1>5, <1>6, <1>8 DEF WorkspaceInv

LEMMA CreateRefKeeps ==
  ASSUME WorkspaceInv, NEW w \in Worker, CreateRef(w)
  PROVE  WorkspaceInv'
<1> DEFINE stage == [u \in Worker |-> IF u = w THEN "head" ELSE worker[u].pc]
<1>1. worker[w].tip \in Tree
  BY DEF WorkspaceInv, WorkspaceTypeOK, Run
<1>2. branch' \in Seq(Tree) /\ Len(branch) <= Len(branch')
  <2>0. branch \in Seq(Tree)
    BY DEF WorkspaceInv, WorkspaceTypeOK
  <2>1. CASE branch = <<>>
    <3>1. branch' = <<worker[w].tip>>
      BY <2>1 DEF CreateRef
    <3>2. <<worker[w].tip>> \in Seq(Tree) /\ Len(<<worker[w].tip>>) = 1 /\ Len(branch) = 0
      BY <1>1, <2>1
    <3> QED
      BY <3>1, <3>2
  <2>2. CASE branch # <<>>
    <3>1. branch' = branch
      BY <2>2 DEF CreateRef
    <3> QED
      BY <2>0, <3>1
  <2> QED
    BY <2>1, <2>2
<1>3. worker' = [u \in Worker |-> [worker[u] EXCEPT !.pc = stage[u], !.outdated = Noting(u)]]
  BY DEF CreateRef
<1>4. \A u \in Worker : stage[u] \in {worker[u].pc, "head", "pull"}
  OBVIOUS
<1> QED
  BY <1>2, <1>3, <1>4, MoveKeeps DEF CreateRef, WorkspaceInv, WorkspaceTypeOK

LEMMA PushAppends ==
  ASSUME WorkspaceInv, NEW w \in Worker, Push(w)
  PROVE  /\ worker[w].base = Len(branch) /\ Len(branch) \in Nat \ {0}
         /\ branch' = Append(branch, Onto(worker[w].staged, branch[Len(branch)]))
         /\ Onto(worker[w].staged, branch[Len(branch)]) \in Tree
<1>0. branch \in Seq(Tree) /\ worker[w].base = Len(branch) /\ worker[w].base \in 1 .. Len(branch)
  BY DEF WorkspaceInv, WorkspaceTypeOK, BaseIsCommit, Push
<1>1. worker[w].base = Len(branch) /\ Len(branch) \in Nat \ {0}
  BY <1>0
<1>2. worker[w].staged \in Files /\ branch[Len(branch)] \in Tree
  BY <1>1 DEF WorkspaceInv, WorkspaceTypeOK, Run
<1> QED
  BY <1>1, <1>2, OntoIsTree DEF Push

LEMMA PushKeeps ==
  ASSUME WorkspaceInv, NEW w \in Worker, Push(w)
  PROVE  WorkspaceInv'
<1> DEFINE stage == [u \in Worker |-> IF u = w THEN "pull" ELSE worker[u].pc]
<1>1. branch' \in Seq(Tree) /\ Len(branch) <= Len(branch')
  BY PushAppends DEF WorkspaceInv, WorkspaceTypeOK
<1>2. worker' = [u \in Worker |-> [worker[u] EXCEPT !.pc = stage[u], !.outdated = Noting(u)]]
  BY DEF Push
<1>3. \A u \in Worker : stage[u] \in {worker[u].pc, "head", "pull"}
  OBVIOUS
<1> QED
  BY <1>1, <1>2, <1>3, MoveKeeps DEF Push, WorkspaceInv, WorkspaceTypeOK

LEMMA MainMovesKeeps ==
  ASSUME WorkspaceInv, NEW p \in Path, MainMoves(p)
  PROVE  WorkspaceInv'
<1> DEFINE stage == [u \in Worker |-> worker[u].pc]
<1>1. main' \in Tree /\ versions' \in Nat
  BY DEF MainMoves, NewVersion, WorkspaceInv, WorkspaceTypeOK, Tree
<1>2. worker' = [u \in Worker |-> [worker[u] EXCEPT !.pc = stage[u], !.outdated = Noting(u)]]
  <2>1. \A u \in Worker : [worker[u] EXCEPT !.outdated = Noting(u)]
                           = [worker[u] EXCEPT !.pc = stage[u], !.outdated = Noting(u)]
    BY DEF WorkspaceInv, WorkspaceTypeOK, Run
  <2> QED
    BY <2>1 DEF MainMoves
<1>3. \A u \in Worker : stage[u] \in {worker[u].pc, "head", "pull"}
  OBVIOUS
<1>4. branch' \in Seq(Tree) /\ Len(branch) <= Len(branch') /\ UNCHANGED <<pull, trouble>>
  BY DEF MainMoves, WorkspaceInv, WorkspaceTypeOK
<1> HIDE DEF stage
<1> QED
  BY <1>1, <1>2, <1>3, <1>4, MoveKeeps

LEMMA BranchMovesAppends ==
  ASSUME WorkspaceInv, NEW p \in Path, BranchMoves(p)
  PROVE  \E t \in Tree : branch' = Append(branch, t)
<1>1. branch \in Seq(Tree) /\ branch # <<>> /\ versions' \in Nat
  BY DEF BranchMoves, NewVersion, WorkspaceInv, WorkspaceTypeOK
<1>2. Last(branch) \in Tree
  BY <1>1 DEF Last
<1>3. [Last(branch) EXCEPT ![p] = versions'] \in Tree
  BY <1>1, <1>2 DEF Tree
<1> QED
  BY <1>3 DEF BranchMoves

LEMMA BranchMovesKeeps ==
  ASSUME WorkspaceInv, NEW p \in Path, BranchMoves(p)
  PROVE  WorkspaceInv'
<1> DEFINE stage == [u \in Worker |-> worker[u].pc]
<1>1. main' \in Tree /\ versions' \in Nat
  BY DEF BranchMoves, NewVersion, WorkspaceInv, WorkspaceTypeOK
<1>2. worker' = [u \in Worker |-> [worker[u] EXCEPT !.pc = stage[u], !.outdated = Noting(u)]]
  <2>1. \A u \in Worker : [worker[u] EXCEPT !.outdated = Noting(u)]
                           = [worker[u] EXCEPT !.pc = stage[u], !.outdated = Noting(u)]
    BY DEF WorkspaceInv, WorkspaceTypeOK, Run
  <2> QED
    BY <2>1 DEF BranchMoves
<1>3. \A u \in Worker : stage[u] \in {worker[u].pc, "head", "pull"}
  OBVIOUS
<1>4. branch' \in Seq(Tree) /\ Len(branch) <= Len(branch')
  BY BranchMovesAppends DEF WorkspaceInv, WorkspaceTypeOK
<1>5. UNCHANGED <<pull, trouble>>
  BY DEF BranchMoves
<1> HIDE DEF stage
<1> QED
  BY <1>1, <1>2, <1>3, <1>4, <1>5, MoveKeeps

LEMMA WorkspaceInvNext == WorkspaceInv /\ [WorkspaceNext]_workspaceVars => WorkspaceInv'
<1> SUFFICES ASSUME WorkspaceInv, [WorkspaceNext]_workspaceVars PROVE WorkspaceInv'
  OBVIOUS
<1>1. CASE UNCHANGED workspaceVars
  BY <1>1 DEF workspaceVars, WorkspaceInv, WorkspaceTypeOK, BaseIsCommit, KnownIsCurrent, At,
              Content, OnBranch
<1>2. CASE \E w \in Worker : Begin(w) \/ Leave(w) \/ Ship(w) \/ GetTip(w) \/ CreateFails(w)
                             \/ GetHead(w) \/ OpenPull(w) \/ Refused(w) \/ Fails(w)
  BY <1>2, StageKeeps
<1>3. CASE \E w \in Worker, p \in Path : ReadFile(w, p) \/ ReadFallsBack(w, p) \/ WriteFile(w, p)
  BY <1>3, AgentKeeps
<1>4. CASE \E w \in Worker : CreateRef(w) \/ Push(w)
  BY <1>4, CreateRefKeeps, PushKeeps
<1>5. CASE \E p \in Path : BranchMoves(p) \/ MainMoves(p)
  BY <1>5, BranchMovesKeeps, MainMovesKeeps
<1> QED
  BY <1>1, <1>2, <1>3, <1>4, <1>5 DEF WorkspaceNext

LEMMA WorkspaceInvHolds == WorkspaceSpec => []WorkspaceInv
  BY WorkspaceInvInit, WorkspaceInvNext, PTL DEF WorkspaceSpec

\* What is on the branch of a task stays in its history, however often people
\* push to it while a run prepares its commit (commit_files never forces the ref).
THEOREM PushesStayHolds == WorkspaceSpec => PushesStay
<1>1. ASSUME WorkspaceInv, [WorkspaceNext]_workspaceVars, branch # <<>>
      PROVE  IsPrefix(branch, branch')
  <2>1. branch \in Seq(Tree)
    BY <1>1 DEF WorkspaceInv, WorkspaceTypeOK
  <2>2. branch' = branch \/ \E t \in Tree : branch' = Append(branch, t)
    <3>1. CASE \E w \in Worker : Push(w)
      BY <1>1, <3>1, PushAppends
    <3>4. CASE \E p \in Path : BranchMoves(p)
      BY <1>1, <3>4, BranchMovesAppends
    <3>2. CASE UNCHANGED branch
      BY <3>2
    <3>3. CASE \E w \in Worker : CreateRef(w)
      BY <1>1, <3>3 DEF CreateRef
    <3> QED
      BY <1>1, <3>1, <3>2, <3>3, <3>4
         DEF WorkspaceNext, workspaceVars, Begin, Leave, Ship, ReadFile, ReadFallsBack, WriteFile,
             GetTip, CreateFails, GetHead, OpenPull, Refused, Fails, MainMoves
  <2>3. Len(branch) <= Len(branch') /\ \A i \in 1 .. Len(branch) : branch'[i] = branch[i]
    BY <2>1, <2>2
  <2> QED
    BY <2>1, <2>2, <2>3 DEF IsPrefix
<1> QED
  BY <1>1, WorkspaceInvHolds, PTL DEF WorkspaceSpec, PushesStay

\* A push replaces what its agent read, or what nobody could have shown it:
\* read_file and commit_files agree on the branch.
THEOREM NothingUnseenHolds == WorkspaceSpec => NothingUnseenReplaced
<1>1. ASSUME WorkspaceInv, NEW w \in Worker, Push(w),
             NEW p \in DOMAIN worker[w].staged \cap DOMAIN worker[w].known,
             p \notin worker[w].outdated
      PROVE  branch[worker[w].base][p] \in {0, worker[w].known[p]}
  <2>1. worker[w].known[p] = Content(p)
    BY <1>1 DEF WorkspaceInv, KnownIsCurrent
  <2>2. worker[w].base = Len(branch) /\ branch # <<>>
    BY <1>1, PushAppends
  <2>3. OnBranch(p) = branch[worker[w].base][p]
    BY <2>2 DEF OnBranch, Last
  <2> QED
    BY <2>1, <2>3 DEF Content
<1>2. WorkspaceInv /\ [WorkspaceNext]_workspaceVars
      => \A w \in Worker : Push(w) =>
           \A p \in DOMAIN worker[w].staged \cap DOMAIN worker[w].known :
             \/ branch[worker[w].base][p] \in {0, worker[w].known[p]}
             \/ p \in worker[w].outdated
  BY <1>1
<1> QED
  BY <1>2, WorkspaceInvHolds, PTL DEF WorkspaceSpec, NothingUnseenReplaced

-----------------------------------------------------------------------------
(* Accounts.  What logins and refreshes keep, for every number of tabs,     *)
(* calls and refreshes at once.                                             *)

ExchangeRow == [pc : {"free", "sent", "read", "denied", "granted"}, token : Nat,
                tab : Tab \cup {Nobody}, new : Nat]
CallRow == [pc : {"idle", "refused", "waiting", "again", "final"},
            on : Exchange \cup {Nobody}]

\* Tokens are numbered in the order of issue.
ServerTyped ==
  /\ \E k \in Nat : Issued = 1 .. k
  /\ revoked \subseteq Issued /\ lapsed \subseteq Issued

ExchangesTyped ==
  /\ exchange \in [Exchange -> ExchangeRow]
  /\ \A s \in Exchange :
       /\ exchange[s].pc = "free" => exchange[s].tab = Nobody
       /\ exchange[s].pc # "free" => exchange[s].token \in Issued
       /\ exchange[s].pc = "granted" => exchange[s].new \in Issued

StoredTyped ==
  \/ stored = NotSigned
  \/ \E a \in {"fresh", "stale"}, n \in Issued : stored = Signed(a, n)

PagesTyped ==
  /\ page \in [Tab -> {"app", "login"}]
  /\ call \in [Call -> CallRow] /\ flight \in [Tab -> Exchange \cup {Nobody}]

\* A refresh whose answer is waited for is its tab's refresh in flight.
Listening(s) == exchange[s].tab # Nobody
Wired ==
  \A s \in Exchange : Listening(s) =>
    /\ flight[exchange[s].tab] = s
    /\ \E r \in Call : TabOf[r] = exchange[s].tab /\ call[r].pc = "waiting"

\* As long as nothing interfered: one refresh at most is waited for, it presents
\* the stored token, and whoever else presents it is waited for, too.
Presenting ==
  \A s \in Exchange : Listening(s) =>
    /\ stored # NotSigned /\ exchange[s].token = stored.refresh
    /\ exchange[s].pc # "denied"
    /\ \A u \in Exchange : Listening(u) => u = s

\* ... what it was granted is usable and nobody has presented it,
GrantsNew ==
  \A s \in Exchange : Listening(s) /\ exchange[s].pc = "granted" =>
    /\ exchange[s].new \notin revoked
    /\ \A u \in Exchange : exchange[u].pc # "free" => exchange[u].token # exchange[s].new

NoStray ==
  stored # NotSigned =>
    \A s \in Exchange : exchange[s].pc # "free" /\ exchange[s].token = stored.refresh
                        => Listening(s)

\* ... the stored token is usable unless the answer that replaces it is on its way,
StoredUsable ==
  stored # NotSigned /\ stored.refresh \in revoked =>
    \E s \in Exchange : Listening(s) /\ exchange[s].pc = "granted"

\* ... and a second try meets a fresh token.
TriesFresh ==
  \A r \in Call : call[r].pc # "final" /\ (call[r].pc = "again" => stored.access = "fresh")

Calm == lapsed = {} /\ Presenting /\ GrantsNew /\ NoStray /\ StoredUsable /\ TriesFresh

AccountsTyped == ServerTyped /\ ExchangesTyped /\ StoredTyped /\ PagesTyped
AccountsInv == AccountsTyped /\ Wired /\ (~disturbed => Calm)

-----------------------------------------------------------------------------
LEMMA NextIsNew ==
  ASSUME ServerTyped
  PROVE  /\ NextToken \in Nat /\ NextToken \notin Issued
         /\ \E k \in Nat : Issued \cup {NextToken} = 1 .. k
<1>1. PICK k \in Nat : Issued = 1 .. k
      BY DEF ServerTyped
<1>2. Cardinality(Issued) = k
      BY <1>1, FS_Interval
<1>3. NextToken = k + 1 /\ 1 .. (k + 1) = (1 .. k) \cup {k + 1}
      BY <1>2 DEF NextToken
<1> QED
    BY <1>1, <1>3

LEMMA IssueTyped ==
  ASSUME ServerTyped, NEW f, Issue(f)
  PROVE  /\ Issued' = Issued \cup {NextToken} /\ NextToken \in Issued' /\ NextToken \notin Issued
         /\ \E k \in Nat : Issued' = 1 .. k
         /\ NextToken \in Nat
         /\ \A n \in Issued : family'[n] = family[n]
         /\ family'[NextToken] = f
<1> HIDE DEF NextToken
<1>1. Issued' = Issued \cup {NextToken}
      BY DEF Issue, Issued
<1> QED
    BY <1>1, NextIsNew DEF Issue

LEMMA SignedParts ==
  ASSUME NEW a, NEW n
  PROVE  /\ Signed(a, n).access = a /\ Signed(a, n).refresh = n
         /\ a # "none" => Signed(a, n) # NotSigned
         /\ NotSigned.access = "none" /\ NotSigned.refresh = 0
<1>1. Signed(a, n).access = a /\ Signed(a, n).refresh = n
      BY DEF Signed
<1>2. NotSigned.access = "none" /\ NotSigned.refresh = 0
      BY DEF Signed, NotSigned
<1> QED
    BY <1>1, <1>2

LEMMA AccountsInvInit == AccountsInit => AccountsInv
<1> SUFFICES ASSUME AccountsInit PROVE AccountsInv
    OBVIOUS
<1>1. Issued = {} /\ revoked = {} /\ lapsed = {}
      BY DEF AccountsInit, Issued
<1>2. ServerTyped
  <2>1. Issued = 1 .. 0
        BY <1>1
  <2> QED
      BY <1>1, <2>1 DEF ServerTyped
<1>3. ExchangesTyped /\ \A s \in Exchange : exchange[s].tab = Nobody /\ exchange[s].pc = "free"
      BY DEF AccountsInit, ExchangesTyped, ExchangeRow, Free
<1>4. StoredTyped /\ stored = NotSigned
      BY DEF AccountsInit, StoredTyped
<1>5. PagesTyped /\ \A r \in Call : call[r].pc = "idle"
      BY DEF AccountsInit, PagesTyped, CallRow, Quiet
<1>6. Wired /\ Presenting /\ GrantsNew /\ NoStray /\ StoredUsable /\ TriesFresh
      BY <1>3, <1>4, <1>5
         DEF Wired, Presenting, GrantsNew, NoStray, StoredUsable, TriesFresh, Listening
<1> QED
    BY <1>1, <1>2, <1>3, <1>4, <1>5, <1>6 DEF AccountsInv, AccountsTyped, Calm

-----------------------------------------------------------------------------
(* The server.                                                              *)

LEMMA ReadRowKeeps ==
  ASSUME AccountsInv, NEW s \in Exchange, ReadRow(s)
  PROVE  AccountsInv'
<1> DEFINE answer == IF Live(exchange[s].token) THEN "read" ELSE "denied"
<1>1. /\ exchange[s].pc = "sent" /\ exchange' = [exchange EXCEPT ![s].pc = answer]
      /\ UNCHANGED <<family, revoked, lapsed, stored, page, call, flight, events, disturbed>>
      /\ answer \in {"read", "denied"}
      BY DEF ReadRow, serverVars, browserVars
<1>2. Live(exchange[s].token) <=> exchange[s].token \in Issued \ (revoked \cup lapsed)
      BY DEF Live
<1> HIDE DEF answer
<1>3. AccountsTyped /\ Wired
      BY DEF AccountsInv
<1>4. /\ exchange' \in [Exchange -> ExchangeRow]
      /\ exchange'[s].pc = answer /\ \A u \in Exchange \ {s} : exchange'[u] = exchange[u]
      /\ \A u \in Exchange : /\ exchange'[u].token = exchange[u].token
                             /\ exchange'[u].tab = exchange[u].tab
                             /\ exchange'[u].new = exchange[u].new
      BY <1>1, <1>3 DEF AccountsTyped, ExchangesTyped, ExchangeRow
<1>5. AccountsTyped'
  <2>1. ExchangesTyped'
        BY <1>1, <1>3, <1>4 DEF AccountsTyped, ExchangesTyped, Issued
  <2>2. ServerTyped' /\ StoredTyped' /\ PagesTyped'
        BY <1>1, <1>3 DEF AccountsTyped, ServerTyped, StoredTyped, PagesTyped, Issued, CallRow
  <2> QED
      BY <2>1, <2>2 DEF AccountsTyped
<1>6. Wired'
      BY <1>1, <1>3, <1>4 DEF Wired, Listening
<1>7. ASSUME ~disturbed PROVE Calm'
  <2>1. Calm
        BY <1>7 DEF AccountsInv
  <2>2. ASSUME Listening(s) PROVE answer = "read"
    <3>1. exchange[s].token \in Issued /\ stored # NotSigned /\ exchange[s].token = stored.refresh
          BY <1>1, <1>3, <2>1, <2>2 DEF AccountsTyped, ExchangesTyped, Calm, Presenting
    <3>2. exchange[s].token \notin revoked
          BY <1>1, <2>1, <2>2, <3>1 DEF Calm, StoredUsable, Presenting
    <3> QED
        BY <1>2, <2>1, <3>1, <3>2 DEF Calm, answer
  <2>3. Presenting' /\ GrantsNew' /\ NoStray' /\ StoredUsable'
        BY <1>1, <1>4, <2>1, <2>2 DEF Calm, Presenting, GrantsNew, NoStray, StoredUsable, Listening
  <2>4. TriesFresh' /\ lapsed' = {}
        BY <1>1, <2>1 DEF Calm, TriesFresh
  <2> QED
      BY <2>3, <2>4 DEF Calm
<1> QED
    BY <1>1, <1>5, <1>6, <1>7 DEF AccountsInv

LEMMA RotateKeeps ==
  ASSUME AccountsInv, NEW s \in Exchange, Rotate(s)
  PROVE  AccountsInv'
<1> DEFINE k == NextToken
<1>1. /\ exchange[s].pc = "read" /\ Issue(family[exchange[s].token])
      /\ revoked' = revoked \cup {exchange[s].token}
      /\ exchange' = [exchange EXCEPT ![s].pc = "granted", ![s].new = k]
      /\ UNCHANGED <<lapsed, stored, page, call, flight, events, disturbed>>
      BY DEF Rotate, browserVars
<1>2. AccountsTyped /\ Wired
      BY DEF AccountsInv
<1>3. /\ Issued' = Issued \cup {k} /\ k \in Issued' /\ k \notin Issued /\ k \in Nat
      /\ \E j \in Nat : Issued' = 1 .. j
      BY <1>1, <1>2, IssueTyped DEF AccountsTyped
<1> HIDE DEF k
<1>4. /\ exchange' \in [Exchange -> ExchangeRow]
      /\ exchange'[s].pc = "granted" /\ exchange'[s].new = k
      /\ \A u \in Exchange \ {s} : exchange'[u] = exchange[u]
      /\ \A u \in Exchange : /\ exchange'[u].token = exchange[u].token
                             /\ exchange'[u].tab = exchange[u].tab
      BY <1>1, <1>2, <1>3 DEF AccountsTyped, ExchangesTyped, ExchangeRow
<1>5. /\ exchange[s].token \in Issued /\ revoked \subseteq Issued
      /\ \A u \in Exchange : exchange[u].pc # "free" => exchange[u].token \in Issued
      BY <1>1, <1>2 DEF AccountsTyped, ExchangesTyped, ServerTyped
<1>6. AccountsTyped'
  <2>1. ExchangesTyped'
        BY <1>1, <1>2, <1>3, <1>4, <1>5 DEF AccountsTyped, ExchangesTyped
  <2>2. ServerTyped'
        BY <1>1, <1>2, <1>3, <1>5 DEF AccountsTyped, ServerTyped
  <2>3. StoredTyped' /\ PagesTyped'
        BY <1>1, <1>2, <1>3 DEF AccountsTyped, StoredTyped, PagesTyped, CallRow
  <2> QED
      BY <2>1, <2>2, <2>3 DEF AccountsTyped
<1>7. Wired'
      BY <1>1, <1>2, <1>4 DEF Wired, Listening
<1>8. ASSUME ~disturbed PROVE Calm'
  <2>1. Calm
        BY <1>8 DEF AccountsInv
  <2>2. Presenting' /\ NoStray'
        BY <1>1, <1>4, <2>1 DEF Calm, Presenting, NoStray, Listening
  <2>3. GrantsNew'
        BY <1>1, <1>3, <1>4, <1>5, <2>1 DEF Calm, GrantsNew, Listening
  <2>4. StoredUsable'
        BY <1>1, <1>4, <2>1 DEF Calm, StoredUsable, NoStray, Listening
  <2>5. TriesFresh' /\ lapsed' = {}
        BY <1>1, <2>1 DEF Calm, TriesFresh
  <2> QED
      BY <2>2, <2>3, <2>4, <2>5 DEF Calm
<1> QED
    BY <1>1, <1>6, <1>7, <1>8 DEF AccountsInv

\* Expiry, and logout by a client of the API: they interfere.
LEMMA RevocationKeeps ==
  ASSUME AccountsInv,
         LogoutAll \/ \E n \in Issued : Lapse(n) \/ Logout(n)
  PROVE  AccountsInv'
<1>1. /\ revoked' \subseteq revoked \cup Issued /\ lapsed' \subseteq lapsed \cup Issued
      /\ disturbed' = TRUE
      /\ UNCHANGED <<family, stored, page, call, flight, exchange>>
      BY DEF LogoutAll, Lapse, Logout, Disturb, browserVars
<1>2. AccountsTyped /\ Wired
      BY DEF AccountsInv
<1>3. ServerTyped' /\ ExchangesTyped'
      BY <1>1, <1>2 DEF AccountsTyped, ServerTyped, ExchangesTyped, Issued
<1>4. StoredTyped' /\ PagesTyped'
      BY <1>1, <1>2 DEF AccountsTyped, StoredTyped, PagesTyped, CallRow, Issued
<1>5. Wired'
      BY <1>1, <1>2 DEF Wired, Listening
<1> QED
    BY <1>1, <1>3, <1>4, <1>5 DEF AccountsInv, AccountsTyped

-----------------------------------------------------------------------------
(* A tab goes to the login page.                                            *)

LEMMA UnloadKeeps ==
  ASSUME AccountsInv, NEW t \in Tab, NEW gone, Unload(t, gone),
         gone \in Exchange => exchange[gone].tab = t,
         stored' = NotSigned, UNCHANGED serverVars
  PROVE  /\ AccountsTyped' /\ Wired'
         /\ \A s \in Exchange : Listening(s)' => exchange'[s] = exchange[s] /\ exchange[s].tab # t
         /\ \A r \in Call : call'[r] = IF TabOf[r] = t THEN Quiet ELSE call[r]
<1>1. AccountsTyped /\ Wired /\ TabOf \in [Call -> Tab] /\ Nobody \notin Tab
      BY AccountsAssumption DEF AccountsInv
<1>2. /\ page' = [page EXCEPT ![t] = "login"]
      /\ \A r \in Call : call'[r] = IF TabOf[r] = t THEN Quiet ELSE call[r]
      /\ flight' = [flight EXCEPT ![t] = Nobody]
      /\ UNCHANGED <<family, revoked, lapsed>>
      BY DEF Unload, serverVars
<1>3. \A s \in Exchange : exchange'[s] = IF s = gone THEN Free
                          ELSE IF exchange[s].tab = t THEN [exchange[s] EXCEPT !.tab = Nobody]
                          ELSE exchange[s]
      BY DEF Unload
<1>4. Free \in ExchangeRow /\ Free.pc = "free" /\ Free.tab = Nobody /\ Quiet \in CallRow
      BY DEF Free, ExchangeRow, Quiet, CallRow
<1>5. \A s \in Exchange :
        /\ exchange[s] \in ExchangeRow /\ exchange'[s] \in ExchangeRow
        /\ exchange'[s].pc # "free" => /\ exchange'[s].pc = exchange[s].pc
                                       /\ exchange'[s].token = exchange[s].token
                                       /\ exchange'[s].new = exchange[s].new
        /\ exchange'[s].pc = "free" => exchange'[s].tab = Nobody
        /\ exchange'[s].tab # Nobody => exchange'[s] = exchange[s] /\ exchange[s].tab # t
  <2> SUFFICES ASSUME NEW s \in Exchange
               PROVE  /\ exchange[s] \in ExchangeRow /\ exchange'[s] \in ExchangeRow
                      /\ exchange'[s].pc # "free" => /\ exchange'[s].pc = exchange[s].pc
                                                     /\ exchange'[s].token = exchange[s].token
                                                     /\ exchange'[s].new = exchange[s].new
                      /\ exchange'[s].pc = "free" => exchange'[s].tab = Nobody
                      /\ exchange'[s].tab # Nobody => exchange'[s] = exchange[s] /\ exchange[s].tab # t
      OBVIOUS
  <2>1. exchange[s] \in ExchangeRow /\ (exchange[s].pc = "free" => exchange[s].tab = Nobody)
        BY <1>1 DEF AccountsTyped, ExchangesTyped
  <2>2. CASE s = gone
        BY <1>3, <1>4, <2>1, <2>2
  <2>3. CASE s # gone /\ exchange[s].tab = t
        BY <1>3, <2>1, <2>3 DEF ExchangeRow
  <2>4. CASE s # gone /\ exchange[s].tab # t
        BY <1>3, <2>1, <2>4
  <2> QED
      BY <2>2, <2>3, <2>4
<1>6. AccountsTyped'
  <2>1. exchange' \in [Exchange -> ExchangeRow]
        BY <1>5 DEF Unload
  <2>2. ExchangesTyped'
        BY <1>1, <1>2, <1>5, <2>1 DEF AccountsTyped, ExchangesTyped, Issued
  <2>3. ServerTyped' /\ StoredTyped'
        BY <1>1, <1>2 DEF AccountsTyped, ServerTyped, StoredTyped, Issued, NotSigned, Signed
  <2>4. call' \in [Call -> CallRow]
        BY <1>1, <1>4 DEF Unload, AccountsTyped, PagesTyped
  <2>5. PagesTyped'
        BY <1>1, <1>2, <2>4 DEF AccountsTyped, PagesTyped, CallRow
  <2> QED
      BY <2>2, <2>3, <2>5 DEF AccountsTyped
<1>7. Wired'
  <2> SUFFICES ASSUME NEW s \in Exchange, Listening(s)'
               PROVE  /\ flight'[exchange'[s].tab] = s
                      /\ \E r \in Call : TabOf[r] = exchange'[s].tab /\ call'[r].pc = "waiting"
      BY DEF Wired
  <2>1. exchange'[s] = exchange[s] /\ exchange[s].tab # t /\ Listening(s)
        BY <1>5 DEF Listening
  <2>2. PICK r \in Call : TabOf[r] = exchange[s].tab /\ call[r].pc = "waiting"
        BY <1>1, <2>1 DEF Wired
  <2>3. flight[exchange[s].tab] = s /\ exchange[s].tab \in Tab
        BY <1>1, <2>1, <2>2 DEF Wired
  <2> QED
      BY <1>1, <1>2, <2>1, <2>2, <2>3 DEF AccountsTyped, PagesTyped
<1> QED
    BY <1>2, <1>5, <1>6, <1>7 DEF Listening

LEMMA LeavingKeeps ==
  ASSUME AccountsInv, NEW t \in Tab, NEW gone, Unload(t, gone),
         gone \in Exchange => exchange[gone].tab = t,
         stored' = NotSigned, UNCHANGED serverVars,
         ~disturbed' => /\ ~disturbed
                        /\ \A s \in Exchange : Listening(s) => exchange[s].tab = t
                        /\ \A r \in Call : call[r].pc \in {"again", "final"} => TabOf[r] = t
  PROVE  AccountsInv'
<1>1. /\ AccountsTyped' /\ Wired'
      /\ \A s \in Exchange : Listening(s)' => exchange'[s] = exchange[s] /\ exchange[s].tab # t
      /\ \A r \in Call : call'[r] = IF TabOf[r] = t THEN Quiet ELSE call[r]
      BY UnloadKeeps
<1>2. ASSUME ~disturbed' PROVE Calm'
  <2>1. \A s \in Exchange : ~Listening(s)'
        BY <1>1, <1>2 DEF Listening
  <2>2. Presenting' /\ GrantsNew' /\ NoStray' /\ StoredUsable'
        BY <2>1 DEF Presenting, GrantsNew, NoStray, StoredUsable, NotSigned, Signed
  <2>3. TriesFresh'
        BY <1>1, <1>2 DEF TriesFresh, Quiet
  <2>4. lapsed' = {}
        BY <1>2 DEF AccountsInv, Calm, serverVars
  <2> QED
      BY <2>2, <2>3, <2>4 DEF Calm
<1> QED
    BY <1>1, <1>2 DEF AccountsInv

\* The sign-out button interferes with the calls of the other tabs only.
LEMMA SignOutKeeps ==
  ASSUME AccountsInv, NEW t \in Tab, SignOut(t)
  PROVE  AccountsInv'
<1>1. /\ Unload(t, Nobody) /\ stored' = NotSigned /\ UNCHANGED serverVars
      /\ disturbed' = (disturbed \/ \E r \in Call : TabOf[r] # t /\ call[r].pc # "idle")
      BY DEF SignOut, Expel
<1>2. Nobody \notin Exchange /\ Wired
      BY AccountsAssumption DEF AccountsInv
<1>3. ~disturbed' => /\ ~disturbed
                     /\ \A r \in Call : TabOf[r] # t => call[r].pc = "idle"
      BY <1>1
<1>4. ~disturbed' => /\ ~disturbed
                     /\ \A s \in Exchange : Listening(s) => exchange[s].tab = t
                     /\ \A r \in Call : call[r].pc \in {"again", "final"} => TabOf[r] = t
      BY <1>2, <1>3 DEF Wired
<1> QED
    BY <1>1, <1>2, <1>4, LeavingKeeps

\* A lost answer interferes.
LEMMA LoseKeeps ==
  ASSUME AccountsInv, NEW s \in Exchange, Lose(s)
  PROVE  AccountsInv'
<1>1. /\ exchange[s].tab # Nobody /\ stored' = NotSigned /\ UNCHANGED serverVars
      /\ disturbed' = TRUE
      BY DEF Lose, Disturb
<1>2. PICK gone \in {s, Nobody} : Unload(exchange[s].tab, gone)
      BY DEF Lose
<1>3. exchange[s].tab \in Tab /\ Nobody \notin Exchange
      BY <1>1, AccountsAssumption DEF AccountsInv, AccountsTyped, ExchangesTyped, ExchangeRow
<1> QED
    BY <1>1, <1>2, <1>3, LeavingKeeps

\* The tab gives up by itself: nothing is stored, or something interfered.
LEMMA GiveUpKeeps ==
  ASSUME AccountsInv, NEW r \in Call, GiveUp(r)
  PROVE  AccountsInv'
<1>1. /\ Unload(TabOf[r], Nobody) /\ stored = NotSigned /\ stored' = NotSigned
      /\ UNCHANGED serverVars /\ disturbed' = disturbed
      BY DEF GiveUp, Expel
<1>2. TabOf[r] \in Tab /\ Nobody \notin Exchange
      BY AccountsAssumption
<1>3. ~disturbed => /\ \A s \in Exchange : ~Listening(s)
                    /\ \A q \in Call : call[q].pc \notin {"again", "final"}
      BY <1>1 DEF AccountsInv, Calm, Presenting, TriesFresh, NotSigned, Signed
<1> QED
    BY <1>1, <1>2, <1>3, LeavingKeeps

LEMMA DeniedOnlyDisturbed ==
  ASSUME AccountsInv, NEW s \in Exchange, Denied(s)
  PROVE  disturbed /\ disturbed' = disturbed
  BY DEF AccountsInv, Calm, Presenting, Listening, Denied

LEMMA FinalOnlyDisturbed ==
  ASSUME AccountsInv, NEW r \in Call, Final(r)
  PROVE  disturbed /\ disturbed' = disturbed
  BY DEF AccountsInv, Calm, TriesFresh, Final

LEMMA DeniedKeeps ==
  ASSUME AccountsInv, NEW s \in Exchange, Denied(s)
  PROVE  AccountsInv'
<1>1. /\ exchange[s].tab # Nobody /\ stored' = NotSigned /\ UNCHANGED serverVars
      /\ Unload(exchange[s].tab, s)
      BY DEF Denied, Expel
<1>2. exchange[s].tab \in Tab
      BY <1>1 DEF AccountsInv, AccountsTyped, ExchangesTyped, ExchangeRow
<1>3. disturbed'
      BY DeniedOnlyDisturbed
<1> QED
    BY <1>1, <1>2, <1>3, LeavingKeeps

LEMMA FinalKeeps ==
  ASSUME AccountsInv, NEW r \in Call, Final(r)
  PROVE  AccountsInv'
<1>1. stored' = NotSigned /\ UNCHANGED serverVars /\ Unload(TabOf[r], Nobody)
      BY DEF Final, Expel
<1>2. TabOf[r] \in Tab /\ Nobody \notin Exchange
      BY AccountsAssumption
<1>3. disturbed'
      BY FinalOnlyDisturbed
<1> QED
    BY <1>1, <1>2, <1>3, LeavingKeeps

-----------------------------------------------------------------------------
(* The tabs at work.                                                        *)

LEMMA LoginKeeps ==
  ASSUME AccountsInv, NEW t \in Tab, Login(t)
  PROVE  AccountsInv'
<1>1. /\ page' = [page EXCEPT ![t] = "app"]
      /\ UNCHANGED <<revoked, lapsed, call, flight, exchange, events, disturbed>>
      /\ IF stored # NotSigned THEN UNCHANGED <<family, stored>>
         ELSE Issue(NextToken) /\ stored' = Signed("fresh", NextToken)
      BY DEF Login
<1>2. AccountsTyped /\ Wired
      BY DEF AccountsInv
<1>3. PagesTyped' /\ Wired'
      BY <1>1, <1>2 DEF AccountsTyped, PagesTyped, Wired, Listening, CallRow
<1>4. CASE stored # NotSigned
  <2>1. UNCHANGED <<family, stored>>
        BY <1>1, <1>4
  <2>2. ServerTyped' /\ ExchangesTyped' /\ StoredTyped'
        BY <1>1, <1>2, <2>1 DEF AccountsTyped, ServerTyped, ExchangesTyped, StoredTyped, Issued
  <2>3. Calm => Calm'
        BY <1>1, <2>1 DEF Calm, Presenting, GrantsNew, NoStray, StoredUsable, TriesFresh, Listening
  <2> QED
      BY <1>1, <1>3, <2>2, <2>3 DEF AccountsInv, AccountsTyped
<1>5. CASE stored = NotSigned
  <2> DEFINE k == NextToken
  <2>1. Issue(k) /\ stored' = Signed("fresh", k)
        BY <1>1, <1>5
  <2>2. /\ Issued' = Issued \cup {k} /\ k \in Issued' /\ k \notin Issued
        /\ \E j \in Nat : Issued' = 1 .. j
        BY <1>2, <2>1, IssueTyped DEF AccountsTyped
  <2> HIDE DEF k
  <2>3. stored'.access = "fresh" /\ stored'.refresh = k
        BY <2>1, SignedParts
  <2>4. ServerTyped' /\ ExchangesTyped'
        BY <1>1, <1>2, <2>2 DEF AccountsTyped, ServerTyped, ExchangesTyped
  <2>5. StoredTyped'
        BY <2>1, <2>2 DEF StoredTyped
  <2>6. ASSUME Calm PROVE Calm'
    <3>1. \A s \in Exchange : ~Listening(s)
          BY <1>5, <2>6 DEF Calm, Presenting
    <3>2. Presenting' /\ GrantsNew'
          BY <1>1, <3>1 DEF Presenting, GrantsNew, Listening
    <3>3. NoStray' /\ StoredUsable'
          BY <1>1, <1>2, <2>2, <2>3
             DEF NoStray, StoredUsable, AccountsTyped, ExchangesTyped, ServerTyped
    <3>4. TriesFresh' /\ lapsed' = {}
          BY <1>1, <2>3, <2>6 DEF Calm, TriesFresh
    <3> QED
        BY <3>2, <3>3, <3>4 DEF Calm
  <2> QED
      BY <1>1, <1>3, <2>4, <2>5, <2>6 DEF AccountsInv, AccountsTyped
<1> QED
    BY <1>4, <1>5

LEMMA AccessExpiresKeeps ==
  ASSUME AccountsInv, AccessExpires
  PROVE  AccountsInv'
<1>1. /\ stored.access = "fresh" /\ stored' = [stored EXCEPT !.access = "stale"]
      /\ disturbed' = (disturbed \/ \E r \in Call : call[r].pc = "again")
      /\ UNCHANGED <<family, revoked, lapsed, page, call, flight, exchange, events>>
      BY DEF AccessExpires, serverVars
<1>2. AccountsTyped /\ Wired
      BY DEF AccountsInv
<1>3. PICK a \in {"fresh", "stale"}, n \in Issued : stored = Signed(a, n)
      BY <1>1, <1>2, SignedParts DEF AccountsTyped, StoredTyped
<1>4. stored' = Signed("stale", n)
      BY <1>1, <1>3 DEF Signed
<1>5. stored # NotSigned /\ stored' # NotSigned /\ stored.refresh = n /\ stored'.refresh = n
      BY <1>3, <1>4, SignedParts
<1>6. ServerTyped' /\ ExchangesTyped' /\ PagesTyped' /\ Wired'
      BY <1>1, <1>2 DEF AccountsTyped, ServerTyped, ExchangesTyped, PagesTyped, Wired, Issued,
                        Listening, CallRow
<1>7. StoredTyped'
      BY <1>1, <1>4 DEF StoredTyped, Issued
<1>8. ASSUME ~disturbed' PROVE Calm'
  <2>1. Calm /\ \A r \in Call : call[r].pc # "again"
        BY <1>1, <1>8 DEF AccountsInv
  <2>2. Presenting' /\ GrantsNew' /\ NoStray' /\ StoredUsable'
        BY <1>1, <1>5, <2>1 DEF Calm, Presenting, GrantsNew, NoStray, StoredUsable, Listening
  <2>3. TriesFresh' /\ lapsed' = {}
        BY <1>1, <2>1 DEF Calm, TriesFresh
  <2> QED
      BY <2>2, <2>3 DEF Calm
<1> QED
    BY <1>6, <1>7, <1>8 DEF AccountsInv, AccountsTyped

\* A call moves on without anything else: the calls that wait still wait.
LEMMA CallKeeps ==
  ASSUME AccountsInv, NEW r \in Call, NEW w \in CallRow, call' = [call EXCEPT ![r] = w],
         UNCHANGED <<serverVars, stored, page, flight, exchange, events, disturbed>>,
         call[r].pc # "waiting",
         ~disturbed => w.pc # "final" /\ (w.pc = "again" => stored.access = "fresh")
  PROVE  AccountsInv'
<1>1. AccountsTyped /\ Wired
      BY DEF AccountsInv
<1>2. ServerTyped' /\ ExchangesTyped' /\ StoredTyped'
      BY <1>1 DEF AccountsTyped, ServerTyped, ExchangesTyped, StoredTyped, serverVars, Issued
<1>3. PagesTyped'
      BY <1>1 DEF AccountsTyped, PagesTyped
<1>4. \A q \in Call : call'[q] = IF q = r THEN w ELSE call[q]
      BY <1>1 DEF AccountsTyped, PagesTyped
<1>5. Wired'
      BY <1>1, <1>4 DEF Wired, Listening
<1>6. ASSUME ~disturbed PROVE Calm'
  <2>1. Calm
        BY <1>6 DEF AccountsInv
  <2>2. Presenting' /\ GrantsNew' /\ NoStray' /\ StoredUsable' /\ lapsed' = {}
        BY <2>1 DEF Calm, Presenting, GrantsNew, NoStray, StoredUsable, Listening, serverVars
  <2>3. TriesFresh'
        BY <1>4, <1>6, <2>1 DEF Calm, TriesFresh
  <2> QED
      BY <2>2, <2>3 DEF Calm
<1> QED
    BY <1>2, <1>3, <1>5, <1>6 DEF AccountsInv, AccountsTyped

LEMMA AskKeeps ==
  ASSUME AccountsInv, NEW r \in Call, Ask(r)
  PROVE  AccountsInv'
<1> DEFINE w == [call[r] EXCEPT !.pc = "refused"]
<1>1. call[r] \in CallRow
      BY DEF AccountsInv, AccountsTyped, PagesTyped
<1>2. w \in CallRow /\ w.pc = "refused" /\ call' = [call EXCEPT ![r] = w]
      BY <1>1 DEF Ask, CallRow
<1> HIDE DEF w
<1> QED
    BY <1>2, CallKeeps DEF Ask

LEMMA AgainKeeps ==
  ASSUME AccountsInv, NEW r \in Call, Again(r)
  PROVE  AccountsInv'
<1> DEFINE w == IF stored.access = "fresh" THEN Quiet ELSE [pc |-> "final", on |-> Nobody]
<1>1. w \in CallRow /\ w.pc # "again"
      BY DEF CallRow, Quiet
<1>2. ~disturbed => w.pc # "final"
      BY DEF Again, AccountsInv, Calm, TriesFresh, Quiet
<1>3. call' = [call EXCEPT ![r] = w]
      BY DEF Again
<1> HIDE DEF w
<1> QED
    BY <1>1, <1>2, <1>3, CallKeeps DEF Again

\* A call joins the refresh of its tab, or sends one that presents the stored
\* token: nobody else presents it then, or the two interfere.
LEMMA RefreshKeeps ==
  ASSUME AccountsInv, NEW r \in Call, Refresh(r)
  PROVE  AccountsInv'
<1> DEFINE t == TabOf[r]
<1>1. /\ call[r].pc = "refused" /\ stored # NotSigned
      /\ UNCHANGED <<family, revoked, lapsed, stored, page, events>>
      BY DEF Refresh, serverVars
<1>2. AccountsTyped /\ Wired /\ t \in Tab /\ Nobody \notin Tab \cup Exchange
      BY AccountsAssumption DEF AccountsInv
<1>3. CASE flight[t] # Nobody
  <2> DEFINE w == [pc |-> "waiting", on |-> flight[t]]
  <2>1. w \in CallRow /\ w.pc = "waiting"
        BY <1>2 DEF CallRow, AccountsTyped, PagesTyped
  <2>2. call' = [call EXCEPT ![r] = w] /\ UNCHANGED <<flight, exchange, disturbed>>
        BY <1>3 DEF Refresh
  <2> HIDE DEF w
  <2> QED
      BY <1>1, <2>1, <2>2, CallKeeps DEF serverVars
<1>4. CASE flight[t] = Nobody
  <2> DEFINE row == [pc |-> "sent", token |-> stored.refresh, tab |-> t, new |-> 0]
             w(s) == [pc |-> "waiting", on |-> s]
  <2>1. PICK s \in Exchange :
          /\ exchange[s].pc = "free"
          /\ exchange' = [exchange EXCEPT ![s] = row]
          /\ flight' = [flight EXCEPT ![t] = s]
          /\ call' = [call EXCEPT ![r] = w(s)]
          /\ disturbed' = (disturbed \/ Overlaps(t, stored.refresh))
        BY <1>4 DEF Refresh
  <2>2. stored.refresh \in Issued /\ stored.refresh \in Nat
        BY <1>1, <1>2, SignedParts DEF AccountsTyped, StoredTyped, ServerTyped
  <2>3. /\ row \in ExchangeRow /\ row.pc = "sent" /\ row.token = stored.refresh /\ row.tab = t
        /\ w(s) \in CallRow /\ w(s).pc = "waiting"
        BY <1>2, <2>2 DEF ExchangeRow, CallRow
  <2> HIDE DEF row, w
  <2>4. /\ \A u \in Exchange : exchange'[u] = IF u = s THEN row ELSE exchange[u]
        /\ \A q \in Call : call'[q] = IF q = r THEN w(s) ELSE call[q]
        /\ \A v \in Tab : flight'[v] = IF v = t THEN s ELSE flight[v]
        BY <1>2, <2>1 DEF AccountsTyped, ExchangesTyped, PagesTyped
  <2>5. ServerTyped' /\ StoredTyped'
        BY <1>1, <1>2 DEF AccountsTyped, ServerTyped, StoredTyped, Issued
  <2>6. ExchangesTyped'
        BY <1>1, <1>2, <2>1, <2>2, <2>3, <2>4 DEF AccountsTyped, ExchangesTyped, Issued
  <2>7. PagesTyped'
        BY <1>1, <1>2, <2>1, <2>3 DEF AccountsTyped, PagesTyped
  <2>8. Wired'
    <3> SUFFICES ASSUME NEW u \in Exchange, Listening(u)'
                 PROVE  /\ flight'[exchange'[u].tab] = u
                        /\ \E q \in Call : TabOf[q] = exchange'[u].tab /\ call'[q].pc = "waiting"
        BY DEF Wired
    <3>1. CASE u = s
          BY <1>2, <2>3, <2>4, <3>1
    <3>2. CASE u # s
      <4>1. exchange'[u] = exchange[u] /\ Listening(u)
            BY <2>4, <3>2 DEF Listening
      <4>2. flight[exchange[u].tab] = u /\ exchange[u].tab # t
            BY <1>2, <1>4, <4>1 DEF Wired
      <4>3. exchange[u].tab \in Tab
            BY <4>1 DEF Listening, AccountsInv, AccountsTyped, ExchangesTyped, ExchangeRow
      <4>4. PICK q \in Call : TabOf[q] = exchange[u].tab /\ call[q].pc = "waiting"
            BY <1>2, <4>1 DEF Wired
      <4> QED
          BY <2>3, <2>4, <4>1, <4>2, <4>3, <4>4
    <3> QED
        BY <3>1, <3>2
  <2>9. ASSUME ~disturbed' PROVE Calm'
    <3>1. Calm /\ ~Overlaps(t, stored.refresh)
          BY <2>1, <2>9 DEF AccountsInv
    <3>2. \A u \in Exchange : ~Listening(u)
      <4> SUFFICES ASSUME NEW u \in Exchange, Listening(u) PROVE FALSE
          OBVIOUS
      <4>1. exchange[u].token = stored.refresh /\ exchange[u].pc # "free"
            BY <1>2, <3>1 DEF Calm, Presenting, Listening, AccountsTyped, ExchangesTyped
      <4>2. exchange[u].tab # t
            BY <1>2, <1>4 DEF Wired
      <4> QED
          BY <3>1, <4>1, <4>2 DEF Overlaps
    <3>3. \A u \in Exchange : Listening(u)' => u = s
          BY <2>4, <3>2 DEF Listening
    <3>4. Presenting' /\ GrantsNew'
          BY <1>1, <2>3, <2>4, <3>3 DEF Presenting, GrantsNew
    <3>5. NoStray'
          BY <1>1, <1>2, <2>3, <2>4, <3>1, <3>2 DEF Calm, NoStray, Listening
    <3>6. StoredUsable' /\ TriesFresh' /\ lapsed' = {}
          BY <1>1, <2>3, <2>4, <3>1, <3>2 DEF Calm, StoredUsable, TriesFresh
    <3> QED
        BY <3>4, <3>5, <3>6 DEF Calm
  <2> QED
      BY <2>5, <2>6, <2>7, <2>8, <2>9 DEF AccountsInv, AccountsTyped
<1> QED
    BY <1>3, <1>4

\* An exchange ends.
LEMMA FreedTyped ==
  ASSUME AccountsInv, NEW s \in Exchange, exchange' = [exchange EXCEPT ![s] = Free],
         UNCHANGED serverVars
  PROVE  /\ ServerTyped' /\ ExchangesTyped'
         /\ \A u \in Exchange : exchange'[u] = IF u = s THEN Free ELSE exchange[u]
         /\ Free.pc = "free" /\ Free.tab = Nobody
<1>1. Free \in ExchangeRow /\ Free.pc = "free" /\ Free.tab = Nobody
      BY DEF Free, ExchangeRow
<1> QED
    BY <1>1 DEF AccountsInv, AccountsTyped, ServerTyped, ExchangesTyped, serverVars, Issued

LEMMA GrantedKeeps ==
  ASSUME AccountsInv, NEW s \in Exchange, Granted(s)
  PROVE  AccountsInv'
<1> DEFINE t == exchange[s].tab
<1>1. /\ exchange[s].pc = "granted" /\ t # Nobody
      /\ stored' = Signed("fresh", exchange[s].new)
      /\ flight' = [flight EXCEPT ![t] = Nobody]
      /\ call' = [r \in Call |-> IF call[r].on = s /\ TabOf[r] = t
                                 THEN [pc |-> "again", on |-> Nobody] ELSE call[r]]
      /\ exchange' = [exchange EXCEPT ![s] = Free]
      /\ UNCHANGED <<family, revoked, lapsed, page, events, disturbed>>
      BY DEF Granted, serverVars
<1>2. AccountsTyped /\ Wired /\ exchange[s].new \in Issued
      BY <1>1 DEF AccountsInv, AccountsTyped, ExchangesTyped
<1>3. /\ ServerTyped' /\ ExchangesTyped'
      /\ \A u \in Exchange : exchange'[u] = IF u = s THEN Free ELSE exchange[u]
      /\ Free.pc = "free" /\ Free.tab = Nobody
      BY <1>1, FreedTyped DEF serverVars
<1>4. stored'.access = "fresh" /\ stored'.refresh = exchange[s].new
      BY <1>1, SignedParts
<1>5. StoredTyped'
      BY <1>1, <1>2 DEF StoredTyped, Issued
<1>6. PagesTyped'
      BY <1>1, <1>2 DEF AccountsTyped, PagesTyped, CallRow
<1>7. Wired'
  <2> SUFFICES ASSUME NEW u \in Exchange, Listening(u)'
               PROVE  /\ flight'[exchange'[u].tab] = u
                      /\ \E q \in Call : TabOf[q] = exchange'[u].tab /\ call'[q].pc = "waiting"
      BY DEF Wired
  <2>1. u # s /\ exchange'[u] = exchange[u] /\ Listening(u)
        BY <1>3 DEF Listening
  <2>2. flight[exchange[u].tab] = u /\ flight[t] = s /\ exchange[u].tab \in Tab
        BY <1>1, <1>2, <2>1 DEF Wired, Listening, AccountsTyped, ExchangesTyped, ExchangeRow
  <2>3. PICK q \in Call : TabOf[q] = exchange[u].tab /\ call[q].pc = "waiting"
        BY <1>2, <2>1 DEF Wired
  <2>4. exchange[u].tab # t
        BY <2>1, <2>2
  <2>5. flight'[exchange[u].tab] = u
        BY <1>1, <1>2, <2>2, <2>4 DEF AccountsTyped, PagesTyped
  <2>6. call'[q] = call[q]
        BY <1>1, <2>3, <2>4
  <2> QED
      BY <2>1, <2>3, <2>5, <2>6
<1>8. ASSUME ~disturbed PROVE Calm'
  <2>1. Calm
        BY <1>8 DEF AccountsInv
  <2>2. \A u \in Exchange : ~Listening(u)'
        BY <1>1, <1>3, <2>1 DEF Calm, Presenting, Listening
  <2>3. Presenting' /\ GrantsNew'
        BY <2>2 DEF Presenting, GrantsNew
  <2>4. NoStray' /\ StoredUsable'
        BY <1>1, <1>3, <1>4, <2>1 DEF Calm, GrantsNew, NoStray, StoredUsable, Listening
  <2>5. TriesFresh' /\ lapsed' = {}
        BY <1>1, <1>4, <2>1 DEF Calm, TriesFresh
  <2> QED
      BY <2>3, <2>4, <2>5 DEF Calm
<1> QED
    BY <1>1, <1>3, <1>5, <1>6, <1>7, <1>8 DEF AccountsInv, AccountsTyped

LEMMA UnheardKeeps ==
  ASSUME AccountsInv, NEW s \in Exchange, Unheard(s)
  PROVE  AccountsInv'
<1>1. /\ ~Listening(s) /\ exchange' = [exchange EXCEPT ![s] = Free]
      /\ UNCHANGED <<family, revoked, lapsed, stored, page, call, flight, events, disturbed>>
      BY DEF Unheard, Listening, serverVars, browserVars
<1>2. /\ ServerTyped' /\ ExchangesTyped'
      /\ \A u \in Exchange : exchange'[u] = IF u = s THEN Free ELSE exchange[u]
      /\ Free.pc = "free" /\ Free.tab = Nobody
      BY <1>1, FreedTyped DEF serverVars
<1>3. StoredTyped' /\ PagesTyped' /\ Wired'
      BY <1>1, <1>2 DEF AccountsInv, AccountsTyped, StoredTyped, PagesTyped, CallRow, Wired,
                        Listening, Issued
<1>4. ASSUME ~disturbed PROVE Calm'
  <2>1. Calm
        BY <1>4 DEF AccountsInv
  <2>2. Presenting' /\ GrantsNew' /\ NoStray' /\ StoredUsable'
        BY <1>1, <1>2, <2>1 DEF Calm, Presenting, GrantsNew, NoStray, StoredUsable, Listening
  <2>3. TriesFresh' /\ lapsed' = {}
        BY <1>1, <2>1 DEF Calm, TriesFresh
  <2> QED
      BY <2>2, <2>3 DEF Calm
<1> QED
    BY <1>1, <1>2, <1>3, <1>4 DEF AccountsInv, AccountsTyped

LEMMA AccountsInvStep ==
  ASSUME AccountsInv, [AccountsNext]_accountsVars
  PROVE  AccountsInv'
<1>1. CASE UNCHANGED accountsVars
  <2>1. UNCHANGED <<family, revoked, lapsed, stored, page, call, flight, exchange, events, disturbed>>
        BY <1>1 DEF accountsVars, serverVars, browserVars
  <2>2. AccountsTyped' /\ Wired'
        BY <2>1 DEF AccountsInv, AccountsTyped, ServerTyped, ExchangesTyped, StoredTyped,
                    PagesTyped, CallRow, Wired, Listening, Issued
  <2>3. Calm => Calm'
        BY <2>1 DEF Calm, Presenting, GrantsNew, NoStray, StoredUsable, TriesFresh, Listening
  <2> QED
      BY <2>1, <2>2, <2>3 DEF AccountsInv
<1>2. CASE AccountsNext
      BY <1>2, ReadRowKeeps, RotateKeeps, GrantedKeeps, DeniedKeeps, UnheardKeeps, LoseKeeps,
         RevocationKeeps, AccessExpiresKeeps, LoginKeeps, SignOutKeeps, AskKeeps, RefreshKeeps,
         GiveUpKeeps, AgainKeeps, FinalKeeps DEF AccountsNext
<1> QED
    BY <1>1, <1>2

LEMMA AccountsInvHolds == AccountsSpec => []AccountsInv
<1>1. AccountsInit => AccountsInv
      BY AccountsInvInit
<1>2. AccountsInv /\ [AccountsNext]_accountsVars => AccountsInv'
      BY AccountsInvStep
<1> QED
    BY <1>1, <1>2, PTL DEF AccountsSpec

\* Whatever the number of tabs, of calls they make at once and of refreshes under
\* way, localStorage is cleared only by the button or after an interference:
\* sharing refreshInFlight is enough within a tab.
THEOREM SignedOutForCauseHolds == AccountsSpec => SignedOutForCause
<1> DEFINE Cause == stored # NotSigned /\ stored' = NotSigned
                    => disturbed' \/ \E t \in Tab : SignOut(t)
<1>1. AccountsInv /\ [AccountsNext]_accountsVars => [Cause]_accountsVars
  <2> SUFFICES ASSUME AccountsInv, AccountsNext, stored # NotSigned, stored' = NotSigned,
                      ~ \E t \in Tab : SignOut(t)
               PROVE  disturbed'
      OBVIOUS
  <2>1. ASSUME NEW s \in Exchange, Granted(s) PROVE FALSE
        BY <2>1, SignedParts DEF Granted
  <2>2. ASSUME NEW t \in Tab, Login(t) PROVE FALSE
        BY <2>2 DEF Login
  <2>3. ASSUME AccessExpires PROVE FALSE
        BY <2>3, SignedParts DEF AccessExpires, AccountsInv, AccountsTyped, StoredTyped, NotSigned,
                                 Signed
  <2>4. ASSUME NEW s \in Exchange, Denied(s) PROVE disturbed'
        BY <2>4, DeniedOnlyDisturbed
  <2>5. ASSUME NEW r \in Call, Final(r) PROVE disturbed'
        BY <2>5, FinalOnlyDisturbed
  <2>6. ASSUME NEW s \in Exchange, Lose(s) PROVE disturbed'
        BY <2>6 DEF Lose, Disturb
  <2>7. ASSUME NEW r \in Call, GiveUp(r) PROVE FALSE
        BY <2>7 DEF GiveUp
  <2>8. ASSUME UNCHANGED stored PROVE FALSE
        BY <2>8
  <2>9. ASSUME NEW s \in Exchange, ReadRow(s) \/ Rotate(s) \/ Unheard(s) PROVE UNCHANGED stored
        BY <2>9 DEF ReadRow, Rotate, Unheard, browserVars
  <2>10. ASSUME LogoutAll \/ \E n \in Issued : Lapse(n) \/ Logout(n) PROVE UNCHANGED stored
        BY <2>10 DEF LogoutAll, Lapse, Logout, browserVars
  <2>11. ASSUME NEW r \in Call, Ask(r) \/ Refresh(r) \/ Again(r) PROVE UNCHANGED stored
        BY <2>11 DEF Ask, Refresh, Again
  <2> QED
      BY <2>1, <2>2, <2>3, <2>4, <2>5, <2>6, <2>7, <2>8, <2>9, <2>10, <2>11 DEF AccountsNext
<1> QED
    BY <1>1, AccountsInvHolds, PTL DEF AccountsSpec, SignedOutForCause

-----------------------------------------------------------------------------
(* Sessions.  What a family may still become: live tokens that nobody is     *)
(* rotating, and rotations under way.                                       *)

Unread(f) ==
  {n \in Issued : Live(n) /\ family[n] = f
     /\ \A s \in Exchange : exchange[s].pc = "read" => exchange[s].token # n}
Rotating(f) == {s \in Exchange : exchange[s].pc = "read" /\ family[exchange[s].token] = f}

LEMMA BranchesAre ==
  ASSUME AccountsTyped, NEW f
  PROVE  /\ Branches(f) = Cardinality(Unread(f)) + Cardinality(Rotating(f))
         /\ IsFiniteSet(Unread(f)) /\ IsFiniteSet(Rotating(f))
         /\ Cardinality(Unread(f)) \in Nat /\ Cardinality(Rotating(f)) \in Nat
<1>1. PICK k \in Nat : Issued = 1 .. k
      BY DEF AccountsTyped, ServerTyped
<1>2. IsFiniteSet(Issued)
      BY <1>1, FS_Interval
<1>3. IsFiniteSet(Unread(f))
      BY <1>2, FS_Subset DEF Unread
<1>4. IsFiniteSet(Rotating(f))
      BY AccountsAssumption, FS_Subset DEF Rotating
<1> QED
    BY <1>3, <1>4, FS_CardinalityType DEF Branches, Unread, Rotating

LEMMA BranchesAreNext ==
  ASSUME AccountsTyped', NEW f
  PROVE  /\ Branches(f)' = Cardinality(Unread(f)') + Cardinality(Rotating(f)')
         /\ IsFiniteSet(Unread(f)') /\ IsFiniteSet(Rotating(f)')
         /\ Cardinality(Unread(f)') \in Nat /\ Cardinality(Rotating(f)') \in Nat
<1>1. PICK k \in Nat : Issued' = 1 .. k
      BY DEF AccountsTyped, ServerTyped
<1>2. IsFiniteSet(Issued')
      BY <1>1, FS_Interval
<1>3. IsFiniteSet(Unread(f)')
      BY <1>2, FS_Subset DEF Unread
<1>4. IsFiniteSet(Rotating(f)')
      BY AccountsAssumption, FS_Subset DEF Rotating
<1> QED
    BY <1>3, <1>4, FS_CardinalityType DEF Branches, Unread, Rotating

LEMMA OneElement ==
  ASSUME NEW S, NEW x, IsFiniteSet(S)
  PROVE  /\ IsFiniteSet(S \cup {x}) /\ Cardinality(S \cup {x}) <= Cardinality(S) + 1
         /\ IsFiniteSet(S \ {x}) /\ (x \in S => Cardinality(S \ {x}) = Cardinality(S) - 1)
<1>1. Cardinality(S) \in Nat
      BY FS_CardinalityType
<1>2. IsFiniteSet(S \cup {x}) /\ Cardinality(S \cup {x}) = IF x \in S THEN Cardinality(S)
                                                         ELSE Cardinality(S) + 1
      BY FS_AddElement
<1>3. IsFiniteSet(S \ {x}) /\ Cardinality(S \ {x}) = IF x \in S THEN Cardinality(S) - 1
                                                     ELSE Cardinality(S)
      BY FS_RemoveElement
<1> QED
    BY <1>1, <1>2, <1>3

NotMore(f) == ~ (Branches(f)' > Branches(f))

\* Nothing new, a token back for a rotation that ended, a rotation for a token.
LEMMA BothShrink ==
  ASSUME AccountsTyped, AccountsTyped', NEW f,
         Unread(f)' \subseteq Unread(f), Rotating(f)' \subseteq Rotating(f)
  PROVE  NotMore(f)
<1>1. /\ Cardinality(Unread(f)') <= Cardinality(Unread(f))
      /\ Cardinality(Rotating(f)') <= Cardinality(Rotating(f))
      BY BranchesAre, FS_Subset
<1> QED
    BY <1>1, BranchesAre, BranchesAreNext DEF NotMore

LEMMA TokenForRotation ==
  ASSUME AccountsTyped, AccountsTyped', NEW f, NEW n, NEW s \in Rotating(f),
         Unread(f)' \subseteq Unread(f) \cup {n}, Rotating(f)' \subseteq Rotating(f) \ {s}
  PROVE  NotMore(f)
<1> DEFINE U == Unread(f)
           R == Rotating(f)
<1>1. IsFiniteSet(U) /\ IsFiniteSet(R) /\ Cardinality(U) \in Nat /\ Cardinality(R) \in Nat
      BY BranchesAre
<1>2. IsFiniteSet(U \cup {n}) /\ Cardinality(U \cup {n}) <= Cardinality(U) + 1
      BY <1>1, OneElement
<1>3. IsFiniteSet(R \ {s}) /\ Cardinality(R \ {s}) = Cardinality(R) - 1
      BY <1>1, OneElement
<1>4. /\ Cardinality(Unread(f)') <= Cardinality(U) + 1
      /\ Cardinality(Rotating(f)') <= Cardinality(R) - 1
  <2>1. /\ Cardinality(Unread(f)') <= Cardinality(U \cup {n})
        /\ Cardinality(Rotating(f)') <= Cardinality(R \ {s})
        BY <1>2, <1>3, FS_Subset
  <2>2. Cardinality(U \cup {n}) \in Nat /\ Cardinality(Unread(f)') \in Nat
        BY <1>2, BranchesAreNext, FS_CardinalityType
  <2> HIDE DEF U, R
  <2> QED
      BY <1>1, <1>2, <1>3, <2>1, <2>2
<1> QED
    BY <1>1, <1>4, BranchesAre, BranchesAreNext DEF NotMore

LEMMA RotationForToken ==
  ASSUME AccountsTyped, AccountsTyped', NEW f, NEW n \in Unread(f), NEW s,
         Unread(f)' \subseteq Unread(f) \ {n}, Rotating(f)' \subseteq Rotating(f) \cup {s}
  PROVE  NotMore(f)
<1> DEFINE U == Unread(f)
           R == Rotating(f)
<1>1. IsFiniteSet(U) /\ IsFiniteSet(R) /\ Cardinality(U) \in Nat /\ Cardinality(R) \in Nat
      BY BranchesAre
<1>2. IsFiniteSet(R \cup {s}) /\ Cardinality(R \cup {s}) <= Cardinality(R) + 1
      BY <1>1, OneElement
<1>3. IsFiniteSet(U \ {n}) /\ Cardinality(U \ {n}) = Cardinality(U) - 1
      BY <1>1, OneElement
<1>4. /\ Cardinality(Unread(f)') <= Cardinality(U) - 1
      /\ Cardinality(Rotating(f)') <= Cardinality(R) + 1
  <2>1. /\ Cardinality(Unread(f)') <= Cardinality(U \ {n})
        /\ Cardinality(Rotating(f)') <= Cardinality(R \cup {s})
        BY <1>2, <1>3, FS_Subset
  <2>2. Cardinality(R \cup {s}) \in Nat /\ Cardinality(Rotating(f)') \in Nat
        BY <1>2, BranchesAreNext, FS_CardinalityType
  <2> HIDE DEF U, R
  <2> QED
      BY <1>1, <1>2, <1>3, <2>1, <2>2
<1> QED
    BY <1>1, <1>4, BranchesAre, BranchesAreNext DEF NotMore

\* A step that rotates nothing and issues nothing.
LEMMA SameReaders ==
  ASSUME AccountsTyped, AccountsTyped', NEW f, family' = family,
         revoked \subseteq revoked', lapsed \subseteq lapsed',
         \A u \in Exchange : /\ exchange'[u].pc = "read" <=> exchange[u].pc = "read"
                             /\ exchange[u].pc = "read" => exchange'[u].token = exchange[u].token
  PROVE  NotMore(f)
<1>1. ASSUME NEW n \in Unread(f)' PROVE n \in Unread(f)
  <2>1. n \in Issued /\ Live(n) /\ family[n] = f
        BY DEF Unread, Live, Issued
  <2>2. \A u \in Exchange : exchange[u].pc = "read" => exchange[u].token # n
    <3> SUFFICES ASSUME NEW u \in Exchange, exchange[u].pc = "read" PROVE exchange[u].token # n
        OBVIOUS
    <3>1. exchange'[u].token # n
          BY DEF Unread
    <3> QED
        BY <3>1
  <2> QED
      BY <2>1, <2>2 DEF Unread
<1>2. ASSUME NEW u \in Rotating(f)' PROVE u \in Rotating(f)
      BY DEF Rotating
<1> QED
    BY <1>1, <1>2, BothShrink

LEMMA ReadRowSessions ==
  ASSUME AccountsInv, AccountsInv', NEW s \in Exchange, ReadRow(s), NEW f
  PROVE  NotMore(f) \/ SameRowRead'
<1> DEFINE n == exchange[s].token
<1>0. AccountsTyped /\ AccountsTyped'
      BY DEF AccountsInv
<1>1. /\ exchange[s].pc = "sent" /\ UNCHANGED <<family, revoked, lapsed>>
      /\ exchange'[s].pc = IF Live(n) THEN "read" ELSE "denied"
      /\ \A u \in Exchange \ {s} : exchange'[u] = exchange[u]
      /\ \A u \in Exchange : exchange'[u].token = exchange[u].token
      BY <1>0 DEF ReadRow, serverVars, AccountsTyped, ExchangesTyped, ExchangeRow
<1>2. CASE ~Live(n)
  <2>1. \A u \in Exchange : /\ exchange'[u].pc = "read" <=> exchange[u].pc = "read"
                            /\ exchange[u].pc = "read" => exchange'[u].token = exchange[u].token
        BY <1>1, <1>2
  <2> QED
      BY <1>0, <1>1, <2>1, SameReaders
<1>3. CASE Live(n) /\ \E u \in Exchange : exchange[u].pc = "read" /\ exchange[u].token = n
      BY <1>1, <1>3 DEF SameRowRead
<1>4. CASE Live(n) /\ \A u \in Exchange : exchange[u].pc = "read" => exchange[u].token # n
  <2>1. Unread(f)' \subseteq Unread(f) \ {n} /\ Rotating(f)' \subseteq Rotating(f) \cup {s}
        BY <1>1, <1>4 DEF Unread, Rotating, Live, Issued
  <2>2. CASE family[n] = f
    <3>1. n \in Unread(f)
          BY <1>4, <2>2 DEF Unread, Live
    <3> QED
        BY <1>0, <2>1, <3>1, RotationForToken
  <2>3. CASE family[n] # f
    <3>1. Rotating(f)' \subseteq Rotating(f)
          BY <1>1, <2>3 DEF Rotating
    <3> QED
        BY <1>0, <2>1, <3>1, BothShrink
  <2> QED
      BY <2>2, <2>3
<1> QED
    BY <1>2, <1>3, <1>4

LEMMA RotateSessions ==
  ASSUME AccountsInv, AccountsInv', NEW s \in Exchange, Rotate(s), NEW f
  PROVE  NotMore(f)
<1> DEFINE k == NextToken
           n == exchange[s].token
<1>0. AccountsTyped /\ AccountsTyped'
      BY DEF AccountsInv
<1>1. /\ exchange[s].pc = "read" /\ Issue(family[n])
      /\ revoked' = revoked \cup {n} /\ lapsed' = lapsed
      /\ exchange'[s].pc = "granted"
      /\ \A u \in Exchange \ {s} : exchange'[u] = exchange[u]
      BY <1>0 DEF Rotate, AccountsTyped, ExchangesTyped, ExchangeRow
<1>2. /\ Issued' = Issued \cup {k} /\ k \notin Issued
      /\ \A i \in Issued : family'[i] = family[i]
      /\ family'[k] = family[n]
      BY <1>0, <1>1, IssueTyped DEF AccountsTyped
<1> HIDE DEF k
<1>3. /\ n \in Issued
      /\ \A u \in Exchange : exchange[u].pc = "read" => exchange[u].token \in Issued
      BY <1>0, <1>1 DEF AccountsTyped, ExchangesTyped
<1>4. Unread(f)' \subseteq Unread(f) \cup (IF family[n] = f THEN {k} ELSE {})
  <2> SUFFICES ASSUME NEW i \in Unread(f)', i # k PROVE i \in Unread(f)
      BY <1>2 DEF Unread
  <2>1. i \in Issued /\ family[i] = f /\ Live(i) /\ i # n
        BY <1>1, <1>2 DEF Unread, Live
  <2>2. \A u \in Exchange : exchange[u].pc = "read" => exchange[u].token # i
        BY <1>1, <2>1 DEF Unread
  <2> QED
      BY <2>1, <2>2 DEF Unread
<1>5. Rotating(f)' \subseteq Rotating(f) \ {s}
      BY <1>1, <1>2, <1>3 DEF Rotating
<1>6. CASE family[n] = f
  <2>1. s \in Rotating(f)
        BY <1>1, <1>6 DEF Rotating
  <2> QED
      BY <1>0, <1>4, <1>5, <2>1, TokenForRotation
<1>7. CASE family[n] # f
      BY <1>0, <1>4, <1>5, <1>7, BothShrink
<1> QED
    BY <1>6, <1>7

\* A tab that leaves may take a rotation with it that read its row.
LEMMA UnloadSessions ==
  ASSUME AccountsInv, AccountsInv', NEW t, NEW gone, Unload(t, gone), UNCHANGED serverVars, NEW f
  PROVE  NotMore(f)
<1>0. AccountsTyped /\ AccountsTyped'
      BY DEF AccountsInv
<1>1. /\ \A u \in Exchange : u # gone => exchange'[u].pc = exchange[u].pc
                                         /\ exchange'[u].token = exchange[u].token
      /\ gone \in Exchange => exchange'[gone].pc = "free"
      /\ family' = family /\ revoked' = revoked /\ lapsed' = lapsed
  <2>1. ASSUME NEW u \in Exchange, u # gone
        PROVE  exchange'[u].pc = exchange[u].pc /\ exchange'[u].token = exchange[u].token
    <3>1. exchange[u] \in ExchangeRow
          BY <1>0 DEF AccountsTyped, ExchangesTyped
    <3>2. \/ exchange'[u] = exchange[u]
          \/ exchange'[u] = [exchange[u] EXCEPT !.tab = Nobody]
          BY <2>1 DEF Unload
    <3> QED
        BY <3>1, <3>2 DEF ExchangeRow
  <2>2. gone \in Exchange => exchange'[gone].pc = "free"
        BY DEF Unload, Free
  <2> QED
      BY <2>1, <2>2 DEF serverVars
<1>2. CASE gone \in Exchange /\ exchange[gone].pc = "read"
  <2> DEFINE n == exchange[gone].token
  <2>1. ASSUME NEW i \in Unread(f)', i # n
        PROVE  i \in Unread(f)
    <3>1. i \in Issued /\ Live(i) /\ family[i] = f
          BY <1>1 DEF Unread, Live, Issued
    <3>2. ASSUME NEW u \in Exchange, exchange[u].pc = "read" PROVE exchange[u].token # i
          BY <1>1, <2>1, <3>2 DEF Unread
    <3> QED
        BY <3>1, <3>2 DEF Unread
  <2>2. Rotating(f)' \subseteq Rotating(f) \ {gone}
        BY <1>1 DEF Rotating
  <2>3. CASE family[n] = f
    <3>1. gone \in Rotating(f) /\ Unread(f)' \subseteq Unread(f) \cup {n}
          BY <1>2, <2>1, <2>3 DEF Rotating
    <3> QED
        BY <1>0, <2>2, <3>1, TokenForRotation
  <2>4. CASE family[n] # f
    <3>1. Unread(f)' \subseteq Unread(f)
          BY <1>1, <2>1, <2>4 DEF Unread
    <3> QED
        BY <1>0, <2>2, <3>1, BothShrink
  <2> QED
      BY <2>3, <2>4
<1>3. CASE ~ (gone \in Exchange /\ exchange[gone].pc = "read")
  <2>1. \A u \in Exchange : /\ exchange'[u].pc = "read" <=> exchange[u].pc = "read"
                            /\ exchange[u].pc = "read" => exchange'[u].token = exchange[u].token
        BY <1>1, <1>3
  <2> QED
      BY <1>0, <1>1, <2>1, SameReaders
<1> QED
    BY <1>2, <1>3

\* A login begins a family of its own.
LEMMA LoginSessions ==
  ASSUME AccountsInv, AccountsInv', NEW t, Login(t), NEW f \in Issued
  PROVE  NotMore(f)
<1>0. AccountsTyped /\ AccountsTyped'
      BY DEF AccountsInv
<1>1. UNCHANGED <<revoked, lapsed, exchange>>
      BY DEF Login
<1>2. CASE family' = family
      BY <1>0, <1>1, <1>2, SameReaders
<1>3. CASE family' # family
  <2> DEFINE k == NextToken
  <2>1. Issue(k)
        BY <1>3 DEF Login
  <2>2. /\ Issued' = Issued \cup {k} /\ k \notin Issued /\ family'[k] = k
        /\ \A i \in Issued : family'[i] = family[i]
        BY <1>0, <2>1, IssueTyped DEF AccountsTyped
  <2> HIDE DEF k
  <2>3. Unread(f)' \subseteq Unread(f)
    <3> SUFFICES ASSUME NEW i \in Unread(f)' PROVE i \in Unread(f)
        OBVIOUS
    <3>1. i \in Issued /\ family[i] = f /\ Live(i)
          BY <1>1, <2>2 DEF Unread, Live
    <3> QED
        BY <1>1, <3>1 DEF Unread
  <2>4. Rotating(f)' \subseteq Rotating(f)
    <3>1. \A u \in Exchange : exchange[u].pc = "read" => exchange[u].token \in Issued
          BY <1>0 DEF AccountsTyped, ExchangesTyped
    <3> QED
        BY <1>1, <2>2, <3>1 DEF Rotating
  <2> QED
      BY <1>0, <2>3, <2>4, BothShrink
<1> QED
    BY <1>2, <1>3

\* The other steps read no row and issue no token.
LEMMA RestSessions ==
  ASSUME AccountsInv, AccountsInv', NEW f,
         \/ LogoutAll \/ AccessExpires \/ \E n \in Issued : Lapse(n) \/ Logout(n)
         \/ \E s \in Exchange : Granted(s) \/ Unheard(s)
         \/ \E r \in Call : Ask(r) \/ Refresh(r) \/ Again(r)
         \/ UNCHANGED accountsVars
  PROVE  NotMore(f)
<1>0. AccountsTyped /\ AccountsTyped'
      BY DEF AccountsInv
<1>1. family' = family /\ revoked \subseteq revoked' /\ lapsed \subseteq lapsed'
      BY DEF LogoutAll, AccessExpires, Lapse, Logout, Granted, Unheard, Ask, Refresh, Again,
             serverVars, accountsVars
<1>2. \/ exchange' = exchange
      \/ \E s \in Exchange, row \in {Free} \cup {[pc |-> "sent", token |-> stored.refresh,
                                                  tab |-> t, new |-> 0] : t \in Tab} :
           exchange[s].pc # "read" /\ exchange' = [exchange EXCEPT ![s] = row]
  <2>1. ASSUME NEW s \in Exchange, Granted(s) \/ Unheard(s)
        PROVE  exchange[s].pc # "read" /\ exchange' = [exchange EXCEPT ![s] = Free]
        BY <2>1 DEF Granted, Unheard
  <2>2. ASSUME NEW r \in Call, Refresh(r), exchange' # exchange
        PROVE  \E s \in Exchange :
                 /\ exchange[s].pc = "free"
                 /\ exchange' = [exchange EXCEPT ![s] = [pc |-> "sent", token |-> stored.refresh,
                                                        tab |-> TabOf[r], new |-> 0]]
        BY <2>2 DEF Refresh
  <2>3. \A r \in Call : TabOf[r] \in Tab
        BY AccountsAssumption
  <2>4. LogoutAll \/ AccessExpires \/ (\E n \in Issued : Lapse(n) \/ Logout(n))
        \/ (\E r \in Call : Ask(r) \/ Again(r)) \/ UNCHANGED accountsVars => exchange' = exchange
        BY DEF LogoutAll, AccessExpires, Lapse, Logout, Ask, Again, accountsVars
  <2> QED
      BY <2>1, <2>2, <2>3, <2>4
<1>3. \A u \in Exchange : /\ exchange'[u].pc = "read" <=> exchange[u].pc = "read"
                          /\ exchange[u].pc = "read" => exchange'[u].token = exchange[u].token
  <2>1. CASE exchange' = exchange
        BY <2>1
  <2>2. ASSUME NEW s \in Exchange, NEW row, row.pc # "read", exchange[s].pc # "read",
               exchange' = [exchange EXCEPT ![s] = row]
        PROVE  \A u \in Exchange : \/ exchange'[u] = exchange[u]
                                   \/ exchange'[u].pc # "read" /\ exchange[u].pc # "read"
        BY <1>0, <2>2 DEF AccountsTyped, ExchangesTyped
  <2>3. Free.pc # "read"
        BY DEF Free
  <2>4. \A t : [pc |-> "sent", token |-> stored.refresh, tab |-> t, new |-> 0].pc # "read"
        OBVIOUS
  <2> QED
      BY <1>2, <2>1, <2>2, <2>3, <2>4
<1> QED
    BY <1>0, <1>1, <1>3, SameReaders

\* The sessions of a login multiply in a single way, for every number of tabs,
\* calls, refreshes and tokens: two rotations have read one row.
THEOREM SessionsDoNotMultiplyHolds == AccountsSpec => SessionsDoNotMultiply
<1> DEFINE Act == \A f \in Issued : Branches(f)' > Branches(f) => SameRowRead'
<1>1. AccountsInv /\ AccountsInv' /\ [AccountsNext]_accountsVars => [Act]_accountsVars
  <2> SUFFICES ASSUME AccountsInv, AccountsInv', AccountsNext, NEW f \in Issued
               PROVE  NotMore(f) \/ SameRowRead'
      BY DEF NotMore
  <2>1. ASSUME NEW t \in Tab, SignOut(t) PROVE NotMore(f)
        BY <2>1, UnloadSessions DEF SignOut, Expel
  <2>2. ASSUME NEW r \in Call, GiveUp(r) \/ Final(r) PROVE NotMore(f)
        BY <2>2, UnloadSessions DEF GiveUp, Final, Expel
  <2>3. ASSUME NEW s \in Exchange, Denied(s) \/ Lose(s) PROVE NotMore(f)
        BY <2>3, UnloadSessions DEF Denied, Lose, Expel
  <2> QED
      BY <2>1, <2>2, <2>3, ReadRowSessions, RotateSessions, LoginSessions, RestSessions
         DEF AccountsNext
<1> QED
    BY <1>1, AccountsInvHolds, PTL DEF AccountsSpec, SessionsDoNotMultiply
=============================================================================

------------------------------ MODULE Memories ------------------------------
(***************************************************************************)
(* The memory store (memory/service.py) and the promotion of lessons into   *)
(* the layer all projects share (memory/global_memory.py).  Similarity is   *)
(* left open: a recall returns any top_k of the rows in its scope.  A       *)
(* promotion pass is one transaction; it reads its candidates first, awaits *)
(* a model call for each, and writes whole meta columns: those that are     *)
(* dirty when it inserts a copy, and the rest when it commits.              *)
(***************************************************************************)
EXTENDS Naturals, FiniteSets

CONSTANTS
  Project,
  Shared,         \* project_id IS NULL
  Pass,           \* promotion passes open at once
  MinAccess,      \* candidates: min_access
  MaxPromotions,  \* promote_project: max_promotions
  TopK,           \* settings.memory_top_k
  KeepTop,        \* prune: keep_top
  MaxRows         \* bound: memories stored in all

ASSUME MemoriesAssumption ==
  /\ Shared \notin Project
  /\ {MinAccess, MaxPromotions, TopK, KeepTop, MaxRows} \subseteq Nat

VARIABLES
  memory,   \* memory_records: id -> project, portable, access_count, meta
  pass,     \* open promotion passes
  copies,   \* history: promotions of a memory that were committed
  raced,    \* history: memories two open passes had as a candidate at once
  ids       \* given out so far

memoryVars == <<memory, pass, copies, raced, ids>>

Id == 1 .. MaxRows
Kept == DOMAIN memory
\* portable: of a promotable kind and of importance 0.6 or more.
Lesson(project, portable) ==
  [project |-> project, portable |-> portable, access |-> 0, meta |-> "plain"]
\* What a pass read and judged, the candidates it loaded as checked already, and
\* the rows its session has not flushed yet.
Closed == [project |-> Shared, left |-> {}, promote |-> {}, reject |-> {},
           again |-> {}, dirty |-> {}]
Written(a) == pass[a].promote \cup pass[a].reject
\* A row a pass has flushed is locked until the pass ends.
Locked(r) == \E a \in Pass : r \in Written(a) \ pass[a].dirty

MemoriesInit ==
  /\ memory = [r \in {} |-> Lesson(Shared, FALSE)]
  /\ pass = [a \in Pass |-> Closed]
  /\ copies = [r \in Id |-> 0] /\ raced = {} /\ ids = 0

\* remember
Remember(project, portable) ==
  /\ ids < MaxRows /\ ids' = ids + 1
  /\ memory' = [r \in Kept \cup {ids'} |->
                  IF r = ids' THEN Lesson(project, portable) ELSE memory[r]]
  /\ UNCHANGED <<pass, copies, raced>>

\* recall: a project's memories and the shared ones; without a project, all.
Scope(project) ==
  IF project = Shared THEN Kept
  ELSE {r \in Kept : memory[r].project \in {project, Shared}}

\* recall: the UPDATE of the access counters is atomic; counts above MinAccess
\* are not told apart.
Recall(project, hits) ==
  /\ hits # {} /\ hits \subseteq Scope(project) /\ \A r \in hits : ~Locked(r)
  /\ Cardinality(hits) = TopK \/ (Cardinality(hits) < TopK /\ hits = Scope(project))
  /\ memory' = [r \in Kept |-> IF r \in hits /\ memory[r].access < MinAccess
                               THEN [memory[r] EXCEPT !.access = @ + 1] ELSE memory[r]]
  /\ UNCHANGED <<pass, copies, raced, ids>>

\* prune: the ranking by value is left open.
Prune(gone) ==
  /\ gone # {} /\ gone \subseteq Kept /\ Cardinality(Kept \ gone) = KeepTop
  /\ \A r \in gone : ~Locked(r)
  /\ memory' = [r \in Kept \ gone |-> memory[r]]
  /\ UNCHANGED <<pass, copies, raced, ids>>

\* Mutant: memories that were promoted are candidates again.
AllCandidates(project) ==
  {r \in Kept : /\ memory[r].project = project /\ memory[r].portable
                /\ memory[r].access >= MinAccess}

\* candidates
Candidates(project) ==
  {r \in Kept : /\ memory[r].project = project /\ memory[r].portable
                /\ memory[r].access >= MinAccess /\ memory[r].meta # "promoted"}

\* promote_project: the candidates are read.
PassBegin(a, project) ==
  /\ pass[a] = Closed /\ Candidates(project) # {}
  /\ pass' = [pass EXCEPT ![a] = [Closed EXCEPT !.project = project, !.left = Candidates(project),
                     !.again = {r \in Candidates(project) : memory[r].meta = "checked"}]]
  /\ raced' = raced \cup {r \in Candidates(project) : \E b \in Pass : b # a /\
                 r \in pass[b].left \cup pass[b].promote \cup pass[b].reject}
  /\ UNCHANGED <<memory, copies, ids>>

\* A flush of the rows D waits for those that others have locked.  The number of
\* rows it finds is checked only when it is a single one: several go out in one
\* executemany, and asyncpg does not count those.
Lands(D) ==
  /\ \A r \in D : ~Locked(r)
  /\ \A r \in D : D = {r} => r \in Kept

\* The generalizer raises, says no (a meta that stays the same is not written
\* again), or rewrites the lesson; remember then flushes the copy and what is
\* dirty, before the lesson itself is marked.
Judge(a, r) ==
  LET judged == [pass[a] EXCEPT !.left = @ \ {r}]
  IN  /\ r \in pass[a].left /\ Cardinality(pass[a].promote) < MaxPromotions
      /\ \/ pass' = [pass EXCEPT ![a] = judged]
         \/ /\ r \notin pass[a].again
            /\ pass' = [pass EXCEPT ![a] = [judged EXCEPT !.reject = @ \cup {r},
                                                          !.dirty = @ \cup {r}]]
         \/ /\ Lands(pass[a].dirty)
            /\ pass' = [pass EXCEPT ![a] = [judged EXCEPT !.promote = @ \cup {r},
                                                          !.dirty = {r}]]
      /\ UNCHANGED <<memory, copies, raced, ids>>

Judged(a) == pass[a] # Closed /\
  (pass[a].left = {} \/ Cardinality(pass[a].promote) = MaxPromotions)

\* The rows a pass writes: the copies, and the meta of what it judged and is still
\* there, computed from the meta of a candidate.
PassRows(a) ==
  LET new == ids + 1 .. ids + Cardinality(pass[a].promote)  IN
  [r \in Kept \cup new |->
     IF r \in new THEN Lesson(Shared, TRUE)
     ELSE IF r \in Written(a)
          THEN [memory[r] EXCEPT !.meta = IF r \in pass[a].promote THEN "promoted" ELSE "checked"]
          ELSE memory[r]]

\* The pass flushes the rest and commits: a copy of a lesson that was pruned
\* meanwhile is kept if the flush that marks it has a second row.
PassCommit(a) ==
  /\ Judged(a) /\ Lands(pass[a].dirty)
  /\ ids + Cardinality(pass[a].promote) <= MaxRows
  /\ memory' = PassRows(a) /\ ids' = ids + Cardinality(pass[a].promote)
  /\ copies' = [r \in Id |-> IF r \in pass[a].promote THEN copies[r] + 1 ELSE copies[r]]
  /\ pass' = [pass EXCEPT ![a] = Closed]
  /\ UNCHANGED raced

\* A flush or the commit fails, always when it updates a single row that is gone
\* (StaleDataError), and the pass rolls back.
PassFails(a) ==
  /\ pass[a] # Closed /\ pass' = [pass EXCEPT ![a] = Closed]
  /\ UNCHANGED <<memory, copies, raced, ids>>

MemoriesNext ==
  \/ \E p \in Project, portable \in BOOLEAN : Remember(p, portable)
  \/ \E p \in Project \cup {Shared}, hits \in SUBSET Kept : Recall(p, hits)
  \/ \E gone \in SUBSET Kept : Prune(gone)
  \/ \E a \in Pass : \/ \E p \in Project : PassBegin(a, p)
                     \/ \E r \in Id : Judge(a, r)
                     \/ PassCommit(a) \/ PassFails(a)

MemoriesSpec == MemoriesInit /\ [][MemoriesNext]_memoryVars

----------------------------------------------------------------------------
\* A lesson enters the shared layer once, and is marked promoted exactly when it
\* has, as long as no two passes judge it at the same time.
PromotedOnce ==
  \A r \in Id \ raced :
    copies[r] <= 1 /\ (r \in Kept => (memory[r].meta = "promoted" <=> copies[r] = 1))
=============================================================================

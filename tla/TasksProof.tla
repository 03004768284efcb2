----------------------------- MODULE TasksProof -----------------------------
(***************************************************************************)
(* Proofs about Groups and Mux.                                            *)
(*                                                                         *)
(* Groups, for any finite set of children: the word counts them, one of    *)
(* them at most resumes the parent, and a parent that goes on has none     *)
(* left.                                                                   *)
(*                                                                         *)
(* Mux and select, for any number of slots, in the behaviours of MCTasks   *)
(* that use them: one child at most wakes the parent, with a result in the *)
(* word, and each result is taken once.                                    *)
(***************************************************************************)
EXTENDS MCTasks, FiniteSetTheorems, TLAPS, WellFoundedInduction

-----------------------------------------------------------------------------
(* Groups: the inductive invariant.  CountMatches alone is not inductive:   *)
(* that the child that reads a word of zero is the only one left, and the   *)
(* parent asleep, needs to know where the parent is for each form.          *)

\* Who is asleep or being set up has nobody to tell.
LinksOfWorkers ==
  \A k \in Kids :
    /\ kid[k] = "idle" => link[k] = "none"
    /\ kid[k] \in {"resuming", "held"} => link[k] # "none"

\* A frame is gone before its child tells anybody.
FramesOfWorkers == \A k \in frames : kid[k] \notin {"idle", "arriving", "resuming"}

\* Children are linked to the awaitable that the parent has.
LinksFitForm ==
  \A k \in Kids :
    /\ link[k] = "count" => form \in {"counted", "group", "waitable"}
    /\ link[k] = "direct" => form = "direct" /\ \A o \in Kids \ {k} : link[o] = "none"

NobodyLinked == \A k \in Kids : link[k] = "none"

\* A child that resumes the parent is the last.
ResumerIsLast ==
  \A k \in Kids : kid[k] = "resuming" => \A o \in Kids \ {k} : link[o] = "none"

\* A thread that still posts and will not block has been told already.
Released == parent \in {"ready", "queued", "ended"} \/ (parent = "posting" /\ then = "ready")
ReleasedByAll == Released => NobodyLinked

\* Where the parent can be with each form.
PlacesFitForm ==
  /\ parent = "posting" =>
       \/ form = "counted" /\ then \in {"suspending", "forked"}
       \/ form \in {"waitable", "direct"} /\ cont /\ then \in {"waiting", "ready"}
       \/ form = "detached" /\ then = "ready"
  /\ parent \in {"forked", "suspending"} => form \in {"counted", "group"}
  /\ parent = "waiting" => cont /\ form \in {"counted", "group", "waitable", "direct"}
  /\ parent = "queued" => form # "none"
  /\ parent = "ended" => form = "none"

\* The child that the parent will transfer to has not started.
HeldBack ==
  /\ form = "group" => symmetric = NoKid
  /\ form = "counted" /\ parent \in {"posting", "forked", "suspending"} /\ symmetric # NoKid =>
       kid[symmetric] = "held" /\ link[symmetric] = "count"

ResumerFindsSleeper ==
  \A k \in Kids : kid[k] = "resuming" => parent = "waiting" \/ (parent = "posting" /\ then = "waiting")

IInv ==
  /\ TypeOK
  /\ LinksOfWorkers /\ FramesOfWorkers /\ LinksFitForm
  /\ ResumerIsLast /\ ReleasedByAll /\ PlacesFitForm /\ HeldBack /\ ResumerFindsSleeper
  /\ CountMatches

USE KidsAssumption

LEMMA PendingFinite == IsFiniteSet(Pending) /\ Cardinality(Pending) \in Nat
BY FS_Subset, FS_CardinalityType DEF Pending

\* Where nobody is linked nobody is pending.
LEMMA NobodyPending == ASSUME NobodyLinked PROVE Pending = {} /\ Cardinality(Pending) = 0
BY FS_EmptySet DEF NobodyLinked, Pending

LEMMA InitIInv == Init => IInv
<1> SUFFICES ASSUME Init PROVE IInv
  OBVIOUS
<1>1. TypeOK
  <2>1. kid \in [Kids -> KidPlaces] /\ link \in [Kids -> {"none", "count", "direct"}]
    BY DEF Init, KidPlaces
  <2>2. cont \in BOOLEAN /\ frames \subseteq Kids
    BY DEF Init
  <2> QED BY <2>1, <2>2 DEF Init, TypeOK, ParentPlaces
<1>2. LinksOfWorkers /\ FramesOfWorkers /\ LinksFitForm /\ ResumerIsLast
  BY DEF Init, LinksOfWorkers, FramesOfWorkers, LinksFitForm, ResumerIsLast
<1>3. ReleasedByAll /\ PlacesFitForm /\ HeldBack /\ ResumerFindsSleeper /\ CountMatches
  BY DEF Init, ReleasedByAll, NobodyLinked, PlacesFitForm, HeldBack, ResumerFindsSleeper, CountMatches
<1> QED BY <1>1, <1>2, <1>3 DEF IInv

-----------------------------------------------------------------------------
(* Starting children.                                                       *)

\* Every submission of new children, by a parent that had none.
LEMMA BeginStep ==
  ASSUME IInv, Ready,
         NEW items \in SUBSET Idle, NEW awaitables \in SUBSET Idle, NEW held \in Held(items),
         items \cap awaitables = {},
         NEW l, NEW f, NEW next,
         Begin(items, awaitables, held, l, f, next),
         done_count' \in Int,
         \/ /\ l = "count" /\ f = "counted" /\ next \in {"suspending", "forked"}
            /\ next = "forked" => held = NoKid
            /\ done_count' = StartCount(items, awaitables, held)
         \/ l = "none" /\ f = "detached" /\ next = "ready" /\ held = NoKid
         \/ /\ l = "count" /\ f = "waitable" /\ next = "waiting" /\ held = NoKid
            /\ done_count' = Cardinality(items \cup awaitables) - 1
         \/ /\ l = "direct" /\ f = "direct" /\ next = "waiting" /\ held = NoKid
            /\ \E k \in Kids : items \cup awaitables = {k}
  PROVE  IInv'
<1> DEFINE new == items \cup awaitables
<1>1. new \subseteq Kids /\ (held # NoKid => held \in new)
  BY DEF Idle, Held
<1>2. \A k \in Kids : /\ link[k] = "none" /\ kid[k] \notin {"resuming", "held"}
                      /\ k \in new => kid[k] = "idle" /\ k \notin frames
  BY <1>1 DEF IInv, Ready, ReleasedByAll, Released, NobodyLinked, LinksOfWorkers, FramesOfWorkers, Idle
<1>3. \A k \in Kids : /\ link'[k] = IF k \in new THEN l ELSE "none"
                      /\ k \in new => kid'[k] \in {"held", "made", "late"}
                      /\ k \notin new => kid'[k] = kid[k]
                      /\ kid'[k] = "held" => k = held
                      /\ kid'[k] # "resuming"
                      /\ k = held => kid'[k] = "held"
  <2> SUFFICES ASSUME NEW k \in Kids
               PROVE  /\ link'[k] = IF k \in new THEN l ELSE "none"
                      /\ kid'[k] = IF k = held THEN "held"
                                   ELSE IF k \in items THEN "made"
                                   ELSE IF k \in awaitables THEN "late" ELSE kid[k]
    BY <1>1, <1>2
  <2>1. link'[k] = IF k \in new THEN l ELSE "none"
    BY <1>2 DEF Begin
  <2>2. kid'[k] = CASE k = held -> "held"
                    [] k \in items \ {held} -> "made"
                    [] k \in awaitables -> "late"
                    [] OTHER -> kid[k]
    BY DEF Begin
  <2>3. held \notin awaitables
    BY DEF Held, Idle
  <2>4. CASE k = held
    BY <2>1, <2>2, <2>3, <2>4
  <2>5. CASE k \in items \ {held}
    BY <2>1, <2>2, <2>5
  <2>6. CASE k \in awaitables
    BY <2>1, <2>2, <2>3, <2>6
  <2>7. CASE k # held /\ k \notin new
    BY <2>1, <2>2, <2>7
  <2> QED BY <2>4, <2>5, <2>6, <2>7
<1>4. TypeOK'
  <2>1. kid' \in [Kids -> KidPlaces]
    BY <1>1, <1>2, <1>3 DEF Begin, IInv, TypeOK, KidPlaces
  <2>2. link' \in [Kids -> {"none", "count", "direct"}]
    BY <1>1 DEF Begin, IInv, TypeOK
  <2>3. frames' \subseteq Kids
    BY <1>1 DEF Begin, IInv, TypeOK
  <2> QED BY <2>1, <2>2, <2>3, <1>1 DEF Begin, TypeOK, ParentPlaces
<1>5. LinksOfWorkers'
  BY <1>2, <1>3 DEF LinksOfWorkers, IInv
<1>6. FramesOfWorkers'
  BY <1>1, <1>2, <1>3 DEF FramesOfWorkers, IInv, Begin, TypeOK
<1>7. LinksFitForm'
  BY <1>3 DEF LinksFitForm, Begin
<1>8. ResumerIsLast' /\ ResumerFindsSleeper'
  BY <1>3 DEF ResumerIsLast, ResumerFindsSleeper
<1>9. ReleasedByAll' /\ PlacesFitForm'
  BY <1>3 DEF ReleasedByAll, Released, NobodyLinked, PlacesFitForm, Begin
<1>10. HeldBack'
  BY <1>1, <1>3 DEF HeldBack, Begin
<1>11. CountMatches'
  <2>1. CASE l = "count"
    <3>1. Pending' = new
      BY <1>1, <1>3, <2>1 DEF Pending
    <3> QED BY <3>1 DEF CountMatches, ParentCounts, StartCount, Begin
  <2>2. CASE l # "count"
    BY <2>2 DEF CountMatches, Begin
  <2> QED BY <2>1, <2>2
<1> QED BY <1>4, <1>5, <1>6, <1>7, <1>8, <1>9, <1>10, <1>11 DEF IInv

LEMMA CountStep ==
  ASSUME IInv, Ready,
         NEW items \in SUBSET Idle, NEW awaitables \in SUBSET Idle, NEW held \in Held(items),
         items \cap awaitables = {},
         NEW next \in {"suspending", "forked"}, next = "forked" => held = NoKid,
         Count(items, awaitables, held, next)
  PROVE  IInv'
<1>1. items \cup awaitables \subseteq Kids
  BY DEF Idle
<1>2. Cardinality(items \cup awaitables) \in Nat
  BY <1>1, FS_Subset, FS_CardinalityType
<1>3. Begin(items, awaitables, held, "count", "counted", next) /\ done_count' = StartCount(items, awaitables, held)
  BY DEF Count
<1>4. done_count' \in Int
  BY <1>2, <1>3 DEF StartCount
<1> QED BY <1>3, <1>4, BeginStep

\* A child that has the parent's handle.
LEMMA DirectStep ==
  ASSUME IInv, NEW k \in Idle, NEW place \in {"running", "posted"}, Direct(k, place),
         frames' \in {frames, frames \cup {k}}
  PROVE  IInv'
<1>1. k \in Kids /\ kid[k] = "idle" /\ Ready
  BY DEF Idle, Direct
<1>2. \A o \in Kids : link[o] = "none" /\ kid[o] \notin {"resuming", "held"}
  BY <1>1 DEF IInv, Ready, ReleasedByAll, Released, NobodyLinked, LinksOfWorkers
<1>3. TypeOK'
  BY <1>1 DEF Direct, IInv, TypeOK, ParentPlaces, KidPlaces
<1>4. \A o \in Kids : /\ link'[o] = IF o = k THEN "direct" ELSE "none"
                      /\ kid'[o] = IF o = k THEN place ELSE kid[o]
  BY <1>1, <1>2 DEF Direct, IInv, TypeOK
<1>5. LinksOfWorkers' /\ LinksFitForm'
  BY <1>2, <1>4 DEF LinksOfWorkers, LinksFitForm, Direct, IInv
<1>6. FramesOfWorkers'
  BY <1>1, <1>4 DEF FramesOfWorkers, IInv, TypeOK
<1>7. ResumerIsLast' /\ ResumerFindsSleeper' /\ ReleasedByAll' /\ PlacesFitForm' /\ HeldBack' /\ CountMatches'
  BY <1>2, <1>4 DEF ResumerIsLast, ResumerFindsSleeper, ReleasedByAll, Released, PlacesFitForm,
     HeldBack, CountMatches, Direct
<1> QED BY <1>3, <1>5, <1>6, <1>7 DEF IInv

-----------------------------------------------------------------------------
(* The other steps of the parent.                                           *)

LEMMA StartStep == ASSUME IInv, Start PROVE IInv'
<1> USE DEF Held
<1>1. ASSUME NEW s \in SUBSET Idle, SpawnMany(s) PROVE IInv'
  BY <1>1, CountStep DEF SpawnMany
<1>2. ASSUME NEW s \in SUBSET Idle, SpawnManyFork(s) PROVE IInv'
  BY <1>2, CountStep DEF SpawnManyFork
<1>3. ASSUME NEW s \in SUBSET Idle, SpawnRange(s) PROVE IInv'
  <2>1. PICK some \in SUBSET s : \/ \E h \in Held(some) : Count(some, {}, h, "suspending")
                                 \/ Count(some, {}, NoKid, "forked")
    BY <1>3 DEF SpawnRange, Taken
  <2> QED BY <1>3, <2>1, CountStep DEF SpawnRange
<1>4. ASSUME NEW s \in SUBSET Idle, NEW t \in SUBSET (Idle \ s), SpawnTuple(s, t) PROVE IInv'
  BY <1>4, CountStep DEF SpawnTuple
<1>5. ASSUME NEW s \in SUBSET Idle, NEW t \in SUBSET (Idle \ s), ForkTuple(s, t) PROVE IInv'
  BY <1>5, CountStep DEF ForkTuple
<1>6. ASSUME NEW s \in SUBSET Idle, NEW t \in SUBSET (Idle \ s), DetachTuple(s, t) PROVE IInv'
  BY <1>6, BeginStep DEF DetachTuple, IInv, TypeOK
<1>7. ASSUME NEW s \in SUBSET Idle, Detach(s) PROVE IInv'
  BY <1>7, <1>6 DEF Detach
<1>8. ASSUME NEW s \in SUBSET Idle, PostBulkWaitable(s) \/ PostBulkWaitableFuncs(s) PROVE IInv'
  <2>1. Cardinality(s) \in Nat
    BY FS_Subset, FS_CardinalityType DEF Idle
  <2>2. done_count' = Cardinality(s) - 1 /\ s \cup {} = s /\ {} \cup s = s
    BY <1>8 DEF PostBulkWaitable, PostBulkWaitableFuncs, WaitableCount
  <2> QED BY <1>8, <2>1, <2>2, BeginStep DEF PostBulkWaitable, PostBulkWaitableFuncs
<1>9. ASSUME NEW k \in Idle, ForkOne(k) \/ ForkFunc(k) PROVE IInv'
  BY <1>9, CountStep DEF ForkOne, ForkFunc
<1>10. ASSUME NEW k \in Idle, AwaitTask(k) \/ AwaitSpawn(k) \/ AwaitFunc(k) PROVE IInv'
  BY <1>10, DirectStep DEF AwaitTask, AwaitSpawn, AwaitFunc
<1>11. ASSUME NEW k \in Idle, DetachOne(k) \/ DetachFunc(k) \/ Post(k) PROVE IInv'
  BY <1>11, <1>7 DEF DetachOne, DetachFunc, Post
<1>12. ASSUME NEW k \in Idle, PostWaitable(k) PROVE IInv'
  <2>1. {k} \cup {} = {k} /\ {} \cup {k} = {k} /\ k \in Kids
    BY DEF Idle
  <2> QED BY <1>12, <2>1, BeginStep DEF PostWaitable, IInv, TypeOK
<1>13. ASSUME NEW k \in Idle, GroupFork(k) PROVE IInv'
  <2>1. k \in Kids /\ kid[k] = "idle" /\ link[k] = "none" /\ k \notin Pending
    BY DEF Idle, IInv, LinksOfWorkers, Pending
  <2>2. \A o \in Kids : kid[o] # "resuming"
    BY <1>13 DEF GroupFork, IInv, ResumerFindsSleeper
  <2>3. \A o \in Kids : /\ link'[o] = IF o = k THEN "count" ELSE link[o]
                        /\ kid'[o] = IF o = k THEN "posted" ELSE kid[o]
    BY <1>13, <2>1 DEF GroupFork, IInv, TypeOK
  <2>4. TypeOK'
    BY <1>13, <2>1 DEF GroupFork, IInv, TypeOK, KidPlaces
  <2>5. LinksOfWorkers' /\ LinksFitForm'
    BY <1>13, <2>3 DEF GroupFork, IInv, LinksOfWorkers, LinksFitForm
  <2>6. FramesOfWorkers'
    BY <1>13, <2>1, <2>3 DEF GroupFork, IInv, FramesOfWorkers, TypeOK
  <2>7. ResumerIsLast' /\ ResumerFindsSleeper' /\ ReleasedByAll' /\ PlacesFitForm' /\ HeldBack'
    BY <1>13, <2>2, <2>3 DEF GroupFork, IInv, ResumerIsLast, ResumerFindsSleeper, ReleasedByAll,
       Released, PlacesFitForm, HeldBack
  <2>8. CountMatches'
    <3>1. Pending' = Pending \cup {k}
      BY <2>1, <2>3 DEF Pending
    <3>2. Cardinality(Pending') = Cardinality(Pending) + 1
      BY <2>1, <3>1, PendingFinite, FS_AddElement
    <3> QED BY <1>13, <3>2, PendingFinite DEF GroupFork, IInv, CountMatches, ParentCounts, TypeOK, HeldBack
  <2> QED BY <2>4, <2>5, <2>6, <2>7, <2>8 DEF IInv
<1>14. ASSUME OpenGroup PROVE IInv'
  <2>1. NobodyLinked
    BY <1>14 DEF OpenGroup, Ready, IInv, ReleasedByAll, Released
  <2>2. NobodyLinked' /\ Pending' = Pending
    BY <1>14, <2>1 DEF OpenGroup, NobodyLinked, Pending
  <2>3. TypeOK'
    <3>1. cont' \in BOOLEAN
      BY <1>14 DEF OpenGroup
    <3> QED BY <1>14, <3>1 DEF OpenGroup, IInv, TypeOK, ParentPlaces
  <2>4. CountMatches'
    BY <1>14, <2>1, <2>2, NobodyPending DEF OpenGroup, CountMatches, ParentCounts
  <2>5. LinksOfWorkers' /\ FramesOfWorkers' /\ LinksFitForm' /\ ResumerIsLast' /\ ResumerFindsSleeper'
    BY <1>14, <2>1, <2>2 DEF OpenGroup, IInv, LinksOfWorkers, FramesOfWorkers, LinksFitForm,
       ResumerIsLast, ResumerFindsSleeper, NobodyLinked
  <2> QED BY <1>14, <2>2, <2>3, <2>4, <2>5 DEF OpenGroup, IInv, ReleasedByAll, PlacesFitForm, HeldBack
<1>15. ASSUME GroupReset PROVE IInv'
  <2>1. \A k \in Kids : kid[k] # "resuming"
    BY <1>15 DEF GroupReset, IInv, ResumerFindsSleeper
  <2>2. TypeOK'
    BY <1>15 DEF GroupReset, IInv, TypeOK, ParentPlaces
  <2>3. CountMatches'
    <3>1. Pending' = {}
      BY <1>15 DEF GroupReset, Pending
    <3> QED BY <1>15, <3>1, FS_EmptySet DEF GroupReset, IInv, CountMatches, ParentCounts, HeldBack
  <2>4. LinksOfWorkers' /\ FramesOfWorkers' /\ LinksFitForm' /\ ResumerIsLast' /\ ResumerFindsSleeper'
    BY <1>15, <2>1 DEF GroupReset, IInv, LinksOfWorkers, FramesOfWorkers, LinksFitForm,
       ResumerIsLast, ResumerFindsSleeper
  <2> QED BY <1>15, <2>2, <2>3, <2>4 DEF GroupReset, IInv, ReleasedByAll, Released, PlacesFitForm, HeldBack
<1>16. ASSUME End PROVE IInv'
  <2>1. TypeOK'
    BY <1>16 DEF End, IInv, TypeOK, ParentPlaces
  <2>2. LinksOfWorkers' /\ FramesOfWorkers' /\ LinksFitForm' /\ ResumerIsLast' /\ ResumerFindsSleeper'
    BY <1>16 DEF End, Ready, IInv, LinksOfWorkers, FramesOfWorkers, LinksFitForm,
       ResumerIsLast, ResumerFindsSleeper
  <2> QED BY <1>16, <2>1, <2>2 DEF End, Ready, IInv, ReleasedByAll, Released, NobodyLinked, PlacesFitForm,
       HeldBack, CountMatches
<1> QED BY <1>1, <1>2, <1>3, <1>4, <1>5, <1>6, <1>7, <1>8, <1>9, <1>10, <1>11, <1>12, <1>13, <1>14, <1>15,
     <1>16 DEF Start, SpawnGroup, PostBulk

LEMMA ParentStepKeeps == ASSUME IInv, ParentStep \/ Await PROVE IInv'
<1>1. CASE PostNext
  <2>1. PICK k \in Kids : kid[k] \in {"made", "late"} /\ kid' = [kid EXCEPT ![k] = "posted"]
    BY <1>1 DEF PostNext
  <2>2. \A o \in Kids : kid'[o] = IF o = k THEN "posted" ELSE kid[o]
    BY <2>1 DEF IInv, TypeOK
  <2>3. TypeOK'
    BY <1>1, <2>1 DEF PostNext, IInv, TypeOK, KidPlaces
  <2>4. LinksOfWorkers' /\ LinksFitForm' /\ ResumerIsLast' /\ ResumerFindsSleeper'
    BY <1>1, <2>1, <2>2 DEF PostNext, IInv, LinksOfWorkers, LinksFitForm, ResumerIsLast, ResumerFindsSleeper
  <2>5. FramesOfWorkers'
    BY <1>1, <2>1, <2>2 DEF PostNext, IInv, FramesOfWorkers, TypeOK
  <2>6. ReleasedByAll' /\ PlacesFitForm' /\ HeldBack'
    BY <1>1, <2>1, <2>2 DEF PostNext, IInv, ReleasedByAll, Released, NobodyLinked, PlacesFitForm, HeldBack, TypeOK
  <2>7. CountMatches'
    <3>1. Pending' = Pending
      BY <1>1, <2>1, <2>2 DEF PostNext, Pending
    <3> QED BY <1>1, <3>1 DEF PostNext, IInv, CountMatches, ParentCounts
  <2> QED BY <2>3, <2>4, <2>5, <2>6, <2>7 DEF IInv
<1> DEFINE Still == UNCHANGED <<kid, link, frames>>
<1>2. ASSUME Still, TypeOK', ResumerFindsSleeper', ReleasedByAll', PlacesFitForm', HeldBack',
             LinksFitForm', CountMatches'
      PROVE  IInv'
  BY <1>2 DEF IInv, LinksOfWorkers, FramesOfWorkers, ResumerIsLast
<1>3. Still => Pending' = Pending
  BY DEF Pending
<1>4. CASE Posted
  <2>1. \A k \in Kids : kid[k] = "resuming" => then = "waiting"
    BY <1>4 DEF Posted, IInv, ResumerFindsSleeper
  <2>2. TypeOK' /\ Still
    BY <1>4 DEF Posted, IInv, TypeOK
  <2>3. ResumerFindsSleeper'
    BY <1>4, <2>1 DEF Posted, ResumerFindsSleeper
  <2>4. PlacesFitForm'
    BY <1>4 DEF Posted, IInv, PlacesFitForm
  <2>5. ReleasedByAll' /\ LinksFitForm'
    BY <1>4 DEF Posted, IInv, ReleasedByAll, Released, NobodyLinked, LinksFitForm, PlacesFitForm
  <2>6. HeldBack'
    BY <1>4 DEF Posted, IInv, HeldBack, PlacesFitForm
  <2>7. CountMatches'
    BY <1>3, <1>4, <2>2 DEF Posted, IInv, CountMatches, ParentCounts, PlacesFitForm
  <2> QED BY <1>2, <2>2, <2>3, <2>4, <2>5, <2>6, <2>7
<1>5. CASE Await \/ Suspend
  <2>1. TypeOK' /\ Still
    BY <1>5 DEF Await, Suspend, IInv, TypeOK, ParentPlaces
  <2>2. CountMatches'
    BY <1>3, <1>5, <2>1 DEF Await, Suspend, IInv, CountMatches, ParentCounts
  <2> QED
    BY <1>2, <1>5, <2>1, <2>2 DEF Await, Suspend, IInv, ResumerFindsSleeper, ReleasedByAll, Released,
       NobodyLinked, LinksFitForm, PlacesFitForm, HeldBack
<1>6. CASE Transfer
  <2>1. symmetric \in Kids /\ kid[symmetric] = "held" /\ link[symmetric] = "count"
    BY <1>6 DEF Transfer, IInv, HeldBack, PlacesFitForm, TypeOK
  <2>2. \A o \in Kids : kid'[o] = IF o = symmetric THEN "running" ELSE kid[o]
    BY <1>6, <2>1 DEF Transfer, IInv, TypeOK
  <2>3. TypeOK'
    BY <1>6, <2>1 DEF Transfer, IInv, TypeOK, ParentPlaces, KidPlaces
  <2>4. LinksOfWorkers' /\ LinksFitForm' /\ ResumerIsLast' /\ ResumerFindsSleeper'
    BY <1>6, <2>1, <2>2 DEF Transfer, IInv, LinksOfWorkers, LinksFitForm, ResumerIsLast, ResumerFindsSleeper
  <2>5. FramesOfWorkers'
    BY <1>6, <2>1, <2>2 DEF Transfer, IInv, FramesOfWorkers, TypeOK
  <2>6. ReleasedByAll' /\ PlacesFitForm' /\ HeldBack'
    BY <1>6 DEF Transfer, IInv, ReleasedByAll, Released, PlacesFitForm, HeldBack
  <2>7. CountMatches'
    <3>1. Pending' = Pending
      BY <1>6, <2>1, <2>2 DEF Transfer, Pending
    <3> QED BY <1>6, <3>1 DEF Transfer, IInv, CountMatches, ParentCounts
  <2> QED BY <2>3, <2>4, <2>5, <2>6, <2>7 DEF IInv
<1>7. CASE Subtract
  <2>1. ParentCounts /\ form \in {"counted", "group"} /\ done_count = Cardinality(Pending)
    BY <1>7, PendingFinite DEF Subtract, IInv, ParentCounts, CountMatches, PlacesFitForm
  <2>2. TypeOK' /\ Still
    BY <1>7 DEF Subtract, IInv, TypeOK, ParentPlaces
  <2>3. \A k \in Kids : kid[k] # "resuming"
    BY <1>7 DEF Subtract, IInv, ResumerFindsSleeper
  <2>4. ~Remaining(done_count) => NobodyLinked
    <3> SUFFICES ASSUME done_count <= 0 PROVE NobodyLinked
      BY DEF Remaining, IInv, TypeOK
    <3>1. Pending = {}
      BY <2>1, PendingFinite, FS_EmptySet DEF Pending
    <3>2. \A k \in Kids : link[k] # "count"
      BY <2>3, <3>1 DEF Pending, IInv, LinksOfWorkers
    <3> QED BY <2>1, <3>2 DEF NobodyLinked, IInv, LinksFitForm, TypeOK
  <2>5. ReleasedByAll'
    BY <1>7, <2>4 DEF Subtract, ReleasedByAll, Released, NobodyLinked
  <2>6. CountMatches'
    BY <1>3, <1>7, <2>1, <2>2, PendingFinite DEF Subtract, CountMatches, ParentCounts
  <2> QED
    BY <1>2, <1>7, <2>1, <2>2, <2>3, <2>5, <2>6 DEF Subtract, IInv, ResumerFindsSleeper, LinksFitForm,
       PlacesFitForm, HeldBack
<1>8. CASE DispatchParent \/ Drop
  <2>1. NobodyLinked /\ \A k \in Kids : kid[k] # "resuming"
    BY <1>8 DEF DispatchParent, Drop, IInv, ReleasedByAll, Released, LinksOfWorkers, NobodyLinked
  <2>2. TypeOK' /\ Still
    BY <1>8 DEF DispatchParent, Drop, IInv, TypeOK, ParentPlaces
  <2>3. CountMatches'
    BY <1>3, <1>8, <2>2 DEF DispatchParent, Drop, IInv, CountMatches, ParentCounts
  <2> QED
    BY <1>2, <1>8, <2>1, <2>2, <2>3 DEF DispatchParent, Drop, IInv, ResumerFindsSleeper, ReleasedByAll,
       NobodyLinked, LinksFitForm, PlacesFitForm, HeldBack
<1> QED BY <1>1, <1>4, <1>5, <1>6, <1>7, <1>8 DEF ParentStep

-----------------------------------------------------------------------------
(* The steps of a child.                                                    *)

LEMMA KidStepKeeps == ASSUME IInv, NEW k \in Kids, KidStep(k) PROVE IInv'
<1>1. CASE Dispatch(k)
  <2>1. \A o \in Kids : kid'[o] = IF o = k THEN "running" ELSE kid[o]
    BY <1>1 DEF Dispatch, IInv, TypeOK
  <2>2. TypeOK'
    BY <1>1 DEF Dispatch, IInv, TypeOK, KidPlaces
  <2>3. LinksOfWorkers' /\ LinksFitForm' /\ ResumerIsLast' /\ ResumerFindsSleeper'
    BY <1>1, <2>1 DEF Dispatch, IInv, LinksOfWorkers, LinksFitForm, ResumerIsLast, ResumerFindsSleeper
  <2>4. FramesOfWorkers'
    BY <1>1, <2>1 DEF Dispatch, IInv, FramesOfWorkers, TypeOK
  <2>5. ReleasedByAll' /\ PlacesFitForm' /\ HeldBack'
    BY <1>1, <2>1 DEF Dispatch, IInv, ReleasedByAll, Released, NobodyLinked, PlacesFitForm, HeldBack, TypeOK
  <2>6. CountMatches'
    <3>1. Pending' = Pending
      BY <1>1, <2>1 DEF Dispatch, Pending
    <3> QED BY <1>1, <3>1 DEF Dispatch, IInv, CountMatches, ParentCounts
  <2> QED BY <2>2, <2>3, <2>4, <2>5, <2>6 DEF IInv
<1>2. CASE Finish(k)
  <2>1. \A o \in Kids : kid'[o] = IF o = k THEN "arriving" ELSE kid[o]
    BY <1>2 DEF Finish, IInv, TypeOK
  <2>2. TypeOK'
    BY <1>2 DEF Finish, IInv, TypeOK, KidPlaces
  <2>3. LinksOfWorkers' /\ LinksFitForm' /\ ResumerIsLast' /\ ResumerFindsSleeper'
    BY <1>2, <2>1 DEF Finish, IInv, LinksOfWorkers, LinksFitForm, ResumerIsLast, ResumerFindsSleeper
  <2>4. FramesOfWorkers'
    BY <1>2, <2>1 DEF Finish, IInv, FramesOfWorkers, TypeOK
  <2>5. ReleasedByAll' /\ PlacesFitForm' /\ HeldBack'
    BY <1>2, <2>1 DEF Finish, IInv, ReleasedByAll, Released, NobodyLinked, PlacesFitForm, HeldBack, TypeOK
  <2>6. CountMatches'
    <3>1. Pending' = Pending
      BY <1>2, <2>1 DEF Finish, Pending
    <3> QED BY <1>2, <3>1 DEF Finish, IInv, CountMatches, ParentCounts
  <2> QED BY <2>2, <2>3, <2>4, <2>5, <2>6 DEF IInv
<1>3. CASE Arrive(k)
  <2> DEFINE last == \/ link[k] = "count" /\ done_count <= 0
                     \/ link[k] = "direct"
  <2>1. kid[k] = "arriving" /\ \A o \in Kids : kid'[o] = IF o = k THEN (IF last THEN "resuming" ELSE "idle") ELSE kid[o]
    BY <1>3 DEF Arrive, Arrived, IInv, TypeOK
  <2>2. \A o \in Kids : link'[o] = IF o = k /\ ~last THEN "none" ELSE link[o]
    BY <1>3, <2>1 DEF Arrive, IInv, TypeOK
  <2>3. UNCHANGED <<parent, form, then, symmetric, cont, frames>>
        /\ done_count' = IF link[k] = "count" THEN done_count - 1 ELSE done_count
    BY <1>3 DEF Arrive
  <2>4. Cardinality(Pending \ {k}) = Cardinality(Pending) - (IF k \in Pending THEN 1 ELSE 0)
    <3>1. CASE k \in Pending
      BY <3>1, PendingFinite, FS_RemoveElement
    <3>2. CASE k \notin Pending
      <4>1. Pending \ {k} = Pending
        BY <3>2
      <4> QED BY <3>2, <4>1, PendingFinite
    <3> QED BY <3>1, <3>2
  \* The child that finds the word used up is the only one pending, and the parent asleep.
  <2>5. last => /\ \A o \in Kids \ {k} : link[o] = "none"
                /\ parent = "waiting" \/ (parent = "posting" /\ then = "waiting")
    <3>1. CASE link[k] = "direct"
      BY <3>1 DEF IInv, LinksFitForm, ReleasedByAll, Released, NobodyLinked, PlacesFitForm, TypeOK, ParentPlaces
    <3>2. CASE link[k] = "count" /\ done_count <= 0
      <4>1. k \in Pending /\ form \in {"counted", "group", "waitable"}
        BY <2>1, <3>2 DEF Pending, IInv, LinksFitForm
      <4>2. ~ParentCounts /\ Cardinality(Pending) = 1
        <5>1. Cardinality(Pending) # 0
          BY <4>1, PendingFinite, FS_EmptySet
        <5> QED BY <3>2, <4>1, <5>1, PendingFinite DEF IInv, CountMatches
      <4>3. Pending = {k}
        <5>1. \E x : Pending = {x}
          BY <4>2, PendingFinite, FS_Singleton
        <5> QED BY <4>1, <5>1
      <4>4. parent = "waiting" \/ (parent = "posting" /\ then = "waiting")
        <5>1. symmetric # NoKid => ~(form = "counted" /\ parent \in {"posting", "forked", "suspending"})
          BY <2>1, <4>3 DEF Pending, IInv, HeldBack, TypeOK
        <5>2. ~Released
          BY <3>2 DEF IInv, ReleasedByAll, NobodyLinked
        <5> QED BY <4>1, <4>2, <5>1, <5>2 DEF ParentCounts, Released, IInv, TypeOK, ParentPlaces, PlacesFitForm, HeldBack
      <4>5. \A o \in Kids \ {k} : link[o] = "none"
        <5>1. \A o \in Kids \ {k} : link[o] = "count" => kid[o] = "resuming"
          BY <4>3 DEF Pending, IInv, LinksOfWorkers
        <5>2. \A o \in Kids \ {k} : link[o] # "direct"
          BY <4>1 DEF IInv, LinksFitForm
        <5>3. \A o \in Kids \ {k} : kid[o] # "resuming"
          BY <3>2 DEF IInv, ResumerIsLast
        <5> QED BY <5>1, <5>2, <5>3 DEF IInv, TypeOK
      <4> QED BY <4>4, <4>5
    <3> QED BY <3>1, <3>2
  <2>6. TypeOK'
    <3>1. done_count' \in Int
      BY <2>3 DEF IInv, TypeOK
    <3>2. kid' \in [Kids -> KidPlaces] /\ link' \in [Kids -> {"none", "count", "direct"}]
      BY <1>3 DEF Arrive, IInv, TypeOK, KidPlaces
    <3> QED BY <2>3, <3>1, <3>2 DEF IInv, TypeOK
  <2>7. LinksOfWorkers' /\ LinksFitForm'
    BY <2>1, <2>2, <2>3, <2>5 DEF IInv, LinksOfWorkers, LinksFitForm, TypeOK
  <2>8. FramesOfWorkers'
    BY <2>1, <2>3 DEF IInv, FramesOfWorkers, TypeOK
  <2>9. ResumerIsLast' /\ ResumerFindsSleeper'
    BY <2>1, <2>2, <2>3, <2>5 DEF IInv, ResumerIsLast, ResumerFindsSleeper
  <2>10. ReleasedByAll' /\ PlacesFitForm' /\ HeldBack'
    BY <2>1, <2>2, <2>3 DEF IInv, ReleasedByAll, Released, NobodyLinked, PlacesFitForm, HeldBack, TypeOK
  <2>11. CountMatches'
    <3>1. k \in Pending <=> link[k] = "count"
      BY <2>1 DEF Pending
    <3>2. Pending' = Pending \ {k}
      BY <2>1, <2>2 DEF Pending
    <3> QED BY <2>3, <2>4, <3>1, <3>2, PendingFinite DEF IInv, CountMatches, ParentCounts, TypeOK
  <2> QED BY <2>6, <2>7, <2>8, <2>9, <2>10, <2>11 DEF IInv
<1>4. CASE Resume(k)
  <2>1. kid[k] = "resuming" /\ \A o \in Kids \ {k} : link[o] = "none" /\ kid[o] \notin {"resuming", "held"}
    BY <1>4 DEF Resume, IInv, ResumerIsLast, LinksOfWorkers
  <2>2. \A o \in Kids : kid'[o] = (IF o = k THEN "idle" ELSE kid[o]) /\ link'[o] = "none"
    BY <1>4, <2>1 DEF Resume, IInv, TypeOK
  <2>3. parent = "waiting" \/ (parent = "posting" /\ then = "waiting")
    BY <2>1 DEF IInv, ResumerFindsSleeper
  <2>4. TypeOK'
    <3>1. kid' \in [Kids -> KidPlaces] /\ link' \in [Kids -> {"none", "count", "direct"}]
      BY <1>4 DEF Resume, IInv, TypeOK, KidPlaces
    <3> QED BY <1>4, <3>1 DEF Resume, IInv, TypeOK, ParentPlaces
  <2>5. LinksOfWorkers' /\ LinksFitForm' /\ ResumerIsLast' /\ ResumerFindsSleeper'
    BY <2>1, <2>2 DEF LinksOfWorkers, LinksFitForm, ResumerIsLast, ResumerFindsSleeper
  <2>6. FramesOfWorkers'
    BY <1>4, <2>1, <2>2 DEF Resume, IInv, FramesOfWorkers, TypeOK
  <2>7. ReleasedByAll' /\ PlacesFitForm' /\ HeldBack'
    BY <1>4, <2>1, <2>2, <2>3 DEF Resume, IInv, ReleasedByAll, NobodyLinked, PlacesFitForm, HeldBack, TypeOK
  <2>8. CountMatches'
    <3>1. Pending = {} /\ Pending' = {}
      BY <2>1, <2>2 DEF Pending
    <3> QED BY <1>4, <2>3, <3>1 DEF Resume, IInv, CountMatches, ParentCounts, PlacesFitForm
  <2> QED BY <2>4, <2>5, <2>6, <2>7, <2>8 DEF IInv
<1> QED BY <1>1, <1>2, <1>3, <1>4 DEF KidStep

LEMMA NextIInv == IInv /\ [Next]_vars => IInv'
<1> SUFFICES ASSUME IInv, [Next]_vars PROVE IInv'
  OBVIOUS
<1>1. CASE UNCHANGED vars
  <2>1. Pending' = Pending
    BY <1>1 DEF vars, Pending
  <2> QED
    BY <1>1, <2>1 DEF vars, IInv, TypeOK, LinksOfWorkers, FramesOfWorkers, LinksFitForm, ResumerIsLast,
       ReleasedByAll, Released, NobodyLinked, PlacesFitForm, HeldBack, ResumerFindsSleeper, CountMatches, ParentCounts
<1> QED BY <1>1, StartStep, ParentStepKeeps, KidStepKeeps DEF Next, Terminated

THEOREM Inductive == Spec => []IInv
BY InitIInv, NextIInv, PTL DEF Spec

-----------------------------------------------------------------------------
\* The variables keep their types.
THEOREM TypeCorrect == Spec => []TypeOK
<1>1. IInv => TypeOK
  BY DEF IInv
<1> QED BY <1>1, Inductive, PTL

\* done_count is at every moment the number of children that have yet to arrive,
\* less one for the parent once it will subtract no more (awaitable_customizer's
\* done_count_arrived, the constructors, and the asserts of the destructors).
THEOREM WordCountsChildren == Spec => []CountMatches
<1>1. IInv => CountMatches
  BY DEF IInv
<1> QED BY <1>1, Inductive, PTL

\* However many children there are, one of them or the parent itself resumes the
\* parent, and a child does so only when the parent has left its handle and sleeps.
THEOREM ResumedByOne == Spec => []OneResumer
<1>1. IInv => OneResumer
  <2> SUFFICES ASSUME IInv, NEW k \in Kids, kid[k] = "resuming"
               PROVE  /\ cont
                      /\ parent = "waiting" \/ (parent = "posting" /\ then = "waiting")
                      /\ \A o \in Kids \ {k} : kid[o] # "resuming"
    BY DEF OneResumer
  <2>1. parent = "waiting" \/ (parent = "posting" /\ then = "waiting")
    BY DEF IInv, ResumerFindsSleeper
  <2>2. \A o \in Kids \ {k} : kid[o] # "resuming"
    BY DEF IInv, ResumerIsLast, LinksOfWorkers
  <2> QED BY <2>1, <2>2 DEF IInv, PlacesFitForm
<1> QED BY <1>1, Inductive, PTL

\* A parent goes on only when no child can touch its awaitable any more, and no
\* frame of a child that has told it is left.
THEOREM ChildrenEndFirst == Spec => []ParentAfterChildren
<1>1. IInv => ParentAfterChildren
  BY DEF IInv, ReleasedByAll, Released, NobodyLinked, FramesOfWorkers, ParentAfterChildren
<1> QED BY <1>1, Inductive, PTL

-----------------------------------------------------------------------------
(* Mux.                                                                     *)

\* Every set of naturals has a least element, so countr_zero finds a bit that is set.
LEMMA LeastNumber ==
  ASSUME NEW S \in SUBSET Nat, S # {}
  PROVE  \E n \in S : \A m \in S : n <= m
<1> DEFINE T == {1..n : n \in S}
           R == StrictSubsetOrdering(Nat)
<1>1. T \subseteq FiniteSubsetsOf(Nat) /\ T # {}
  <2>1. \A n \in S : IsFiniteSet(1..n) /\ 1..n \in SUBSET Nat
    BY FS_Interval
  <2> QED BY <2>1 DEF FiniteSubsetsOf
<1>2. IsWellFoundedOn(R, FiniteSubsetsOf(Nat))
  BY FS_StrictSubsetOrderingWellFounded
<1>3. PICK x \in T : \A y \in T : ~ (<<y, x>> \in R)
  <2> HIDE DEF T, R
  <2> QED BY <1>1, <1>2, WFMin
<1>4. PICK n \in S : x = 1..n
  BY DEF T
<1>5. ASSUME NEW m \in S, ~(n <= m) PROVE FALSE
  <2>1. m \in Nat /\ n \in Nat /\ m < n
    BY <1>5
  <2>2. 1..m \subseteq 1..n /\ n \in 1..n /\ n \notin 1..m
    BY <2>1
  <2>3. <<1..m, 1..n>> \in R
    BY <2>1, <2>2 DEF StrictSubsetOrdering
  <2> QED BY <1>3, <1>4, <1>5, <2>3
<1> QED BY <1>5

\* The lowest slot of a set is in it.
LEMMA LowestIsThere == ASSUME NEW S \in SUBSET M!Slots, S # {} PROVE M!Lowest(S) \in S
<1>1. S \in SUBSET Nat
  BY SlotsAssumption DEF M!Slots
<1>2. \E n \in S : \A m \in S : n <= m
  BY <1>1, LeastNumber
<1> QED BY <1>2 DEF M!Lowest, M!Min

\* How many slots there are, and that sets of them can be counted.
LEMMA SlotsFinite ==
  /\ IsFiniteSet(M!Slots) /\ Cardinality(M!Slots) = NumSlots
  /\ \A S \in SUBSET M!Slots : IsFiniteSet(S) /\ Cardinality(S) \in Nat /\ (Cardinality(S) = 0 <=> S = {})
<1>1. IsFiniteSet(M!Slots) /\ Cardinality(M!Slots) = NumSlots
  BY FS_Interval, SlotsAssumption DEF M!Slots
<1> QED BY <1>1, FS_Subset, FS_CardinalityType, FS_EmptySet

\* Where a mux is in use; what the parent counts while a slot is being taken; who sleeps
\* has slots in use.
UsedWhere ==
  /\ user = "none" => mparent \in {"ready", "ended"} /\ bits = {} /\ \A k \in M!Slots : mkid[k] = "idle"
  /\ mparent = "ended" => user = "none"
CountedSlots ==
  /\ user \in {"tuple", "select"} /\ mparent = "making" => active = M!Slots /\ remaining = NumSlots /\ M!Started = M!Slots
  /\ user # "none" /\ mparent # "making" =>
       /\ active = M!Started
       /\ mparent # "taking" => remaining = Cardinality(active)
       /\ mparent = "taking" => remaining = Cardinality(active) - 1 /\ slot \in bits
SleepsWithWork == mparent \in {"suspending", "waiting"} => remaining > 0

\* Who resumes the parent has a result for it.
BitsSettled ==
  /\ \A k \in bits : mkid[k] \in {"idle", "resuming"}
  /\ \A k \in M!Slots : mkid[k] = "resuming" => k \in bits

MuxInv ==
  /\ M!TypeOK /\ UsedWhere /\ CountedSlots /\ SleepsWithWork /\ BitsSettled
  /\ M!OneWaker /\ M!WokenWithResult

\* The model's own instance of Cardinality is the same operator.
LEMMA SameCount == \A S : M!Cardinality(S) = Cardinality(S)
BY DEF M!Cardinality, Cardinality

\* The invariant says what the run checks.
LEMMA MuxSays == ASSUME MuxInv PROVE EachResultOnce
<1>1. \A k \in M!Slots : k \in bits => mkid[k] \in {"idle", "resuming"}
  BY DEF MuxInv, BitsSettled
<1>2. /\ user # "none" /\ mparent # "making" => active = M!Started
      /\ user # "none" /\ mparent \notin {"making", "taking"} => remaining = M!Cardinality(active)
  BY SameCount DEF MuxInv, CountedSlots
<1>3. user = "none" => \A k \in M!Slots : mkid[k] = "idle"
  BY DEF MuxInv, UsedWhere
<1>4. M!EveryResultOnce
  BY <1>1, <1>2, <1>3 DEF M!EveryResultOnce
<1> QED BY <1>4 DEF MuxInv, EachResultOnce

\* Nobody uses the mux at first.
LEMMA MuxInit == ASSUME M!Init PROVE MuxInv
<1>1. /\ mparent = "ready" /\ user = "none" /\ each = TRUE /\ bits = {} /\ active = {} /\ remaining = 0
      /\ slot = M!NoSlot /\ winner = M!NoSlot /\ cancelled = {}
      /\ mkid = [k \in M!Slots |-> "idle"]
  BY DEF M!Init
<1>2. M!TypeOK
  BY <1>1 DEF M!TypeOK
<1>3. UsedWhere /\ CountedSlots /\ SleepsWithWork /\ BitsSettled
  BY <1>1 DEF UsedWhere, CountedSlots, SleepsWithWork, BitsSettled
<1>4. M!OneWaker /\ M!WokenWithResult
  BY <1>1 DEF M!OneWaker, M!WokenWithResult
<1> QED BY <1>2, <1>3, <1>4 DEF MuxInv

\* Only what Started reads decides which slots are in use.
LEMMA StartedKept ==
  ASSUME UNCHANGED bits, \A k \in M!Slots : (mkid'[k] # "idle") <=> (mkid[k] # "idle")
  PROVE  M!Started' = M!Started
BY DEF M!Started

-----------------------------------------------------------------------------
(* The parent. *)

\* The constructors.
LEMMA MuxMake == ASSUME MuxInv, M!MuxTuple \/ M!MuxMany \/ M!Select PROVE MuxInv'
<1>1. PICK who, slots :
        /\ who \in {"tuple", "many", "select"} /\ slots \in SUBSET M!Slots
        /\ M!Make(who, slots)
        /\ IF who = "many" THEN active' = {} /\ remaining' = 0
                           ELSE slots = M!Slots /\ active' = M!Slots /\ remaining' = NumSlots
  <2>1. CASE M!MuxTuple
    BY <2>1 DEF M!MuxTuple
  <2>2. CASE M!Select
    BY <2>2 DEF M!Select
  <2>3. CASE M!MuxMany
    <3>1. PICK n \in 0..NumSlots : M!Make("many", 1..n) /\ active' = {} /\ remaining' = 0
      BY <2>3 DEF M!MuxMany
    <3>2. 1..n \in SUBSET M!Slots
      BY <3>1, SlotsAssumption DEF M!Slots
    <3> QED BY <3>1, <3>2
  <2> QED BY <2>1, <2>2, <2>3
<1>2. /\ user = "none" /\ mparent' = "making" /\ user' = who
      /\ each' = TRUE /\ bits' = {} /\ slot' = M!NoSlot /\ winner' = M!NoSlot /\ cancelled' = {}
      /\ mkid' = [k \in M!Slots |-> IF k \in slots THEN "made" ELSE mkid[k]]
  BY <1>1 DEF M!Make
<1>3. \A k \in M!Slots : mkid'[k] = IF k \in slots THEN "made" ELSE "idle"
  BY <1>2 DEF MuxInv, UsedWhere
<1>4. M!TypeOK'
  BY <1>1, <1>2, <1>3, SlotsAssumption DEF M!TypeOK
<1>5. who # "many" => M!Started' = M!Slots
  BY <1>1, <1>2, <1>3 DEF M!Started
<1>6. UsedWhere' /\ CountedSlots' /\ SleepsWithWork' /\ BitsSettled'
  BY <1>1, <1>2, <1>3, <1>5 DEF UsedWhere, CountedSlots, SleepsWithWork, BitsSettled
<1>7. M!OneWaker' /\ M!WokenWithResult'
  BY <1>1, <1>2, <1>3 DEF M!OneWaker, M!WokenWithResult
<1> QED BY <1>4, <1>6, <1>7 DEF MuxInv

\* post_bulk, one child at a time, and the count of those started.
LEMMA MuxPost == ASSUME MuxInv, M!PostNext PROVE MuxInv'
<1>1. PICK k \in M!Slots : mkid[k] = "made" /\ mkid' = [mkid EXCEPT ![k] = "posted"]
  BY DEF M!PostNext
<1>2. mparent = "making" /\ UNCHANGED <<mparent, user, each, bits, active, remaining, slot, winner, cancelled>>
  BY DEF M!PostNext, M!own
<1>3. M!TypeOK /\ M!TypeOK'
  BY <1>1, <1>2 DEF MuxInv, M!TypeOK
<1>4. mkid'[k] = "posted" /\ \A o \in M!Slots : o # k => mkid'[o] = mkid[o]
  BY <1>1, <1>3 DEF M!TypeOK
<1>5. M!Started' = M!Started
  BY <1>1, <1>2, <1>4, StartedKept
<1>6. UsedWhere' /\ CountedSlots' /\ SleepsWithWork' /\ BitsSettled'
  BY <1>1, <1>2, <1>3, <1>4, <1>5 DEF MuxInv, M!TypeOK, UsedWhere, CountedSlots, SleepsWithWork, BitsSettled
<1>7. M!OneWaker' /\ M!WokenWithResult'
  BY <1>1, <1>2, <1>4 DEF MuxInv, M!OneWaker, M!WokenWithResult
<1> QED BY <1>3, <1>6, <1>7 DEF MuxInv

\* init_active_counts: the slots started so far are in use; children may have ended already.
LEMMA MuxAccount == ASSUME MuxInv, M!InitActiveCounts PROVE MuxInv'
<1>1. /\ mparent = "making" /\ mparent' = "ready" /\ UNCHANGED <<user, each, bits, slot, mkid, winner, cancelled>>
      /\ IF user = "many" THEN active' = M!Started /\ remaining' = M!Cardinality(M!Started)
                          ELSE UNCHANGED <<active, remaining>>
  BY DEF M!InitActiveCounts
<1>2. M!Started' = M!Started /\ M!Started \in SUBSET M!Slots
  BY <1>1 DEF M!Started, MuxInv, M!TypeOK
<1>3. user \in {"tuple", "many", "select"} /\ active' = M!Started /\ remaining' = Cardinality(M!Started)
  BY <1>1, <1>2, SameCount, SlotsFinite DEF MuxInv, M!TypeOK, UsedWhere, CountedSlots
<1>4. M!TypeOK'
  BY <1>1, <1>2, <1>3, SlotsFinite DEF MuxInv, M!TypeOK
<1>5. UsedWhere' /\ CountedSlots' /\ SleepsWithWork' /\ BitsSettled'
  BY <1>1, <1>2, <1>3 DEF MuxInv, UsedWhere, CountedSlots, SleepsWithWork, BitsSettled
<1>6. M!OneWaker' /\ M!WokenWithResult'
  BY <1>1 DEF MuxInv, M!OneWaker, M!WokenWithResult
<1> QED BY <1>4, <1>5, <1>6 DEF MuxInv

\* mux_await_suspend and the dispatch of a parent that was posted; the end of a mux.
LEMMA MuxParent ==
  ASSUME MuxInv, M!Await \/ M!ReleaseEach \/ M!DispatchParent \/ M!Destroy \/ M!End \/ M!CancelNext
  PROVE  MuxInv'
<1>1. UNCHANGED <<bits, active, remaining, slot, winner, mkid>>
  BY DEF M!Await, M!ReleaseEach, M!DispatchParent, M!Destroy, M!End, M!CancelNext, M!own
<1>2. M!Started' = M!Started /\ active \in SUBSET M!Slots
  BY <1>1 DEF M!Started, MuxInv, M!TypeOK
<1>3. BitsSettled'
  BY <1>1 DEF MuxInv, BitsSettled
<1>4. CASE M!Await
  <2>1. /\ mparent = "ready" /\ user # "none" /\ UNCHANGED <<user, each, cancelled>>
        /\ \/ remaining = 0 /\ mparent' = "resuming"
           \/ remaining # 0 /\ mparent' = "suspending"
    BY <1>4 DEF M!Await, M!MayAwait, M!own
  <2>2. remaining = Cardinality(active) /\ remaining \in Nat
    BY <1>2, <2>1, SlotsFinite DEF MuxInv, CountedSlots
  <2>3. M!TypeOK'
    BY <1>1, <2>1 DEF MuxInv, M!TypeOK
  <2>4. UsedWhere' /\ CountedSlots' /\ SleepsWithWork'
    BY <1>1, <1>2, <2>1, <2>2 DEF MuxInv, UsedWhere, CountedSlots, SleepsWithWork
  <2>5. M!OneWaker' /\ M!WokenWithResult'
    BY <1>1, <2>1 DEF MuxInv, M!OneWaker, M!WokenWithResult
  <2> QED BY <1>3, <2>3, <2>4, <2>5 DEF MuxInv
<1>5. CASE M!ReleaseEach
  <2>1. /\ mparent = "suspending" /\ UNCHANGED <<user, cancelled>>
        /\ \/ bits # {} /\ mparent' = "resuming" /\ each' = each
           \/ bits = {} /\ mparent' = "waiting" /\ each' = FALSE
    BY <1>5 DEF M!ReleaseEach, M!own
  <2>2. remaining = Cardinality(active) /\ remaining > 0 /\ active = M!Started /\ user # "none"
    BY <2>1 DEF MuxInv, UsedWhere, CountedSlots, SleepsWithWork
  <2>3. bits = {} => \E k \in M!Slots : mkid[k] # "idle"
    BY <1>2, <2>2, SlotsFinite DEF M!Started
  <2>4. M!TypeOK'
    BY <1>1, <2>1 DEF MuxInv, M!TypeOK
  <2>5. UsedWhere' /\ CountedSlots' /\ SleepsWithWork'
    BY <1>1, <1>2, <2>1, <2>2 DEF MuxInv, UsedWhere, CountedSlots, SleepsWithWork
  <2>6. M!OneWaker' /\ M!WokenWithResult'
    BY <1>1, <2>1, <2>3 DEF MuxInv, M!OneWaker, M!WokenWithResult
  <2> QED BY <1>3, <2>4, <2>5, <2>6 DEF MuxInv
<1>6. CASE M!DispatchParent
  <2>1. mparent = "queued" /\ mparent' = "resuming" /\ UNCHANGED <<user, each, cancelled>>
    BY <1>6 DEF M!DispatchParent, M!own
  <2>2. M!TypeOK'
    BY <1>1, <2>1 DEF MuxInv, M!TypeOK
  <2>3. UsedWhere' /\ CountedSlots' /\ SleepsWithWork'
    BY <1>1, <1>2, <2>1 DEF MuxInv, UsedWhere, CountedSlots, SleepsWithWork
  <2>4. M!OneWaker' /\ M!WokenWithResult'
    BY <1>1, <2>1 DEF MuxInv, M!OneWaker, M!WokenWithResult
  <2> QED BY <1>3, <2>2, <2>3, <2>4 DEF MuxInv
<1>7. CASE M!Destroy
  <2>1. mparent = "ready" /\ user # "none" /\ remaining = 0 /\ user' = "none" /\ UNCHANGED <<mparent, each, cancelled>>
    BY <1>7 DEF M!Destroy, M!own
  <2>2. M!Started = {}
    BY <1>2, <2>1, SlotsFinite DEF MuxInv, CountedSlots
  <2>3. bits = {} /\ \A k \in M!Slots : mkid[k] = "idle"
    BY <2>2 DEF M!Started
  <2>4. M!TypeOK'
    BY <1>1, <2>1 DEF MuxInv, M!TypeOK
  <2>5. UsedWhere' /\ CountedSlots' /\ SleepsWithWork'
    BY <1>1, <1>2, <2>1, <2>3 DEF MuxInv, UsedWhere, CountedSlots, SleepsWithWork
  <2>6. M!OneWaker' /\ M!WokenWithResult'
    BY <1>1, <2>1 DEF MuxInv, M!OneWaker, M!WokenWithResult
  <2> QED BY <1>3, <2>4, <2>5, <2>6 DEF MuxInv
<1>8. CASE M!End
  <2>1. mparent = "ready" /\ user = "none" /\ mparent' = "ended" /\ UNCHANGED <<user, each, cancelled>>
    BY <1>8 DEF M!End, M!own
  <2>2. M!TypeOK'
    BY <1>1, <2>1 DEF MuxInv, M!TypeOK
  <2>3. UsedWhere' /\ CountedSlots' /\ SleepsWithWork'
    BY <1>1, <2>1 DEF MuxInv, UsedWhere, CountedSlots, SleepsWithWork
  <2>4. M!OneWaker' /\ M!WokenWithResult'
    BY <1>1, <2>1 DEF MuxInv, M!OneWaker, M!WokenWithResult
  <2> QED BY <1>3, <2>2, <2>3, <2>4 DEF MuxInv
<1>9. CASE M!CancelNext
  <2>1. /\ mparent = "cancelling" /\ mparent' \in {"ready", "cancelling"} /\ UNCHANGED <<user, each>>
        /\ cancelled \subseteq M!Slots
    BY <1>9 DEF M!CancelNext, MuxInv, M!TypeOK
  <2>2. cancelled' \subseteq M!Slots
    <3>1. CASE M!AllCancelled
      BY <1>9, <2>1, <3>1 DEF M!CancelNext
    <3>2. CASE ~M!AllCancelled
      <4>1. M!Slots \ ({winner} \cup cancelled) # {}
        BY <3>2 DEF M!AllCancelled
      <4>2. M!Lowest(M!Slots \ ({winner} \cup cancelled)) \in M!Slots
        <5> DEFINE left == M!Slots \ ({winner} \cup cancelled)
        <5>1. left \in SUBSET M!Slots /\ left # {}
          BY <4>1
        <5>2. M!Lowest(left) \in left
          BY <5>1, LowestIsThere
        <5> QED BY <5>2
      <4> QED BY <1>9, <2>1, <3>2, <4>2 DEF M!CancelNext
    <3> QED BY <3>1, <3>2
  <2>3. M!TypeOK'
    BY <1>1, <2>1, <2>2 DEF MuxInv, M!TypeOK
  <2>4. UsedWhere' /\ CountedSlots' /\ SleepsWithWork'
    BY <1>1, <1>2, <2>1 DEF MuxInv, UsedWhere, CountedSlots, SleepsWithWork
  <2>5. M!OneWaker' /\ M!WokenWithResult'
    BY <1>1, <2>1 DEF MuxInv, M!OneWaker, M!WokenWithResult
  <2> QED BY <1>3, <2>3, <2>4, <2>5 DEF MuxInv
<1> QED BY <1>4, <1>5, <1>6, <1>7, <1>8, <1>9

\* mux_await_resume and mux_poll: one slot is chosen, and counted no longer.
LEMMA MuxChoose == ASSUME MuxInv, M!AwaitResume \/ M!Poll PROVE MuxInv'
<1>1. /\ mparent \in {"resuming", "ready"} /\ UNCHANGED <<user, each, bits, active, mkid, winner, cancelled>>
      /\ \/ mparent = "resuming" /\ remaining = 0 /\ mparent' = "ready" /\ UNCHANGED <<slot, remaining>>
         \/ /\ bits # {} /\ slot' = M!Lowest(bits) /\ remaining' = remaining - 1 /\ mparent' = "taking"
            /\ mparent = "resuming" \/ user # "none"
  BY DEF M!AwaitResume, M!Poll
<1>2. M!Started' = M!Started /\ bits \in SUBSET M!Slots /\ remaining \in Int
  BY <1>1 DEF M!Started, MuxInv, M!TypeOK
<1>3. bits # {} => M!Lowest(bits) \in bits
  BY <1>2, LowestIsThere
<1>4. user # "none" /\ active = M!Started /\ remaining = Cardinality(active)
  BY <1>1 DEF MuxInv, UsedWhere, CountedSlots
<1>5. M!TypeOK'
  BY <1>1, <1>2, <1>3 DEF MuxInv, M!TypeOK
<1>6. UsedWhere' /\ CountedSlots' /\ SleepsWithWork' /\ BitsSettled'
  BY <1>1, <1>2, <1>3, <1>4 DEF MuxInv, UsedWhere, CountedSlots, SleepsWithWork, BitsSettled
<1>7. M!OneWaker' /\ M!WokenWithResult'
  BY <1>1 DEF MuxInv, M!OneWaker, M!WokenWithResult
<1> QED BY <1>5, <1>6, <1>7 DEF MuxInv

\* The bit is subtracted: the child of that slot is through, and nobody is in its way.
LEMMA MuxTake == ASSUME MuxInv, M!Take PROVE MuxInv'
<1>1. /\ mparent = "taking" /\ mparent' \in {"cancelling", "ready"} /\ bits' = bits \ {slot} /\ active' = active \ {slot}
      /\ winner' \in {winner, slot} /\ UNCHANGED <<user, each, remaining, slot, mkid, cancelled>>
  BY DEF M!Take
<1>2. /\ user # "none" /\ active = M!Started /\ remaining = Cardinality(active) - 1 /\ slot \in bits
      /\ active \in SUBSET M!Slots /\ bits \in SUBSET M!Slots
  BY <1>1 DEF MuxInv, M!TypeOK, UsedWhere, CountedSlots
<1>3. mkid[slot] = "idle" /\ \A k \in M!Slots : mkid[k] # "resuming"
  BY <1>1, <1>2 DEF MuxInv, BitsSettled, M!OneWaker
<1>4. M!Started' = M!Started \ {slot}
  BY <1>1, <1>2, <1>3 DEF M!Started
<1>5. Cardinality(active \ {slot}) = Cardinality(active) - 1
  BY <1>2, FS_RemoveElement, SlotsFinite DEF M!Started
<1>6. M!TypeOK'
  BY <1>1, <1>2 DEF MuxInv, M!TypeOK
<1>7. UsedWhere' /\ CountedSlots' /\ SleepsWithWork' /\ BitsSettled'
  BY <1>1, <1>2, <1>3, <1>4, <1>5 DEF MuxInv, UsedWhere, CountedSlots, SleepsWithWork, BitsSettled
<1>8. M!OneWaker' /\ M!WokenWithResult'
  BY <1>1, <1>3 DEF MuxInv, M!OneWaker, M!WokenWithResult
<1> QED BY <1>6, <1>7, <1>8 DEF MuxInv

\* fork starts a child in a slot that nobody uses.
LEMMA MuxFork == ASSUME MuxInv, NEW i \in M!Slots, M!Fork(i) PROVE MuxInv'
<1>1. /\ mparent = "ready" /\ user \in {"tuple", "many"} /\ i \notin active
      /\ active' = active \cup {i} /\ remaining' = remaining + 1
      /\ mkid' = [mkid EXCEPT ![i] = "posted"]
      /\ UNCHANGED <<mparent, user, each, bits, slot, winner, cancelled>>
  BY DEF M!Fork
<1>2. /\ active = M!Started /\ remaining = Cardinality(active) /\ active \in SUBSET M!Slots
      /\ mkid \in [M!Slots -> {"idle", "made", "posted", "running", "arriving", "resuming"}]
  BY <1>1 DEF MuxInv, M!TypeOK, CountedSlots
<1>3. mkid[i] = "idle" /\ i \notin bits
  BY <1>1, <1>2 DEF M!Started
<1>4. mkid'[i] = "posted" /\ \A o \in M!Slots : o # i => mkid'[o] = mkid[o]
  BY <1>1, <1>2
<1>5. M!Started' = M!Started \cup {i}
  BY <1>1, <1>2, <1>4 DEF M!Started
<1>6. Cardinality(active \cup {i}) = Cardinality(active) + 1 /\ Cardinality(active) \in Nat
  BY <1>1, <1>2, FS_AddElement, SlotsFinite
<1>7. M!TypeOK'
  BY <1>1, <1>2, <1>6 DEF MuxInv, M!TypeOK
<1>8. UsedWhere' /\ CountedSlots' /\ SleepsWithWork' /\ BitsSettled'
  BY <1>1, <1>2, <1>3, <1>4, <1>5, <1>6 DEF MuxInv, UsedWhere, CountedSlots, SleepsWithWork, BitsSettled
<1>9. M!OneWaker' /\ M!WokenWithResult'
  BY <1>1, <1>3, <1>4 DEF MuxInv, M!OneWaker, M!WokenWithResult
<1> QED BY <1>7, <1>8, <1>9 DEF MuxInv

-----------------------------------------------------------------------------
(* A child. *)

\* A child runs and ends; nothing of the mux changes yet.
LEMMA MuxKidRuns == ASSUME MuxInv, NEW k \in M!Slots, M!Dispatch(k) \/ M!Finish(k) PROVE MuxInv'
<1>1. PICK p : /\ p \in {"running", "arriving"} /\ mkid[k] \in {"posted", "running"} /\ mkid' = [mkid EXCEPT ![k] = p]
               /\ UNCHANGED <<mparent, user, each, bits, active, remaining, slot, winner, cancelled>>
  BY DEF M!Dispatch, M!Finish, M!own
<1>2. mkid \in [M!Slots -> {"idle", "made", "posted", "running", "arriving", "resuming"}] /\ bits \in SUBSET M!Slots
  BY DEF MuxInv, M!TypeOK
<1>3. mkid'[k] = p /\ \A o \in M!Slots : o # k => mkid'[o] = mkid[o]
  BY <1>1, <1>2
<1>4. M!Started' = M!Started
  BY <1>1, <1>3, StartedKept
<1>5. M!TypeOK'
  BY <1>1, <1>2 DEF MuxInv, M!TypeOK
<1>6. UsedWhere' /\ CountedSlots' /\ SleepsWithWork' /\ BitsSettled'
  BY <1>1, <1>2, <1>3, <1>4 DEF MuxInv, UsedWhere, CountedSlots, SleepsWithWork, BitsSettled
<1>7. M!OneWaker' /\ M!WokenWithResult'
  BY <1>1, <1>3 DEF MuxInv, M!OneWaker, M!WokenWithResult
<1> QED BY <1>5, <1>6, <1>7 DEF MuxInv

\* fetch_or: EACH is taken by one child only, and with a result in the word.
LEMMA MuxArrive == ASSUME MuxInv, NEW k \in M!Slots, M!Arrive(k) PROVE MuxInv'
<1>1. PICK p : /\ p = (IF each THEN "idle" ELSE "resuming") /\ mkid[k] = "arriving" /\ mkid' = [mkid EXCEPT ![k] = p]
               /\ bits' = bits \cup {k} /\ each' = TRUE
               /\ UNCHANGED <<mparent, user, active, remaining, slot, winner, cancelled>>
  BY DEF M!Arrive, M!own
<1>2. mkid \in [M!Slots -> {"idle", "made", "posted", "running", "arriving", "resuming"}] /\ bits \in SUBSET M!Slots
  BY DEF MuxInv, M!TypeOK
<1>3. mkid'[k] = p /\ \A o \in M!Slots : o # k => mkid'[o] = mkid[o]
  BY <1>1, <1>2
<1>4. M!Started' = M!Started
  BY <1>1, <1>2, <1>3 DEF M!Started
<1>5. M!TypeOK'
  BY <1>1, <1>2 DEF MuxInv, M!TypeOK
<1>6. UsedWhere' /\ CountedSlots' /\ SleepsWithWork' /\ BitsSettled'
  BY <1>1, <1>2, <1>3, <1>4 DEF MuxInv, UsedWhere, CountedSlots, SleepsWithWork, BitsSettled
<1>7. M!OneWaker' /\ M!WokenWithResult'
  BY <1>1, <1>2, <1>3 DEF MuxInv, M!OneWaker, M!WokenWithResult
<1> QED BY <1>5, <1>6, <1>7 DEF MuxInv

\* The child that took EACH resumes the parent; no other is doing so.
LEMMA MuxResume == ASSUME MuxInv, NEW k \in M!Slots, M!Resume(k) PROVE MuxInv'
<1>1. /\ mkid[k] = "resuming" /\ mkid' = [mkid EXCEPT ![k] = "idle"] /\ mparent' \in {"resuming", "queued"}
      /\ UNCHANGED <<user, each, bits, active, remaining, slot, winner, cancelled>>
  BY DEF M!Resume, M!own
<1>2. /\ mkid \in [M!Slots -> {"idle", "made", "posted", "running", "arriving", "resuming"}] /\ bits \in SUBSET M!Slots
      /\ mparent = "waiting" /\ each /\ k \in bits /\ \A o \in M!Slots : o # k => mkid[o] # "resuming"
  BY <1>1 DEF MuxInv, M!TypeOK, M!OneWaker, BitsSettled
<1>3. mkid'[k] = "idle" /\ \A o \in M!Slots : o # k => mkid'[o] = mkid[o]
  BY <1>1, <1>2
<1>4. M!Started' = M!Started
  BY <1>1, <1>2, <1>3 DEF M!Started
<1>5. M!TypeOK'
  BY <1>1, <1>2 DEF MuxInv, M!TypeOK
<1>6. UsedWhere' /\ CountedSlots' /\ SleepsWithWork' /\ BitsSettled'
  BY <1>1, <1>2, <1>3, <1>4 DEF MuxInv, UsedWhere, CountedSlots, SleepsWithWork, BitsSettled
<1>7. M!OneWaker' /\ M!WokenWithResult'
  BY <1>1, <1>2, <1>3 DEF MuxInv, M!OneWaker, M!WokenWithResult
<1> QED BY <1>5, <1>6, <1>7 DEF MuxInv

\* Each operation of a mux.
LEMMA MuxStep == ASSUME MuxInv, M!Next PROVE MuxInv' \/ UNCHANGED muxVars
<1>1. CASE mparent = "ended" /\ UNCHANGED M!vars
  BY <1>1 DEF M!vars, muxVars
<1>2. CASE \E k \in M!Slots : M!KidStep(k)
  BY <1>2, MuxKidRuns, MuxArrive, MuxResume DEF M!KidStep
<1>3. CASE M!ParentStep
  BY <1>3, MuxPost, MuxAccount, MuxParent, MuxChoose, MuxTake DEF M!ParentStep
<1>4. CASE \E i \in M!Slots : M!Fork(i)
  BY <1>4, MuxFork
<1>5. CASE M!MuxTuple \/ M!MuxMany \/ M!Select \/ M!Await \/ M!Poll \/ M!Destroy \/ M!End
  BY <1>5, MuxMake, MuxParent, MuxChoose
<1> QED BY <1>1, <1>2, <1>3, <1>4, <1>5 DEF M!Next

\* The invariant is about these variables alone.
LEMMA MuxStutter == ASSUME MuxInv, UNCHANGED muxVars PROVE MuxInv'
<1>1. UNCHANGED <<mparent, user, each, bits, active, remaining, slot, mkid, winner, cancelled>>
  BY DEF muxVars
<1>2. M!Started' = M!Started /\ M!TypeOK'
  BY <1>1 DEF M!Started, MuxInv, M!TypeOK
<1>3. UsedWhere' /\ CountedSlots' /\ SleepsWithWork' /\ BitsSettled'
  BY <1>1, <1>2 DEF MuxInv, UsedWhere, CountedSlots, SleepsWithWork, BitsSettled
<1>4. M!OneWaker' /\ M!WokenWithResult'
  BY <1>1 DEF MuxInv, M!OneWaker, M!WokenWithResult
<1> QED BY <1>2, <1>3, <1>4 DEF MuxInv

\* A mux keeps its invariant, and nobody else touches its variables.
LEMMA MuxInvariant == MCSpec => []MuxInv
<1>1. MCInit => MuxInv
  BY MuxInit DEF MCInit
<1>2. ASSUME MuxInv, [MCNext]_mcVars PROVE MuxInv'
  <2>1. UNCHANGED muxVars \/ M!Next
    BY <1>2 DEF MCNext, InMux, InGroup, InChannel, mcVars
  <2> QED BY <1>2, <2>1, MuxStep, MuxStutter
<1> QED BY <1>1, <1>2, PTL DEF MCSpec

\* A mux wakes its parent by one child at most, with a result in the word (the asserts of
\* mux_await_resume), and takes each result once: a free slot has no child left.
THEOREM MuxTakesEachResultOnce == MCSpec => []EachResultOnce
BY MuxInvariant, MuxSays, PTL

\* Every step of a mux or a select keeps its types.
THEOREM MuxTypes == MCSpec => []M!TypeOK
<1>1. MuxInv => M!TypeOK
  BY DEF MuxInv
<1> QED BY <1>1, MuxInvariant, PTL
=============================================================================

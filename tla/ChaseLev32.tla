----------------------------- MODULE ChaseLev32 ------------------------------
(* chase_lev_deque without packing, for 32-bit platforms: top and bottom are
   words of their own, so try_pop announces what it wants in bottom before it
   looks at top, and the last item is decided by a CAS of top. The blocks, their
   growth and the stores of items are those of the 64-bit deque; the owner's
   cached bottom and block are what it loads there. *)
EXTENDS ChaseLev64

\* owner.b: b, the index try_pop wants; owner.t: top as it saw it.
StoreBottom(b) == state' = [state EXCEPT !.b = b]

\* try_pop: bottom is stored before top is loaded, also of an empty deque.
BeginPop32 ==
  /\ owner.pc = "idle"
  /\ StoreBottom(Wrap(state.b - 1))
  /\ owner' = [OwnerIdle EXCEPT !.pc = "wanted", !.b = Wrap(state.b - 1)]
  /\ UNCHANGED <<buffers, pushed, taken, thief>>

\* More than one item: no thief can reach the one at b.
PopPlenty ==
  /\ owner.pc = "wanted" /\ Diff(owner.b, state.t) > 0
  /\ Take(Item(Active, owner.b))
  /\ owner' = OwnerIdle
  /\ UNCHANGED <<state, buffers, pushed, thief>>

\* The last item, or none: bottom has to be put back, after the race in the first case.
PopFew ==
  /\ owner.pc = "wanted" /\ Diff(owner.b, state.t) <= 0
  /\ owner' = [owner EXCEPT !.pc = IF owner.b = state.t THEN "last" ELSE "restore",
                            !.t = state.t]
  /\ UNCHANGED <<state, buffers, pushed, taken, thief>>

\* Mutant: the owner takes the last item without a race.
PopLastUnraced ==
  /\ owner.pc = "last"
  /\ state' = [state EXCEPT !.t = Wrap(owner.t + 1)]
  /\ Take(Item(Active, owner.b))
  /\ owner' = [owner EXCEPT !.pc = "restore", !.n = 1]
  /\ UNCHANGED <<buffers, pushed, thief>>
\* The CAS of top; the winner has the item (owner.n: whether it is the owner).
PopLast ==
  /\ owner.pc = "last"
  /\ IF state.t = owner.t
     THEN /\ state' = [state EXCEPT !.t = Wrap(owner.t + 1)]
          /\ Take(Item(Active, owner.b))
          /\ owner' = [owner EXCEPT !.pc = "restore", !.n = 1]
     ELSE /\ owner' = [owner EXCEPT !.pc = "restore"]
          /\ UNCHANGED <<state, taken>>
  /\ UNCHANGED <<buffers, pushed, thief>>

PopEnd ==
  /\ owner.pc = "restore"
  /\ StoreBottom(Wrap(owner.b + 1))
  /\ owner' = OwnerIdle
  /\ UNCHANGED <<buffers, pushed, taken, thief>>

OwnerNext32 == \/ \E n \in 1..MaxBulk : BeginPush(n)
               \/ Grow \/ StoreHalf \/ StoreRest \/ Publish
               \/ BeginPop32 \/ PopPlenty \/ PopFew \/ PopLast \/ PopEnd
----------------------------------------------------------------------------
(* A thief. *)

ThiefGoes(s, next) ==
  /\ thief' = [thief EXCEPT ![s] = next]
  /\ UNCHANGED <<state, buffers, pushed, taken, owner>>

StealTop(s) ==
  /\ thief[s].pc = "idle"
  /\ ThiefGoes(s, [ThiefIdle EXCEPT !.pc = "bottom", !.t = state.t])

\* bottom is loaded twice, before and after the fence; either can show it empty.
\* tries: how often it was loaded.
StealBottom(s) ==
  /\ thief[s].pc = "bottom"
  /\ ThiefGoes(s, CASE Diff(state.b, thief[s].t) <= 0 -> ThiefIdle
                    [] thief[s].tries = 0 -> [thief[s] EXCEPT !.tries = 1]
                    [] OTHER -> [thief[s] EXCEPT !.pc = "buffer", !.tries = 0])

\* The CAS of top alone; a thief that loses it gives up.
StealCAS32(s) ==
  /\ thief[s].pc = "cas"
  /\ IF state.t = thief[s].t
     THEN state' = [state EXCEPT !.t = Wrap(@ + 1)] /\ Take(thief[s].item)
     ELSE UNCHANGED <<state, taken>>
  /\ thief' = [thief EXCEPT ![s] = ThiefIdle]
  /\ UNCHANGED <<buffers, pushed, owner>>

ThiefNext32(s) ==
  StealTop(s) \/ StealBottom(s) \/ StealBuffer(s) \/ StealItem(s) \/ StealCAS32(s)

Next32 == OwnerNext32 \/ \E s \in Thieves : ThiefNext32(s)
Spec32 == Init /\ [][Next32]_vars
----------------------------------------------------------------------------
(* The deque as its users see it.  An item that try_pop wants is in the deque   *)
(* until the load of top, or the CAS, decides whose it is.                     *)

Undecided == owner.pc \in {"wanted", "last"}
Size32 ==
  LET d == Diff(IF Undecided THEN Wrap(owner.b + 1) ELSE state.b, state.t)
  IN IF d > 0 THEN d ELSE 0
Items32 == [k \in 1..Size32 |-> Item(Active, Wrap(state.t + k - 1))]

\* try_pop returns false only when nothing is left (owner.n = 0: it took nothing).
Pop32MissesNothing ==
  [][ (owner.pc = "restore" /\ owner.n = 0 /\ owner'.pc = "idle") => Size' = 0 ]_vars
=============================================================================

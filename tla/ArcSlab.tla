------------------------------ MODULE ArcSlab -------------------------------
(* crates/arcslab/src/lib.rs: a slab of reference counted items on pages. The *)
(* slab counts its external references (ArcSlabRef and external handles) and  *)
(* is dropped with the last one; internal handles do not keep it alive. The   *)
(* slots of all pages that hold no item form one free list, which always has  *)
(* an element: the last free slot is handed out together with a new page.     *)
EXTENDS Integers, Sequences, FiniteSets

CONSTANTS PageSlots,    \* slots of a page
          MaxPages      \* bound on the pages

ASSUME SlabAssumption == PageSlots \in Nat \ {0} /\ MaxPages \in Nat \ {0}

Slots == 1 .. PageSlots * MaxPages

VARIABLES
  slabRc,     \* ArcSlabInt::rc
  items,      \* ArcSlabInt::items
  free,       \* the free list, from PageList::free_slot on
  pages,      \* the number of pages
  alive,      \* the slab has not been dropped
  rc          \* [slot -> the count in the item, 0 if there is none]

slabVars == <<slabRc, items, free, pages, alive, rc>>

(* Page::new: the slots of page p, linked in ascending order.                *)
PageOf(p) == [k \in 1 .. PageSlots |-> (p - 1) * PageSlots + k]

(* ArcSlab::new_with: one reference, one empty page.                         *)
SlabInit ==
  /\ slabRc = 1
  /\ items = 0
  /\ free = PageOf(1)
  /\ pages = 1
  /\ alive = TRUE
  /\ rc = [s \in Slots |-> 0]

(* ArcSlab::retain and release. The last release drops the data and, with    *)
(* the page list, all pages.                                                 *)
retain == slabRc' = slabRc + 1 /\ UNCHANGED <<free, pages, alive>>

\* Mutant: the reference of a thread that has just taken one may be missed.
ReleaseAtTwo ==
  /\ slabRc' = slabRc - 1
  /\ IF slabRc <= 2
     THEN alive' = FALSE /\ free' = <<>> /\ pages' = 0
     ELSE UNCHANGED <<free, pages, alive>>

release ==
  /\ slabRc' = slabRc - 1
  /\ IF slabRc = 1
     THEN alive' = FALSE /\ free' = <<>> /\ pages' = 0
     ELSE UNCHANGED <<free, pages, alive>>

(* PageList::get_slot under the lock of the pages.                           *)
NextSlot == Head(free)

\* Mutant: the last free slot is handed out without a new page.
GetSlotWithoutPage == free' = Tail(free) /\ UNCHANGED <<slabRc, pages, alive>>

get_slot ==
  /\ IF Len(free) > 1
     THEN free' = Tail(free) /\ UNCHANGED pages
     ELSE /\ pages < MaxPages
          /\ pages' = pages + 1
          /\ free' = PageOf(pages + 1)
  /\ UNCHANGED <<slabRc, alive>>

(* add_item counts the item once it has its slot.                            *)
count_item == items' = items + 1

\* Mutant: the number of items only grows.
UncountNothing == UNCHANGED items

(* Page::free_slot: the item is uncounted, then the slot returns to the list.*)
uncount_item == items' = items - 1

push_free(s) == free' = <<s>> \o free /\ UNCHANGED <<slabRc, pages, alive>>

(* The slots that exist and are not in the free list.                        *)
Taken == {s \in Slots : s <= pages * PageSlots} \ {free[k] : k \in DOMAIN free}
=============================================================================

-------------------------------- MODULE ListPages --------------------------------
(***************************************************************************)
(* The pages that list job descriptions and resume versions.  Both load    *)
(* the newest items once, delete an item after a question, and remember in *)
(* one variable which item is being deleted.  The page of the jobs has a   *)
(* form that adds one.  Other tabs add and delete, too.                    *)
(***************************************************************************)
EXTENDS Naturals, FiniteSets

CONSTANTS
  Item,         \* job descriptions, or resume versions
  PageSize,     \* PAGE_SIZE of listJobs and listVersions
  Deletion,     \* DELETE requests
  MaxTrouble    \* bound: requests that fail

ASSUME ListPagesAssumption ==
  MaxTrouble \in Nat /\ PageSize \in Nat /\ IsFiniteSet(Item) /\ "none" \notin Item

VARIABLES
  itemRows,        \* the items in the database
  createdAt,       \* when each was created, for those that were; 0 for the others
  items,           \* items, the list of the page
  itemsLoad,       \* loading, answered, loaded or failed
  itemsRead,       \* what the answer of load holds
  deleting,        \* deleting; "none" for null
  deletions,       \* the DELETE requests
  creation,        \* the POST request of the form
  creating,        \* submitting
  trouble,         \* requests that failed
  itemsUnheard,    \* history: items whose request failed after it was done
  deletesCrossed,  \* history: two items were being deleted at once
  createdEarly,    \* history: an item was added before the list was there
  otherHands       \* history: items that were added or deleted by somebody else

storeVars == <<itemRows, createdAt, otherHands>>
loadVars == <<itemsLoad, itemsRead>>
createVars == <<creation, creating, createdEarly>>
listPagesVars == <<storeVars, items, loadVars, deleting, deletions, createVars, trouble,
                   itemsUnheard, deletesCrossed>>

EverCreated == {i \in Item : createdAt[i] # 0}
CreatedAfter(i, is) == {j \in is : createdAt[j] > createdAt[i]}

NoDeletion == [at |-> "none", item |-> "none"]
Going == {d \in Deletion : deletions[d].at \notin {"none", "over"}}
Touched == {deletions[d].item : d \in Going} \cup
           (IF creation.at = "none" THEN {} ELSE {creation.item})

ListPagesTypeOK ==
  /\ createdAt \in [Item -> 0 .. Cardinality(Item)] /\ itemRows \subseteq EverCreated
  /\ items \subseteq Item
  /\ itemsLoad \in {"loading", "answered", "loaded", "failed"} /\ itemsRead \subseteq Item
  /\ deleting \in Item \cup {"none"}
  /\ deletions \in [Deletion -> [at : {"none", "sent", "done", "refused", "over"},
                                 item : Item \cup {"none"}]]
  /\ creation \in [at : {"none", "sent", "done"}, item : Item \cup {"none"}]
  /\ creating \in BOOLEAN
  /\ trouble \in 0 .. MaxTrouble
  /\ itemsUnheard \subseteq Item /\ deletesCrossed \in BOOLEAN /\ createdEarly \in BOOLEAN
  /\ otherHands \subseteq Item
  /\ deleting # "none" => \E d \in Going : deletions[d].item = deleting
  /\ creating <=> creation.at # "none"

ListPagesInit ==
  /\ createdAt \in [Item -> 0 .. Cardinality(Item)]
  /\ \A i \in EverCreated : createdAt[i] \in 1 .. Cardinality(EverCreated)
  /\ \A i, j \in EverCreated : createdAt[i] = createdAt[j] => i = j
  /\ itemRows = EverCreated /\ otherHands = {}
  /\ items = {} /\ itemsRead = {} /\ itemsLoad = "loading" /\ deleting = "none"
  /\ deletions = [d \in Deletion |-> NoDeletion]
  /\ creation = NoDeletion /\ creating = FALSE
  /\ trouble = 0 /\ itemsUnheard = {} /\ deletesCrossed = FALSE /\ createdEarly = FALSE

InTrouble == trouble < MaxTrouble /\ trouble' = trouble + 1

\* What listJobs and listVersions answer: one page.
NewestItems == {i \in itemRows : Cardinality(CreatedAfter(i, itemRows)) < PageSize}

\* Mutant: the oldest come first.
LoadItemsOldest ==
  /\ \/ /\ itemsLoad = "loading" /\ itemsLoad' = "answered"
        /\ itemsRead' = {i \in itemRows :
             Cardinality({j \in itemRows : createdAt[j] < createdAt[i]}) < PageSize}
        /\ UNCHANGED <<items, trouble>>
     \/ /\ itemsLoad = "answered" /\ itemsLoad' = "loaded" /\ items' = itemsRead
        /\ UNCHANGED <<itemsRead, trouble>>
  /\ UNCHANGED <<storeVars, deleting, deletions, createVars, itemsUnheard, deletesCrossed>>

\* load, and the answer's way to the page.  No page asks for a second one.
LoadItems ==
  /\ \/ /\ itemsLoad = "loading" /\ itemsLoad' = "answered" /\ itemsRead' = NewestItems
        /\ UNCHANGED <<items, trouble>>
     \/ /\ itemsLoad = "answered" /\ itemsLoad' = "loaded" /\ items' = itemsRead
        /\ UNCHANGED <<itemsRead, trouble>>
     \/ /\ itemsLoad \in {"loading", "answered"} /\ itemsLoad' = "failed" /\ InTrouble
        /\ UNCHANGED <<items, itemsRead>>
  /\ UNCHANGED <<storeVars, deleting, deletions, createVars, itemsUnheard, deletesCrossed>>

AskDeletion(i) ==
  \E d \in Deletion : /\ deletions[d].at = "none"
                      /\ deletions' = [deletions EXCEPT ![d] = [at |-> "sent", item |-> i]]

\* Mutant: the button is not disabled.
HandleDeleteItemAgain(i) ==
  /\ itemsLoad \in {"loaded", "failed"} /\ i \in items
  /\ AskDeletion(i) /\ deleting' = i
  /\ deletesCrossed' = (deletesCrossed \/ \E d \in Going : deletions[d].item # i)
  /\ UNCHANGED <<storeVars, items, loadVars, createVars, trouble, itemsUnheard>>

\* Only the button of the item in `deleting` is disabled.
HandleDeleteItem(i) ==
  /\ itemsLoad \in {"loaded", "failed"} /\ i \in items /\ deleting # i
  /\ AskDeletion(i) /\ deleting' = i
  /\ deletesCrossed' = (deletesCrossed \/ \E d \in Going : deletions[d].item # i)
  /\ UNCHANGED <<storeVars, items, loadVars, createVars, trouble, itemsUnheard>>

\* deleteJob, deleteVersion: 404 if it is gone.
ServeDeletion(d) ==
  /\ deletions[d].at = "sent"
  /\ itemRows' = itemRows \ {deletions[d].item}
  /\ deletions' = [deletions EXCEPT ![d].at =
                     IF deletions[d].item \in itemRows THEN "done" ELSE "refused"]
  /\ UNCHANGED <<createdAt, otherHands, items, loadVars, deleting, createVars, trouble,
                 itemsUnheard, deletesCrossed>>

\* Mutant: the button stays disabled.
DeletionArrivesBusy(d) ==
  /\ deletions[d].at = "done"
  /\ items' = items \ {deletions[d].item} /\ UNCHANGED deleting
  /\ deletions' = [deletions EXCEPT ![d].at = "over"]
  /\ UNCHANGED <<storeVars, loadVars, createVars, trouble, itemsUnheard,
                 deletesCrossed>>

\* `deleting` is cleared whichever item it names.
DeletionArrives(d) ==
  /\ deletions[d].at = "done"
  /\ items' = items \ {deletions[d].item} /\ deleting' = "none"
  /\ deletions' = [deletions EXCEPT ![d].at = "over"]
  /\ UNCHANGED <<storeVars, loadVars, createVars, trouble, itemsUnheard,
                 deletesCrossed>>

\* Mutant: the item goes even so.
DeletionFailsGone(d) ==
  /\ \/ deletions[d].at = "refused" /\ UNCHANGED <<trouble, itemsUnheard>>
     \/ /\ deletions[d].at \in {"sent", "done"} /\ InTrouble
        /\ itemsUnheard' = IF deletions[d].at = "sent" THEN itemsUnheard
                           ELSE itemsUnheard \cup {deletions[d].item}
  /\ deleting' = "none" /\ items' = items \ {deletions[d].item}
  /\ deletions' = [deletions EXCEPT ![d].at = "over"]
  /\ UNCHANGED <<storeVars, loadVars, createVars, deletesCrossed>>

\* An alert; the item stays.
DeletionFails(d) ==
  /\ \/ deletions[d].at = "refused" /\ UNCHANGED <<trouble, itemsUnheard>>
     \/ /\ deletions[d].at \in {"sent", "done"} /\ InTrouble
        /\ itemsUnheard' = IF deletions[d].at = "sent" THEN itemsUnheard
                           ELSE itemsUnheard \cup {deletions[d].item}
  /\ deleting' = "none"
  /\ deletions' = [deletions EXCEPT ![d].at = "over"]
  /\ UNCHANGED <<storeVars, items, loadVars, createVars, deletesCrossed>>

-----------------------------------------------------------------------------
(* The form, which is there while the list loads, too.                     *)

\* INSERT; `now` is taken just before it.
StoreItem(i) ==
  /\ itemRows' = itemRows \cup {i}
  /\ createdAt' = [createdAt EXCEPT ![i] = Cardinality(EverCreated) + 1]

HandleCreateItem ==
  /\ ~creating
  /\ \E i \in Item \ EverCreated : creation' = [at |-> "sent", item |-> i]
  /\ creating' = TRUE
  /\ createdEarly' = (createdEarly \/ itemsLoad \in {"loading", "answered"})
  /\ UNCHANGED <<storeVars, items, loadVars, deleting, deletions, trouble,
                 itemsUnheard, deletesCrossed>>

ServeCreation ==
  /\ creation.at = "sent" /\ creation' = [creation EXCEPT !.at = "done"]
  /\ StoreItem(creation.item)
  /\ UNCHANGED <<otherHands, items, loadVars, deleting, deletions, creating, createdEarly,
                 trouble, itemsUnheard, deletesCrossed>>

CreationEnds ==
  /\ \/ creation.at = "done" /\ items' = items \cup {creation.item}
        /\ UNCHANGED <<trouble, itemsUnheard>>
     \/ /\ creation.at # "none" /\ InTrouble /\ UNCHANGED items
        /\ itemsUnheard' = IF creation.at = "sent" THEN itemsUnheard
                           ELSE itemsUnheard \cup {creation.item}
  /\ creation' = NoDeletion /\ creating' = FALSE
  /\ UNCHANGED <<storeVars, loadVars, deleting, deletions, createdEarly,
                 deletesCrossed>>

\* A second tab.
ElsewhereItem(i) ==
  /\ \/ i \notin EverCreated /\ i # creation.item /\ StoreItem(i)
     \/ i \in itemRows /\ itemRows' = itemRows \ {i} /\ UNCHANGED createdAt
  /\ otherHands' = otherHands \cup {i}
  /\ UNCHANGED <<items, loadVars, deleting, deletions, createVars, trouble, itemsUnheard,
                 deletesCrossed>>

ListPagesNext ==
  \/ LoadItems \/ HandleCreateItem \/ ServeCreation \/ CreationEnds
  \/ \E i \in Item : HandleDeleteItem(i) \/ ElsewhereItem(i)
  \/ \E d \in Deletion : ServeDeletion(d) \/ DeletionArrives(d) \/ DeletionFails(d)

ListPagesSpec == ListPagesInit /\ [][ListPagesNext]_listPagesVars

-----------------------------------------------------------------------------
(* Correctness.                                                            *)

\* At least a page of items is newer.
IsBehindAPage(i) == Cardinality(CreatedAfter(i, Item)) >= PageSize

(***************************************************************************)
(* jobs/page.tsx:22-78 and resume/page.tsx:40-65, job.service.ts:102-106   *)
(* and resume.service.ts:222-226: an item that no request is about is in   *)
(* the list only if it is in the database, and missing from it only behind *)
(* a page of newer ones, whatever failed before; unless somebody else      *)
(* changed it, a request failed after it was done, or an item was added    *)
(* before the list was there, which then replaces it.                      *)
(***************************************************************************)
ItemsAreRows ==
  itemsLoad = "loaded" /\ ~createdEarly =>
    \A i \in Item \ (Touched \cup itemsUnheard \cup otherHands) :
      /\ i \in items => i \in itemRows
      /\ i \in itemRows => i \in items \/ IsBehindAPage(i)

(***************************************************************************)
(* jobs/page.tsx:67-78 and 208: an item is asked to be deleted twice at    *)
(* once only if another was being deleted meanwhile.                       *)
(***************************************************************************)
DeletedTwiceOnlyBehindAnother ==
  \A d, e \in Going : deletions[d].item = deletions[e].item => d = e \/ deletesCrossed

(***************************************************************************)
(* jobs/page.tsx and resume/page.tsx: the list is that of the database.    *)
(***************************************************************************)
ListsAgree == ItemsAreRows /\ DeletedTwiceOnlyBehindAnother

==================================================================================

----------------------------- MODULE PageStore -----------------------------
(***************************************************************************)
(* What the buffer pool promises its callers: a store of pages in which a  *)
(* page reads as what was last written to it by a thread that held it,     *)
(* however few frames there are and whatever is evicted or flushed.  A     *)
(* page that is new, or that was never written, reads as zeroes.  The      *)
(* promise ends for a page with its deletion.  BufferPool implements this  *)
(* module.                                                                 *)
(***************************************************************************)
EXTENDS Naturals

CONSTANTS PageId,  \* the pages of the open files: <<fd, page_no>>
          Thread,  \* threads using them
          Data,    \* page contents
          Zero,    \* the all-zero page
          NoPage   \* no page is held

VARIABLES
    content,   \* content[p]: what page p reads as, Zero once it is deleted
    held,      \* the page a thread holds
    size,      \* size[fd]: the next page number of the file
    deleted    \* the pages that were deleted

storeVars == << content, held, size, deleted >>

Init ==
    /\ content \in [PageId -> Data]
    /\ held = [t \in Thread |-> NoPage]
    /\ size \in [{ p[1] : p \in PageId } -> Nat]
    /\ deleted = {}

Take(t, p) == held[t] = NoPage /\ held' = [held EXCEPT ![t] = p]

Fetch(t, p) ==
    /\ p[2] < size[p[1]]
    /\ Take(t, p)
    /\ UNCHANGED << content, size, deleted >>

(* The next page of the file, and no other.                                *)
Create(t, p) ==
    /\ p[2] = size[p[1]]
    /\ Take(t, p)
    /\ content' = [content EXCEPT ![p] = Zero]
    /\ size' = [size EXCEPT ![p[1]] = @ + 1]
    /\ UNCHANGED deleted

Write(t, v) ==
    /\ held[t] # NoPage
    /\ content' = IF held[t] \in deleted THEN content ELSE [content EXCEPT ![held[t]] = v]
    /\ UNCHANGED << held, size, deleted >>

Release(t) ==
    /\ held[t] # NoPage
    /\ held' = [held EXCEPT ![t] = NoPage]
    /\ UNCHANGED << content, size, deleted >>

(* Never under a thread that holds the page.                               *)
Delete(p) ==
    /\ \A t \in Thread : held[t] # p
    /\ deleted' = deleted \cup {p}
    /\ content' = [content EXCEPT ![p] = Zero]
    /\ UNCHANGED << held, size >>

Next ==
    \/ \E t \in Thread :
        \/ \E p \in PageId : Fetch(t, p) \/ Create(t, p)
        \/ \E v \in Data : Write(t, v)
        \/ Release(t)
    \/ \E p \in PageId : Delete(p)

Spec == Init /\ [][Next]_storeVars
=============================================================================

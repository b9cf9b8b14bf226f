---------------------------- MODULE LRUReplacer ----------------------------
(***************************************************************************)
(* The replacement policy of the buffer pool (src/replacer).               *)
(*                                                                         *)
(* LRUReplacer keeps the unpinned frames in the list LRUlist_ and, in      *)
(* LRUhash_, an iterator into that list for every frame on it.  The hash   *)
(* is an index of the list and nothing else, so the list is the state: a   *)
(* sequence, front first.  unpin appends at the back, victim takes the     *)
(* front, hence the front is the frame that was unpinned longest ago.      *)
(* Every operation holds latch_ throughout and is one step of its caller.  *)
(***************************************************************************)
EXTENDS Sequences, SequencesExt

(* LRUhash_.count(frame_id): the frame is on the list.                     *)
IsEvictable(LRUlist, frame_id) == frame_id \in Range(LRUlist)

(* victim: fails on an empty list, otherwise pops the front.               *)
HasVictim(LRUlist) == LRUlist # << >>
Victim(LRUlist)    == Head(LRUlist)
AfterVictim(LRUlist) == Tail(LRUlist)

(* Mutant of Pin: the frame stays on the list.                             *)
Pin_KeepsFrame(LRUlist, frame_id) == LRUlist

(* pin: erase the frame from the list if it is there.                      *)
Pin(LRUlist, frame_id) ==
    IF IsEvictable(LRUlist, frame_id)
    THEN RemoveAt(LRUlist, CHOOSE i \in DOMAIN LRUlist : LRUlist[i] = frame_id)
    ELSE LRUlist

(* unpin: append, unless the frame is on the list or the list is full.     *)
Unpin(LRUlist, frame_id, max_size) ==
    IF IsEvictable(LRUlist, frame_id) \/ Len(LRUlist) >= max_size
    THEN LRUlist
    ELSE Append(LRUlist, frame_id)
=============================================================================

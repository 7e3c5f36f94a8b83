--------------------------- MODULE RobustCfgFormat ---------------------------
(***************************************************************************)
(* The on-disk format of a robust-config file (robust_cfg_format.h) and    *)
(* the computations robust_cfg.c makes on an image of it: a function from  *)
(* slot numbers to records.  A record keeps its state byte, its timestamp, *)
(* its key and value, and whether its stored CRC matches its content       *)
(* ("good"); the CRC is taken to detect every torn record, whose other     *)
(* content is then abstracted to NoKey and NoVal.                          *)
(***************************************************************************)
EXTENDS Integers, FiniteSetsExt

CONSTANTS Keys,      \* the keys clients use
          Vals,      \* the values clients write
          NoKey,     \* the key of a record that holds none
          NoVal,     \* "no value": what a key that is absent reads as
          Capacity   \* hdr.capacity: the number of record slots

ASSUME FormatAssumption ==
  /\ Capacity \in Nat \ {0}
  /\ NoKey \notin Keys
  /\ NoVal \notin Vals

Slots  == 0 .. Capacity - 1
NoSlot == -1

\* "ABSENT" is a slot beyond the end of the file: read_record fails on it.
SlotState == {"ABSENT", "EMPTY", "VALID", "DELETED", "CORRUPT"}

Record == [state : SlotState, good : BOOLEAN, ts : Nat,
           key : Keys \cup {NoKey}, val : Vals \cup {NoVal}]

Image == [Slots -> Record]

EmptyRec  == [state |-> "EMPTY", good |-> TRUE, ts |-> 0, key |-> NoKey, val |-> NoVal]
AbsentRec == [EmptyRec EXCEPT !.state = "ABSENT"]
NewRec(k, v, t) == [state |-> "VALID", good |-> TRUE, ts |-> t, key |-> k, val |-> v]

\* set_slot_state gives the slot its new state and a fresh CRC.
Marked(r, s) == [r EXCEPT !.state = s, !.good = TRUE]

\* A record whose write was cut short: the state byte is the old or the new
\* one and the CRC fails.
TornRecs(old, new) ==
  {[EmptyRec EXCEPT !.state = s, !.good = FALSE] : s \in {old.state, new.state} \ {"ABSENT"}}

(***************************************************************************)
(* The tests every scan of the file makes on a record.                     *)
(***************************************************************************)
LiveRec(r)   == r.state = "VALID" /\ r.good
LiveSlots(img) == {i \in Slots : LiveRec(img[i])}
Copies(img, k) == {i \in LiveSlots(img) : img[i].key = k}
Live(img, k)   == Copies(img, k) # {}

\* robust_cfg_write's scan: the first EMPTY slot (its CRC is not looked at)
\* and the last live copy of the key, whatever its timestamp.
FirstEmpty(img) == LET E == {i \in Slots : img[i].state = "EMPTY"}
                   IN IF E = {} THEN NoSlot ELSE Min(E)
LastCopy(img, k) == IF Live(img, k) THEN Max(Copies(img, k)) ELSE NoSlot

\* robust_cfg_read's scan: the greatest timestamp wins, and among equal
\* timestamps (>=) the highest slot.
BeatsStrictly(img, i, j) == \/ img[i].ts > img[j].ts    \* mutant: > for >=
                            \/ img[i].ts = img[j].ts /\ i <= j
Beats(img, i, j) == \/ img[i].ts > img[j].ts
                    \/ img[i].ts = img[j].ts /\ i >= j
BestCopy(img, k) == CHOOSE i \in Copies(img, k) : \A j \in Copies(img, k) : Beats(img, i, j)
Winner(img, k)   == IF Live(img, k) THEN BestCopy(img, k) ELSE NoSlot

\* What a client that reads k from this image is given.
Visible(img, k) == IF Live(img, k) THEN img[Winner(img, k)].val ELSE NoVal

(***************************************************************************)
(* The images the maintenance calls rewrite the file to.                   *)
(***************************************************************************)
\* validate_and_scan marks CORRUPT the used slots whose CRC fails;
\* robust_cfg_repair resets CORRUPT slots and VALID ones whose CRC fails.
ScrubSlots(img)  == {i \in Slots : img[i].state \in {"VALID", "DELETED"} /\ ~img[i].good}
RepairSlots(img) == {i \in Slots : \/ img[i].state = "CORRUPT"
                                   \/ img[i].state = "VALID" /\ ~img[i].good}

\* robust_cfg_compact: the live records in slot order from slot 0, then EMPTY.
RankFromOne(img, s) == Cardinality({r \in LiveSlots(img) : r <= s})  \* mutant
Rank(img, s) == Cardinality({r \in LiveSlots(img) : r < s})
CompactImage(img) ==
  [i \in Slots |-> IF \E s \in LiveSlots(img) : Rank(img, s) = i
                   THEN img[CHOOSE s \in LiveSlots(img) : Rank(img, s) = i]
                   ELSE EmptyRec]

\* After a power cut each slot that was written since the last sync holds its
\* synced content, its cached content, or a torn mixture.
Survivors(cached, synced) ==
  IF cached = synced THEN {cached} ELSE {cached, synced} \cup TornRecs(synced, cached)
PowerCutImages(cache, media) ==
  {img \in [Slots -> UNION {Survivors(cache[i], media[i]) : i \in Slots}] :
     \A i \in Slots : img[i] \in Survivors(cache[i], media[i])}
=============================================================================

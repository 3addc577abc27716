------------------------------ MODULE RingLog ------------------------------
(***************************************************************************)
(* A log of fixed-size records on the W25Q flash (persist/event_log.c and, *)
(* the same code again, persist/session_log.c).  The sectors form a ring;  *)
(* the head is kept in RAM only and found again by a scan at boot.         *)
(***************************************************************************)
EXTENDS Naturals, FiniteSetsExt

CONSTANTS
  SECTORS, PER_SECTOR,   \* sectors of the ring, records of a sector
  Stamps, Times          \* boot_count and timestamp of a record

VARIABLES
  ring,    \* what each record slot holds
  head,    \* s_head_slot
  up,      \* s_initialized
  stamp,   \* s_boot_count
  kept,    \* history: records appended in a row, up to what the ring keeps
  sound    \* history: nothing has disturbed the order of the records

logVars == <<ring, head, up, stamp, kept, sound>>

TOTAL   == SECTORS * PER_SECTOR
Blank   == [kind |-> "blank", boot |-> 0, ts |-> 0]
Garbage == [kind |-> "garbage", boot |-> 0, ts |-> 0]
Entry(b, t) == [kind |-> "valid", boot |-> b, ts |-> t]
Cell == {Blank, Garbage} \cup {Entry(b, t) : b \in Stamps, t \in Times}

Sector(i)    == i \div PER_SECTOR
SectorOf(s)  == {i \in 0..(TOTAL - 1) : Sector(i) = s}
AtStart(i)   == i % PER_SECTOR = 0
After(i)     == (i + 1) % TOTAL
Back(i, n)   == (i + TOTAL - n) % TOTAL

\* classify_record.
classify_record(f, i) == f[i].kind

\* One key is at most the other: boot counts first, ticks next.
AtMost(a, b) == a.boot < b.boot \/ (a.boot = b.boot /\ a.ts <= b.ts)

\* The order the scan relies on: a record is not older than the one before it, nor as
\* old where the ring wraps.
Follows(last, e) == AtMost(last, e) /\ (head = 0 => last # e)

\* Mutant: of records with the same stamp the first is taken for the latest.
Latest_First(f) ==
  LET valid == {i \in 0..(TOTAL - 1) : classify_record(f, i) = "valid"}
      top   == {i \in valid : \A j \in valid : AtMost(f[j], f[i])}
  IN  Min(top)

\* The slot the scan ends up with: the largest key, the last slot among equals.
Latest(f) ==
  LET valid == {i \in 0..(TOTAL - 1) : classify_record(f, i) = "valid"}
      top   == {i \in valid : \A j \in valid : AtMost(f[j], f[i])}
  IN  Max(top)

\* The head event_log_init computes.
ScanHead(f) ==
  IF \E i \in 0..(TOTAL - 1) : classify_record(f, i) = "valid" THEN After(Latest(f)) ELSE 0

\* A chip is blank, or full of what the previous firmware left in the region.
LogInit ==
  /\ ring \in {[i \in 0..(TOTAL - 1) |-> c] : c \in {Blank, Garbage}}
  /\ head = 0 /\ up = FALSE /\ stamp = 0 /\ kept = 0 /\ sound = TRUE

\* event_log_init and event_log_set_boot_count.  The keys are in order as long as
\* boot counts only grow.
event_log_init(b) ==
  /\ head' = ScanHead(ring) /\ up' = TRUE /\ stamp' = b
  /\ sound' = (sound /\ \A i \in DOMAIN ring : ring[i].kind = "valid" => ring[i].boot < b)
  /\ UNCHANGED <<ring, kept>>

\* Power or a reset takes what is in RAM.
LogReset == head' = 0 /\ up' = FALSE /\ stamp' = 0 /\ UNCHANGED <<ring, kept, sound>>

NeedsErase == AtStart(head) /\ ring[head] # Blank

\* Programming clears bits: a slot that is neither blank nor already right is spoilt.
Burn(f, i, e) == [f EXCEPT ![i] = IF @ \in {Blank, e} THEN e ELSE Garbage]

\* Mutant: the probe is left out, the sector is programmed as it is.
Erased_Never(f) == f

\* The sector of the head after w25q_erase_sector.
Erased(f) == [i \in DOMAIN f |-> IF Sector(i) = Sector(head) THEN Blank ELSE f[i]]

\* What an erase that fails or is cut off may leave: any cell old, blank or garbage.
HalfErased(f) ==
  {[i \in DOMAIN f |-> IF i \in SectorOf(Sector(head)) THEN c[i] ELSE f[i]] :
     c \in [SectorOf(Sector(head)) -> {Blank, Garbage}]} \cup {f}

\* Only the first record of a sector is probed: behind a blank first record the
\* rest of a half erased sector goes unnoticed.
HiddenLeftover(f) ==
  ring[head] # Blank /\ f[head] = Blank /\ f # Erased(f)

\* event_log_append returns 0.
Append(t) ==
  LET e    == Entry(stamp, t)
      last == ring[Back(head, 1)]
  IN  /\ up
      /\ ring' = Burn(IF NeedsErase THEN Erased(ring) ELSE ring, head, e)
      /\ head' = After(head)
      /\ kept' = IF kept < TOTAL - PER_SECTOR THEN kept + 1 ELSE kept
      /\ sound' = (sound /\ (last.kind = "valid" => Follows(last, e)))
      /\ UNCHANGED <<up, stamp>>

\* event_log_append returns -2: the erase failed; the head stays.
AppendEraseFails ==
  /\ up /\ NeedsErase
  /\ ring' \in HalfErased(ring)
  /\ sound' = (sound /\ ~HiddenLeftover(ring'))
  /\ UNCHANGED <<head, up, stamp, kept>>

\* event_log_append returns -3: the program failed, whatever it left in the slot;
\* the head stays and the next append goes over it.  With a reset behind it, this is
\* also a loss of power during an append.
AppendProgramFails(t) ==
  LET f == IF NeedsErase THEN Erased(ring) ELSE ring
  IN  /\ up
      /\ ring' \in {f, Burn(f, head, Entry(stamp, t)), Burn(f, head, Garbage)}
      /\ sound' = (sound /\ ring' = f)
      /\ UNCHANGED <<head, up, stamp, kept>>

\* event_log_read_nth, as handle_get_fault_log walks it: the newest records first,
\* blank and corrupt slots skipped.
Newest(n) ==
  LET back == [k \in 1..TOTAL |-> ring[Back(head, k)]]
      good == {k \in 1..TOTAL : back[k].kind = "valid"}
  IN  {k \in good : Cardinality({j \in good : j < k}) < n}

-----------------------------------------------------------------------------
LogTypeOK ==
  /\ ring \in [0..(TOTAL - 1) -> Cell] /\ head \in 0..(TOTAL - 1)
  /\ up \in BOOLEAN /\ stamp \in Stamps \cup {0}
  /\ kept \in 0..(TOTAL - PER_SECTOR) /\ sound \in BOOLEAN

\* As long as every boot had a larger count than the one before, ticks came in order
\* and no program command failed, the head a reboot would find is the one in RAM:
\* a restart neither skips slots nor goes back over records.
RestartFindsHead == up /\ sound => ScanHead(ring) = head

\* Under the same conditions the records last appended are all readable: erasing for
\* a new one costs at most the oldest sector.
KeepsRecent ==
  up /\ sound => Newest(kept) = 1..kept
=============================================================================

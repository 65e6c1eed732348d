------------------------------ MODULE FlashLoad ------------------------------
(***************************************************************************)
(* The flash loader of the kea128 board: areas of the program flash are    *)
(* erased and loaded through a buffer of one sector (flash_load.c over     *)
(* flash.c).  A memory is a record: mem, the flash by address, buf, the    *)
(* buffer by offset, and touched, the sectors an operation erased or wrote *)
(* so far.  Sectors have FLASH_SECTOR_SIZE cells.                          *)
(***************************************************************************)
EXTENDS Naturals, Sequences, SequencesExt

CONSTANTS FLASH_SECTOR_SIZE, FLASH_SIZE

Offsets == 0..(FLASH_SECTOR_SIZE - 1)
Blank == "blank"
Sector(addr) == addr \div FLASH_SECTOR_SIZE
Offset(addr) == addr % FLASH_SECTOR_SIZE
Begin(sec) == sec * FLASH_SECTOR_SIZE
\* Reads beyond the flash find nothing there.
At(m, addr) == IF addr < FLASH_SIZE THEN m.mem[addr] ELSE Blank

flash_erase_sector(m, sec) ==
  [m EXCEPT !.mem = [a \in DOMAIN @ |-> IF Sector(a) = sec THEN Blank ELSE @[a]], !.touched = @ \cup {sec}]
\* Erases and programs; a sector out of range is refused.
flash_write_sector(m, sec) ==
  [m EXCEPT !.mem = [a \in DOMAIN @ |-> IF Sector(a) = sec THEN m.buf[Offset(a)] ELSE @[a]], !.touched = @ \cup {sec}]
\* Copy the flash of a sector into the buffer at the offsets in which.
Keeps(m, sec, which) == [m EXCEPT !.buf = [o \in Offsets |-> IF o \in which THEN At(m, Begin(sec) + o) ELSE @[o]]]
Blanks(m, which) == [m EXCEPT !.buf = [o \in Offsets |-> IF o \in which THEN Blank ELSE @[o]]]

\* The bytes around the area are kept in the buffer while their sectors are
\* erased.  Where the area fills its last sector, or begins with its only
\* one, the buffer still holds what it held before.
flash_load_erase(m, start, size) ==
  LET end == start + size - 1
      head == Offset(start)
      tail == Offset(end + 1)
      first == IF head # 0 THEN Blanks(Keeps(m, Sector(start), 0..(head - 1)), head..(FLASH_SECTOR_SIZE - 1)) ELSE m
      middle == FoldLeft(flash_erase_sector, first, [i \in 1..(Sector(end) - Sector(start)) |-> Sector(start) + i - 1])
      several == Sector(start) # Sector(end)
      written == IF several /\ head # 0 THEN flash_write_sector(middle, Sector(start)) ELSE middle
      last == IF tail = 0 THEN written
              ELSE Keeps(IF several THEN Blanks(written, 0..(tail - 1)) ELSE written, Sector(end), tail..(FLASH_SECTOR_SIZE - 1))
  IN  flash_write_sector(flash_erase_sector(last, Sector(end)), Sector(end))

\* What stands before the first address in its sector goes to the buffer.
flash_load_prepare(m, addr) == IF Offset(addr) = 0 THEN m ELSE Keeps(m, Sector(addr), 0..(Offset(addr) - 1))

\* One more cell; a full buffer is written.  Behind the flash the write is
\* refused, and the rest of the data is not taken.
LoadsCell(s, v) ==
  LET m == [s.m EXCEPT !.buf[Offset(s.cur)] = v]
  IN  IF ~s.ok THEN s
      ELSE IF Offset(s.cur) # FLASH_SECTOR_SIZE - 1 THEN [s EXCEPT !.m = m, !.cur = @ + 1]
      ELSE IF s.cur >= FLASH_SIZE THEN [s EXCEPT !.m = m, !.ok = FALSE]
      ELSE [s EXCEPT !.m = flash_write_sector(m, Sector(s.cur)), !.cur = @ + 1]
flash_load_continue(m, cur, data) == FoldLeft(LoadsCell, [cur |-> cur, m |-> m, ok |-> TRUE], data)

\* Faulty variant: the rest of the last sector is not read back.
flash_load_finalize_short(m, cur) == flash_write_sector(m, Sector(cur))

\* The last sector keeps what stands behind the last address, also when the
\* last address ends a sector: the next one is then written as it was.
flash_load_finalize(m, cur) ==
  flash_write_sector(Keeps(m, Sector(cur), Offset(cur)..(FLASH_SECTOR_SIZE - 1)), Sector(cur))
=============================================================================

----------------------------- MODULE GpuProofs ------------------------------
(***************************************************************************)
(* Proofs about Gpu, for a terminal of any size.  For any number of        *)
(* threads that preempt one another: TypeOK and Coherent.  For one thread: *)
(* SyncShows, and that the cell-by-cell loops implement Terminal.          *)
(*                                                                         *)
(* Coherent is not inductive: that a cell is on the screen when its dirty  *)
(* bit is cleared follows from the picture made two steps before, which    *)
(* must still be the cell's text (Pictures).                               *)
(***************************************************************************)
EXTENDS Gpu, TLAPS

\* Between calls, and before the margin is wiped, a loop counter is zero.
Rested == \A t \in Threads : pc[t] \in {"idle", "vga", "wipe"} => now[t] = 0

\* Unless it was written or painted over, the cell a thread is drawing has the text of
\* the thread's picture, and once drawn shows it.
Pictures ==
  \A t \in Threads : pc[t] \in {"draw", "clean"} /\ ~hit[t] =>
    /\ buffer[t] = terminal_cells[now[t]].text
    /\ pc[t] = "clean" /\ now[t] \notin stale => fb[now[t]] = buffer[t]

\* The inductive invariant.
IInv == TypeOK /\ Rested /\ Pictures /\ Coherent

-----------------------------------------------------------------------------
(* With one thread.                                                          *)

\* Nothing disturbs a drawing.
Alone == \A t \in Threads : ~hit[t]

\* The cells its loop has passed are clean, when all are to be drawn.
Passed ==
  \A t \in Threads, n \in Cells :
    pc[t] = "vga" \/ (pc[t] \in {"sync", "draw", "clean"} /\ n < now[t])
      => ~terminal_cells[n].dirty

\* A cell that shows no text of its own is dirty, or painted over since it was scrolled.
Redrawn ==
  \A n \in Cells : n \in stale \ painted /\ ~Scrolling(n) =>
    terminal_cells[n].dirty /\ \A t \in Threads : ~(pc[t] = "clean" /\ now[t] = n)

Wiped == Margin \notin painted => fb[Margin] = Black

Single == Alone /\ Passed /\ Redrawn /\ Wiped

\* The inductive invariant for one thread.
OneInv == IInv /\ Single

-----------------------------------------------------------------------------
(* Cells and loops.                                                          *)

CellType == [text : Texts, dirty : BOOLEAN]

LEMMA LastIsNat == Last \in Nat /\ 0 \in Cells /\ Last \in Cells
<1>1. Rows \in Nat \ {0} /\ Cols \in Nat \ {0}
  BY GpuAssumption
<1>2. Rows * Cols \in Nat \ {0}
  BY <1>1
<1> QED
  BY <1>2 DEF Last, Cells

LEMMA CellFields ==
  ASSUME NEW x \in Texts
  PROVE  /\ Dirty(x) \in CellType /\ Dirty(x).text = x /\ Dirty(x).dirty = TRUE
         /\ Clean(x) \in CellType /\ Clean(x).text = x /\ Clean(x).dirty = FALSE
BY DEF CellType, Dirty, Clean

\* What a turn of a loop does to the counter and the program counter.
LEMMA Turn ==
  ASSUME TypeOK, NEW t \in Threads, NEW l \in Labels, NEW m \in Labels, Advanced(t, l, m)
  PROVE  /\ now' \in [Threads -> Cells] /\ pc' \in [Threads -> Labels]
         /\ \A u \in Threads \ {t} : now'[u] = now[u] /\ pc'[u] = pc[u]
         /\ now[t] = Last => now'[t] = 0 /\ pc'[t] = m
         /\ now[t] # Last => now'[t] = now[t] + 1 /\ pc'[t] = l
<1>1. now \in [Threads -> Cells] /\ pc \in [Threads -> Labels] /\ now[t] \in Cells
  BY DEF TypeOK
<1>2. now[t] # Last => now[t] + 1 \in Cells
  BY <1>1, LastIsNat DEF Cells
<1> QED
  BY <1>1, <1>2, LastIsNat DEF Advanced, Goto

\* What a step of t to label l does.
LEMMA Step ==
  ASSUME TypeOK, NEW t \in Threads, NEW l \in Labels, Goto(t, l)
  PROVE  /\ pc' \in [Threads -> Labels] /\ pc'[t] = l
         /\ \A u \in Threads \ {t} : pc'[u] = pc[u]
BY DEF TypeOK, Goto

\* Those who are drawing a cell that is changed are told.
LEMMA Told ==
  ASSUME TypeOK, NEW t \in Threads, NEW n \in Cells, Spoil(t, n)
  PROVE  /\ hit' \in [Threads -> BOOLEAN]
         /\ \A u \in Threads : hit[u] => hit'[u]
         /\ \A u \in Threads \ {t} : pc[u] \in {"draw", "clean"} /\ now[u] = n => hit'[u]
BY DEF TypeOK, Spoil, Drawing

\* One cell is written.
LEMMA CellWrite ==
  ASSUME TypeOK, NEW n \in Cells, NEW c \in CellType,
         terminal_cells' = [terminal_cells EXCEPT ![n] = c]
  PROVE  /\ terminal_cells' \in [Cells -> CellType]
         /\ terminal_cells'[n] = c
         /\ \A k \in Cells \ {n} : terminal_cells'[k] = terminal_cells[k]
BY DEF TypeOK, CellType

-----------------------------------------------------------------------------
(* Any number of threads: the initial states, and what only moves a thread.  *)

LEMMA InitInv == Init => IInv
<1> SUFFICES ASSUME Init PROVE IInv
  OBVIOUS
<1>1. Blank \in Texts /\ Dirty(Blank) \in CellType /\ Dirty(Blank).dirty = TRUE
  BY GpuAssumption, CellFields
<1>2. TypeOK
  BY <1>1, LastIsNat DEF Init, TypeOK, Labels, Blocks, CellType
<1>3. Rested /\ Pictures
  BY DEF Init, Rested, Pictures
<1>4. Coherent
  BY <1>1 DEF Init, Coherent
<1> QED
  BY <1>2, <1>3, <1>4 DEF IInv

\* A step that leaves cells and screen alone, and starts no drawing.
LEMMA Moves ==
  ASSUME IInv, NEW t \in Threads, NEW l \in Labels \ {"draw", "clean"}, Goto(t, l),
         l \in {"idle", "vga", "wipe"} => now[t] = 0,
         pc[t] \notin {"move", "mark"},
         sync' \in [Threads -> BOOLEAN],
         UNCHANGED <<terminal_cells, fb, loop, aux>>
  PROVE  IInv'
<1>1. /\ pc' \in [Threads -> Labels] /\ pc'[t] = l
      /\ \A u \in Threads \ {t} : pc'[u] = pc[u]
  BY Step DEF IInv
<1>2. TypeOK'
  BY <1>1 DEF IInv, TypeOK, loop, aux
<1>3. Rested'
  BY <1>1 DEF IInv, Rested, loop
<1>4. Pictures'
  BY <1>1 DEF IInv, Pictures, loop, aux
<1>5. \A n \in Cells : Scrolling(n) => Scrolling(n)'
  BY <1>1 DEF Scrolling, loop
<1>6. Coherent'
  BY <1>5 DEF IInv, Coherent, aux
<1> QED
  BY <1>2, <1>3, <1>4, <1>6 DEF IInv

LEMMA ClearCallInv ==
  ASSUME IInv, NEW t \in Threads, NEW s \in BOOLEAN, TerminalClear(t, s)
  PROVE  IInv'
<1>1. sync' \in [Threads -> BOOLEAN]
  BY DEF IInv, TypeOK, TerminalClear
<1> QED
  BY <1>1, Moves DEF TerminalClear, Labels

LEMMA FlushInv ==
  ASSUME IInv, NEW t \in Threads, TerminalFlush(t)
  PROVE  IInv'
<1>1. sync' \in [Threads -> BOOLEAN]
  BY DEF IInv, TypeOK, TerminalFlush
<1> QED
  BY <1>1, Moves DEF TerminalFlush, Labels

LEMMA SyncVgaInv ==
  ASSUME IInv, NEW t \in Threads, SyncVga(t)
  PROVE  IInv'
<1>1. sync' \in [Threads -> BOOLEAN] /\ now[t] = 0
  BY DEF IInv, TypeOK, Rested, SyncVga
<1> QED
  BY <1>1, Moves DEF SyncVga, Labels

LEMMA ChscrollInv ==
  ASSUME IInv, NEW t \in Threads, NEW ismove \in BOOLEAN, Chscroll(t, ismove)
  PROVE  IInv'
<1>1. sync' \in [Threads -> BOOLEAN] /\ now[t] = 0
  BY DEF IInv, TypeOK, Rested, Chscroll
<1>2. CASE ismove
  BY <1>1, <1>2, Moves DEF Chscroll, Labels
<1>3. CASE ~ismove
  BY <1>1, <1>3, Moves DEF Chscroll, Labels
<1> QED
  BY <1>2, <1>3

LEMMA StutterInv == IInv /\ UNCHANGED vars => IInv'
<1> SUFFICES ASSUME IInv, UNCHANGED vars PROVE IInv'
  OBVIOUS
<1> USE DEF vars, loop, aux, IInv
<1>1. TypeOK' /\ Rested' /\ Pictures'
  BY DEF TypeOK, Rested, Pictures
<1>2. Coherent'
  BY DEF Coherent, Scrolling
<1> QED
  BY <1>1, <1>2

-----------------------------------------------------------------------------
(* Any number of threads: the steps that write a cell.                       *)

\* Another's write leaves a drawing alone, or is known to it.
LEMMA WriteKeepsPictures ==
  ASSUME IInv, NEW t \in Threads, NEW n \in Cells, NEW c \in CellType,
         terminal_cells' = [terminal_cells EXCEPT ![n] = c], Spoil(t, n),
         UNCHANGED <<fb, buffer, stale>>,
         \A u \in Threads \ {t} : pc'[u] = pc[u] /\ now'[u] = now[u],
         pc'[t] \notin {"draw", "clean"}
  PROVE  Pictures'
<1>1. TypeOK
  BY DEF IInv
<1>2. SUFFICES ASSUME NEW u \in Threads, pc'[u] \in {"draw", "clean"}, ~hit'[u]
               PROVE  /\ buffer'[u] = terminal_cells'[now'[u]].text
                      /\ pc'[u] = "clean" /\ now'[u] \notin stale' => fb'[now'[u]] = buffer'[u]
  BY DEF Pictures
<1>3. u # t /\ pc'[u] = pc[u] /\ now'[u] = now[u]
  BY <1>2
<1>4. ~hit[u] /\ now[u] # n
  BY <1>1, <1>2, <1>3, Told
<1>5. terminal_cells'[now[u]] = terminal_cells[now[u]]
  BY <1>1, <1>4, CellWrite DEF TypeOK
<1> QED
  BY <1>2, <1>3, <1>4, <1>5 DEF IInv, Pictures

LEMMA PutInv ==
  ASSUME IInv, NEW t \in Threads, NEW n \in Cells, NEW x \in Texts, NEW s \in BOOLEAN,
         TerminalPut(t, n, x, s)
  PROVE  IInv'
<1> USE DEF TerminalPut, loop
<1>1. TypeOK /\ Synced(s) \in {"sync", "idle"} /\ Synced(s) \in Labels
  BY DEF IInv, Synced, Labels
<1>2. /\ pc' \in [Threads -> Labels] /\ pc'[t] = Synced(s)
      /\ \A u \in Threads \ {t} : pc'[u] = pc[u]
  BY <1>1, Step
<1>3. Dirty(x) \in CellType /\ Dirty(x).dirty = TRUE
  BY CellFields
<1>4. /\ terminal_cells' \in [Cells -> CellType] /\ terminal_cells'[n] = Dirty(x)
      /\ \A k \in Cells \ {n} : terminal_cells'[k] = terminal_cells[k]
  BY <1>1, <1>3, CellWrite DEF Written
<1>5. hit' \in [Threads -> BOOLEAN]
  BY <1>1, Told
<1>6. TypeOK'
  BY <1>1, <1>2, <1>4, <1>5 DEF TypeOK, CellType
<1>7. Rested'
  BY <1>1, <1>2 DEF IInv, Rested
<1>8. Pictures'
  BY <1>1, <1>2, <1>3, WriteKeepsPictures DEF Written
<1>9. Coherent'
  <2> SUFFICES ASSUME NEW k \in Cells, ~terminal_cells'[k].dirty, k \notin stale',
                      ~Scrolling(k)'
               PROVE  fb'[k] = terminal_cells'[k].text
    BY DEF Coherent
  <2>1. terminal_cells'[k] = terminal_cells[k]
    BY <1>3, <1>4
  <2>2. ~Scrolling(k)
    BY <1>2 DEF Scrolling
  <2> QED
    BY <2>1, <2>2 DEF IInv, Coherent
<1> QED
  BY <1>6, <1>7, <1>8, <1>9 DEF IInv

LEMMA ClearCellInv ==
  ASSUME IInv, NEW t \in Threads, ClearCell(t)
  PROVE  IInv'
<1> USE DEF ClearCell
<1>1. TypeOK /\ now[t] \in Cells /\ Blank \in Texts
  BY GpuAssumption DEF IInv, TypeOK
<1> DEFINE l == Synced(sync[t])
<1>2. l \in {"sync", "idle"} /\ l \in Labels /\ "clear" \in Labels
  BY DEF Synced, Labels
<1>3. Advanced(t, "clear", l)
  OBVIOUS
<1> HIDE DEF l
<1>4. /\ now' \in [Threads -> Cells] /\ pc' \in [Threads -> Labels]
      /\ \A u \in Threads \ {t} : now'[u] = now[u] /\ pc'[u] = pc[u]
      /\ now[t] = Last => now'[t] = 0 /\ pc'[t] = l
      /\ now[t] # Last => now'[t] = now[t] + 1 /\ pc'[t] = "clear"
  BY <1>1, <1>2, <1>3, Turn
<1>5. Dirty(Blank) \in CellType /\ Dirty(Blank).dirty = TRUE
  BY <1>1, CellFields
<1>6. /\ terminal_cells' \in [Cells -> CellType] /\ terminal_cells'[now[t]] = Dirty(Blank)
      /\ \A k \in Cells \ {now[t]} : terminal_cells'[k] = terminal_cells[k]
  BY <1>1, <1>5, CellWrite
<1>7. hit' \in [Threads -> BOOLEAN] /\ sync' \in [Threads -> BOOLEAN]
  <2>1. sync \in [Threads -> BOOLEAN] /\ (sync[t] /\ now[t] # Last) \in BOOLEAN
    BY <1>1 DEF TypeOK
  <2> QED
    BY <1>1, <2>1, Told
<1>8. TypeOK'
  BY <1>1, <1>4, <1>6, <1>7 DEF TypeOK, CellType
<1>9. Rested'
  BY <1>2, <1>4 DEF IInv, Rested
<1>10. Pictures'
  BY <1>1, <1>2, <1>4, <1>5, WriteKeepsPictures
<1>11. Coherent'
  <2> SUFFICES ASSUME NEW k \in Cells, ~terminal_cells'[k].dirty, k \notin stale',
                      ~Scrolling(k)'
               PROVE  fb'[k] = terminal_cells'[k].text
    BY DEF Coherent
  <2>1. terminal_cells'[k] = terminal_cells[k]
    BY <1>5, <1>6
  <2>2. ~Scrolling(k)
    BY <1>4 DEF Scrolling
  <2> QED
    BY <2>1, <2>2 DEF IInv, Coherent
<1> QED
  BY <1>8, <1>9, <1>10, <1>11 DEF IInv

\* While rows move, no cell is claimed to be on the screen.
LEMMA MoveCellInv ==
  ASSUME IInv, NEW t \in Threads, MoveCell(t)
  PROVE  IInv'
<1> USE DEF MoveCell
<1>1. /\ TypeOK /\ now[t] \in Cells /\ Blank \in Texts
      /\ terminal_cells \in [Cells -> CellType]
  BY GpuAssumption DEF IInv, TypeOK, CellType
<1>2. "move" \in Labels /\ "mark" \in Labels
  BY DEF Labels
<1>3. /\ now' \in [Threads -> Cells] /\ pc' \in [Threads -> Labels]
      /\ \A u \in Threads \ {t} : now'[u] = now[u] /\ pc'[u] = pc[u]
      /\ now[t] = Last => now'[t] = 0 /\ pc'[t] = "mark"
      /\ now[t] # Last => now'[t] = now[t] + 1 /\ pc'[t] = "move"
  BY <1>1, <1>2, Turn
<1>4. Moved(now[t]) \in CellType
  BY <1>1, CellFields DEF Moved
<1>5. /\ terminal_cells' \in [Cells -> CellType]
      /\ hit' \in [Threads -> BOOLEAN]
  BY <1>1, <1>4, CellWrite, Told
<1>6. TypeOK'
  BY <1>1, <1>3, <1>5 DEF TypeOK, CellType
<1>7. Rested'
  BY <1>3 DEF IInv, Rested
<1>8. Pictures'
  BY <1>1, <1>3, <1>4, WriteKeepsPictures
<1>9. \A k \in Cells : Scrolling(k)'
  BY <1>3 DEF Scrolling, Cells
<1> QED
  BY <1>6, <1>7, <1>8, <1>9 DEF IInv, Coherent

\* The cell that is no longer claimed to move is dirty.
LEMMA MarkCellInv ==
  ASSUME IInv, NEW t \in Threads, MarkCell(t)
  PROVE  IInv'
<1> USE DEF MarkCell
<1> DEFINE n == now[t]
           c == Dirty(terminal_cells[n].text)
<1>1. TypeOK /\ n \in Cells /\ terminal_cells \in [Cells -> CellType]
  BY DEF IInv, TypeOK, CellType
<1>2. "mark" \in Labels /\ "idle" \in Labels
  BY DEF Labels
<1>3. /\ now' \in [Threads -> Cells] /\ pc' \in [Threads -> Labels]
      /\ \A u \in Threads \ {t} : now'[u] = now[u] /\ pc'[u] = pc[u]
      /\ n = Last => now'[t] = 0 /\ pc'[t] = "idle"
      /\ n # Last => now'[t] = n + 1 /\ pc'[t] = "mark"
  BY <1>1, <1>2, Turn
<1>4. terminal_cells[n].text \in Texts
  BY <1>1 DEF CellType
<1>5. c \in CellType /\ c.dirty = TRUE /\ c.text = terminal_cells[n].text
  BY <1>4, CellFields
<1>6. terminal_cells' = [terminal_cells EXCEPT ![n] = c]
  BY DEF Marked
<1> HIDE DEF c, n
<1>7. /\ terminal_cells' \in [Cells -> CellType] /\ terminal_cells'[n] = c
      /\ \A k \in Cells \ {n} : terminal_cells'[k] = terminal_cells[k]
  BY <1>1, <1>5, <1>6, CellWrite
<1>8. TypeOK'
  BY <1>1, <1>3, <1>7 DEF TypeOK, CellType
<1>9. Rested'
  BY <1>3 DEF IInv, Rested
<1>10. \A k \in Cells : terminal_cells'[k].text = terminal_cells[k].text
  BY <1>5, <1>7
<1>11. Pictures'
  BY <1>1, <1>3, <1>10 DEF IInv, Pictures, TypeOK
<1>12. Coherent'
  <2> SUFFICES ASSUME NEW k \in Cells, ~terminal_cells'[k].dirty, k \notin stale',
                      ~Scrolling(k)'
               PROVE  fb'[k] = terminal_cells'[k].text
    BY DEF Coherent
  <2>1. k # n /\ terminal_cells'[k] = terminal_cells[k]
    BY <1>5, <1>7
  <2>2. ~Scrolling(k)
    <3> SUFFICES ASSUME NEW u \in Threads, pc[u] = "move" \/ (pc[u] = "mark" /\ now[u] <= k)
                 PROVE  Scrolling(k)'
      BY DEF Scrolling
    <3>1. CASE u # t
      BY <1>3, <3>1 DEF Scrolling
    <3>2. CASE u = t
      <4>1. n <= k /\ k <= Last /\ n \in Int /\ k \in Int
        BY <1>1, <3>2, LastIsNat DEF Cells, n
      <4>2. n # Last /\ n + 1 <= k
        BY <2>1, <4>1, LastIsNat
      <4> QED
        BY <1>3, <4>2 DEF Scrolling
    <3> QED
      BY <3>1, <3>2
  <2> QED
    BY <2>1, <2>2 DEF IInv, Coherent
<1> QED
  BY <1>8, <1>9, <1>11, <1>12 DEF IInv

-----------------------------------------------------------------------------
(* Any number of threads: the steps that draw.                               *)

LEMMA SyncCellInv ==
  ASSUME IInv, NEW t \in Threads, SyncCell(t)
  PROVE  IInv'
<1> USE DEF SyncCell, aux
<1>1. /\ TypeOK /\ now[t] \in Cells /\ terminal_cells[now[t]] \in CellType
      /\ buffer \in [Threads -> Texts]
  BY DEF IInv, TypeOK, CellType
<1>2. {"sync", "draw", "vga"} \subseteq Labels
  BY DEF Labels
<1>3. CASE /\ terminal_cells[now[t]].dirty
           /\ buffer' = [buffer EXCEPT ![t] = terminal_cells[now[t]].text]
           /\ Goto(t, "draw")
           /\ UNCHANGED now
  <2>1. /\ pc' \in [Threads -> Labels] /\ pc'[t] = "draw"
        /\ \A u \in Threads \ {t} : pc'[u] = pc[u]
    BY <1>1, <1>2, <1>3, Step
  <2>2. /\ buffer' \in [Threads -> Texts] /\ buffer'[t] = terminal_cells[now[t]].text
        /\ \A u \in Threads \ {t} : buffer'[u] = buffer[u]
    BY <1>1, <1>3 DEF CellType
  <2>3. TypeOK'
    BY <1>1, <1>3, <2>1, <2>2 DEF TypeOK
  <2>4. Rested'
    BY <1>3, <2>1 DEF IInv, Rested
  <2>5. Pictures'
    BY <1>3, <2>1, <2>2 DEF IInv, Pictures
  <2>6. \A k \in Cells : Scrolling(k) => Scrolling(k)'
    BY <1>3, <2>1 DEF Scrolling
  <2>7. Coherent'
    BY <2>6 DEF IInv, Coherent
  <2> QED
    BY <2>3, <2>4, <2>5, <2>7 DEF IInv
<1>4. CASE Advanced(t, "sync", "vga") /\ UNCHANGED buffer
  <2>1. /\ now' \in [Threads -> Cells] /\ pc' \in [Threads -> Labels]
        /\ \A u \in Threads \ {t} : now'[u] = now[u] /\ pc'[u] = pc[u]
        /\ now[t] = Last => now'[t] = 0 /\ pc'[t] = "vga"
        /\ now[t] # Last => pc'[t] = "sync"
    BY <1>1, <1>2, <1>4, Turn
  <2>2. TypeOK'
    BY <1>1, <1>4, <2>1 DEF TypeOK
  <2>3. Rested'
    BY <2>1 DEF IInv, Rested
  <2>4. Pictures'
    BY <1>4, <2>1 DEF IInv, Pictures
  <2>5. \A k \in Cells : Scrolling(k) => Scrolling(k)'
    BY <2>1 DEF Scrolling
  <2>6. Coherent'
    BY <2>5 DEF IInv, Coherent
  <2> QED
    BY <2>2, <2>3, <2>4, <2>6 DEF IInv
<1> QED
  BY <1>3, <1>4

\* A drawing not spoilt shows the cell's text, and tells who draws another picture there.
LEMMA DrawCellInv ==
  ASSUME IInv, NEW t \in Threads, DrawCell(t)
  PROVE  IInv'
<1> DEFINE n == now[t]
<1>0. PICK x \in {buffer[t]} \cup (IF hit[t] THEN {Other} ELSE {}) : fb' = [fb EXCEPT ![n] = x]
  BY DEF DrawCell
<1>1. /\ TypeOK /\ n \in Cells /\ n \in Blocks /\ "clean" \in Labels /\ pc[t] = "draw"
      /\ fb \in [Blocks -> Texts \cup {Black, Other}] /\ buffer[t] \in Texts
      /\ hit \in [Threads -> BOOLEAN]
  BY DEF IInv, TypeOK, Labels, Blocks, DrawCell
<1>2. /\ pc' \in [Threads -> Labels] /\ pc'[t] = "clean"
      /\ \A u \in Threads \ {t} : pc'[u] = pc[u]
  BY <1>1, Step DEF DrawCell
<1>3. /\ fb' \in [Blocks -> Texts \cup {Black, Other}]
      /\ fb'[n] = x /\ \A b \in Blocks \ {n} : fb'[b] = fb[b]
      /\ ~hit[t] => x = buffer[t]
  BY <1>0, <1>1
<1>4. /\ stale' = IF hit[t] THEN stale \cup {n} ELSE stale \ {n}
      /\ stale' \subseteq Blocks
  BY <1>1 DEF DrawCell, TypeOK
<1>5. /\ hit' \in [Threads -> BOOLEAN]
      /\ \A u \in Threads : hit[u] => hit'[u]
      /\ \A u \in Threads \ {t} : pc[u] \in {"draw", "clean"} /\ now[u] = n
                                  /\ buffer[u] # buffer[t] => hit'[u]
  BY <1>1 DEF DrawCell, Drawing
<1>6. UNCHANGED <<terminal_cells, now, buffer, sync, painted>>
  BY DEF DrawCell, loop
<1> HIDE DEF n
<1>7. TypeOK'
  BY <1>1, <1>2, <1>3, <1>4, <1>5, <1>6 DEF TypeOK
<1>8. Rested'
  BY <1>2, <1>6 DEF IInv, Rested
<1>9. ~hit[t] => buffer[t] = terminal_cells[n].text
  BY <1>1 DEF IInv, Pictures, n
<1>10. Pictures'
  <2> SUFFICES ASSUME NEW u \in Threads, pc'[u] \in {"draw", "clean"}, ~hit'[u]
               PROVE  /\ buffer'[u] = terminal_cells'[now'[u]].text
                      /\ pc'[u] = "clean" /\ now'[u] \notin stale' => fb'[now'[u]] = buffer'[u]
    BY DEF Pictures
  <2>1. ~hit[u]
    BY <1>5
  <2>2. CASE u = t
    <3>1. now[u] = n
      BY <2>2 DEF n
    <3> QED
      BY <1>3, <1>6, <1>9, <2>1, <2>2, <3>1
  <2>3. CASE u # t /\ now[u] = n
    <3>1. pc[u] \in {"draw", "clean"} /\ buffer[u] = buffer[t]
      BY <1>2, <1>5, <2>3
    <3>2. buffer[u] = terminal_cells[now[u]].text
      BY <2>1, <3>1 DEF IInv, Pictures
    <3>3. n \notin stale' => fb'[n] = buffer[u]
      BY <1>3, <1>4, <3>1
    <3> QED
      BY <1>6, <2>3, <3>2, <3>3
  <2>4. CASE u # t /\ now[u] # n
    <3>1. /\ pc[u] = pc'[u] /\ now[u] \in Blocks
          /\ now[u] \notin stale' => now[u] \notin stale
      BY <1>1, <1>2, <1>4, <2>4 DEF TypeOK, Blocks
    <3>2. fb'[now[u]] = fb[now[u]]
      BY <1>3, <2>4, <3>1
    <3> QED
      BY <1>6, <2>1, <3>1, <3>2 DEF IInv, Pictures
  <2> QED
    BY <2>2, <2>3, <2>4
<1>11. Coherent'
  <2> SUFFICES ASSUME NEW k \in Cells, ~terminal_cells'[k].dirty, k \notin stale',
                      ~Scrolling(k)'
               PROVE  fb'[k] = terminal_cells'[k].text
    BY DEF Coherent
  <2>1. CASE k = n
    BY <1>3, <1>4, <1>6, <1>9, <2>1
  <2>2. CASE k # n
    <3>1. ~Scrolling(k) /\ k \in Blocks
      BY <1>1, <1>2, <1>6 DEF Scrolling, Blocks
    <3> QED
      BY <1>3, <1>4, <1>6, <2>2, <3>1 DEF IInv, Coherent
  <2> QED
    BY <2>1, <2>2
<1> QED
  BY <1>7, <1>8, <1>10, <1>11 DEF IInv

\* The dirty bit is cleared: the cell is on the screen, or counted as stale.
LEMMA CleanCellInv ==
  ASSUME IInv, NEW t \in Threads, CleanCell(t)
  PROVE  IInv'
<1> DEFINE n == now[t]
           c == Clean(terminal_cells[n].text)
<1>1. /\ TypeOK /\ n \in Cells /\ n \in Blocks /\ pc[t] = "clean"
      /\ terminal_cells \in [Cells -> CellType]
      /\ hit \in [Threads -> BOOLEAN] /\ buffer \in [Threads -> Texts] /\ Blank \in Texts
  BY GpuAssumption DEF IInv, TypeOK, CellType, Blocks, CleanCell
<1>2. "sync" \in Labels /\ "vga" \in Labels
  BY DEF Labels
<1>3. /\ now' \in [Threads -> Cells] /\ pc' \in [Threads -> Labels]
      /\ \A u \in Threads \ {t} : now'[u] = now[u] /\ pc'[u] = pc[u]
      /\ n = Last => now'[t] = 0 /\ pc'[t] = "vga"
      /\ n # Last => now'[t] = n + 1 /\ pc'[t] = "sync"
  BY <1>1, <1>2, Turn DEF CleanCell
<1>4. terminal_cells[n].text \in Texts
  BY <1>1 DEF CellType
<1>5. c \in CellType /\ c.text = terminal_cells[n].text
  BY <1>4, CellFields
<1>6. terminal_cells' = [terminal_cells EXCEPT ![n] = c]
  BY <1>1 DEF CleanCell
<1>7. /\ stale' = IF hit[t] THEN stale \cup {n} ELSE stale
      /\ buffer' = [buffer EXCEPT ![t] = Blank]
      /\ hit' = [hit EXCEPT ![t] = FALSE]
      /\ UNCHANGED <<fb, sync, painted>>
  BY DEF CleanCell
<1> HIDE DEF c, n
<1>8. /\ terminal_cells' \in [Cells -> CellType] /\ terminal_cells'[n] = c
      /\ \A k \in Cells \ {n} : terminal_cells'[k] = terminal_cells[k]
  BY <1>1, <1>5, <1>6, CellWrite
<1>9. /\ buffer' \in [Threads -> Texts] /\ hit' \in [Threads -> BOOLEAN]
      /\ stale' \subseteq Blocks
      /\ \A u \in Threads \ {t} : buffer'[u] = buffer[u] /\ hit'[u] = hit[u]
  BY <1>1, <1>7 DEF TypeOK
<1>10. TypeOK'
  BY <1>1, <1>3, <1>7, <1>8, <1>9 DEF TypeOK, CellType
<1>11. Rested'
  BY <1>3 DEF IInv, Rested
<1>12. \A k \in Cells : terminal_cells'[k].text = terminal_cells[k].text
  BY <1>5, <1>8
<1>13. Pictures'
  <2> SUFFICES ASSUME NEW u \in Threads, pc'[u] \in {"draw", "clean"}, ~hit'[u]
               PROVE  /\ buffer'[u] = terminal_cells'[now'[u]].text
                      /\ pc'[u] = "clean" /\ now'[u] \notin stale' => fb'[now'[u]] = buffer'[u]
    BY DEF Pictures
  <2>1. u # t
    BY <1>3
  <2>2. now[u] \in Cells /\ (now[u] \notin stale' => now[u] \notin stale)
    BY <1>1, <1>7 DEF TypeOK
  <2> QED
    BY <1>3, <1>7, <1>9, <1>12, <2>1, <2>2 DEF IInv, Pictures
<1>14. ~hit[t] /\ n \notin stale => fb[n] = terminal_cells[n].text
  BY <1>1 DEF IInv, Pictures, n
<1>15. Coherent'
  <2> SUFFICES ASSUME NEW k \in Cells, ~terminal_cells'[k].dirty, k \notin stale',
                      ~Scrolling(k)'
               PROVE  fb'[k] = terminal_cells'[k].text
    BY DEF Coherent
  <2>1. CASE k = n
    BY <1>7, <1>12, <1>14, <2>1
  <2>2. CASE k # n
    <3>1. ~Scrolling(k) /\ terminal_cells'[k] = terminal_cells[k] /\ k \notin stale
      BY <1>1, <1>3, <1>7, <1>8, <2>2 DEF Scrolling
    <3> QED
      BY <1>7, <3>1 DEF IInv, Coherent
  <2> QED
    BY <2>1, <2>2
<1> QED
  BY <1>10, <1>11, <1>13, <1>15 DEF IInv

LEMMA WipeMarginInv ==
  ASSUME IInv, NEW t \in Threads, WipeMargin(t)
  PROVE  IInv'
<1>0. PICK x \in {Black} \cup (IF hit[t] THEN {Other} ELSE {}) :
             fb' = [fb EXCEPT ![Margin] = x]
  BY DEF WipeMargin
<1>1. /\ TypeOK /\ "mark" \in Labels /\ pc[t] = "wipe" /\ Margin \notin Cells
      /\ fb \in [Blocks -> Texts \cup {Black, Other}] /\ hit \in [Threads -> BOOLEAN]
  BY GpuAssumption DEF IInv, TypeOK, Labels, WipeMargin
<1>2. /\ pc' \in [Threads -> Labels] /\ pc'[t] = "mark"
      /\ \A u \in Threads \ {t} : pc'[u] = pc[u]
  BY <1>1, Step DEF WipeMargin
<1>3. /\ fb' \in [Blocks -> Texts \cup {Black, Other}]
      /\ \A n \in Cells : fb'[n] = fb[n]
  BY <1>0, <1>1 DEF Blocks
<1>4. /\ hit' \in [Threads -> BOOLEAN] /\ painted' \subseteq Blocks
      /\ \A u \in Threads \ {t} : hit'[u] = hit[u]
      /\ UNCHANGED <<terminal_cells, now, buffer, sync, stale>>
  BY <1>1 DEF WipeMargin, TypeOK, loop
<1>5. TypeOK'
  BY <1>1, <1>2, <1>3, <1>4 DEF TypeOK
<1>6. Rested'
  BY <1>2, <1>4 DEF IInv, Rested
<1>7. Pictures'
  BY <1>1, <1>2, <1>3, <1>4 DEF IInv, Pictures, TypeOK
<1>8. \A k \in Cells : Scrolling(k) => Scrolling(k)'
  BY <1>1, <1>2, <1>4 DEF Scrolling
<1>9. Coherent'
  BY <1>3, <1>4, <1>8 DEF IInv, Coherent
<1> QED
  BY <1>5, <1>6, <1>7, <1>9 DEF IInv

\* What fbdraw paints over is counted as stale, and whoever draws there is told.
LEMMA FbDrawInv ==
  ASSUME IInv, NEW t \in Threads, NEW b \in Blocks, FbDraw(t, b)
  PROVE  IInv'
<1>1. /\ TypeOK /\ pc[t] = "idle" /\ Margin \notin Cells
      /\ fb \in [Blocks -> Texts \cup {Black, Other}] /\ hit \in [Threads -> BOOLEAN]
  BY GpuAssumption DEF IInv, TypeOK, FbDraw
<1>2. /\ fb' \in [Blocks -> Texts \cup {Black, Other}]
      /\ \A k \in Blocks \ {b} : fb'[k] = fb[k]
  BY <1>1 DEF FbDraw
<1>3. /\ stale' = stale \cup {b} /\ stale' \subseteq Blocks /\ painted' \subseteq Blocks
      /\ UNCHANGED <<terminal_cells, pc, now, buffer, sync>>
  BY <1>1 DEF FbDraw, TypeOK, loop
<1>4. hit' \in [Threads -> BOOLEAN] /\ \A u \in Threads : hit[u] => hit'[u]
  BY <1>1 DEF FbDraw, Spoil
<1>5. TypeOK'
  BY <1>1, <1>2, <1>3, <1>4 DEF TypeOK
<1>6. Rested'
  BY <1>3 DEF IInv, Rested
<1>7. Pictures'
  BY <1>1, <1>2, <1>3, <1>4 DEF IInv, Pictures, TypeOK, Blocks
<1>8. Coherent'
  BY <1>2, <1>3 DEF IInv, Coherent, Scrolling, Blocks
<1> QED
  BY <1>5, <1>6, <1>7, <1>8 DEF IInv

-----------------------------------------------------------------------------
(* Any number of threads: the theorems.                                      *)

LEMMA NextInv == IInv /\ [Next]_vars => IInv'
<1> SUFFICES ASSUME IInv, [Next]_vars PROVE IInv'
  OBVIOUS
<1>1. ASSUME NEW t \in Threads, Call(t) PROVE IInv'
  BY <1>1, PutInv, ClearCallInv, FlushInv, ChscrollInv, FbDrawInv DEF Call
<1>2. ASSUME NEW t \in Threads, Work(t) PROVE IInv'
  BY <1>2, ClearCellInv, SyncCellInv, DrawCellInv, CleanCellInv, SyncVgaInv, MoveCellInv,
     WipeMarginInv, MarkCellInv DEF Work
<1> QED
  BY <1>1, <1>2, StutterInv DEF Next

\* The inductive invariant of the terminal holds in every reachable state.
THEOREM Invariant == Spec => []IInv
<1>1. Init => IInv
  BY InitInv
<1>2. IInv /\ [Next]_vars => IInv'
  BY NextInv
<1> QED
  BY <1>1, <1>2, PTL DEF Spec

\* Every variable of the terminal keeps its type.
THEOREM TypeCorrect == Spec => []TypeOK
<1>1. IInv => TypeOK
  BY DEF IInv
<1> QED
  BY <1>1, Invariant, PTL

\* However many threads preempt one another between two cells or two parts of
\* __am_write_ascii, a clean cell is on the screen, but for the window in which a
\* drawing is spoilt (gpu.c:73-88).
THEOREM CleanMeansShown == Spec => []Coherent
<1>1. IInv => Coherent
  BY DEF IInv
<1> QED
  BY <1>1, Invariant, PTL

-----------------------------------------------------------------------------
(* One thread: what a sync shows.                                            *)

LEMMA NoneTold ==
  ASSUME TypeOK, NEW c, Threads = {c}, Alone, NEW n, Spoil(c, n)
  PROVE  Alone'
BY DEF TypeOK, Alone, Spoil

LEMMA InitSingle == Init => Single
<1> SUFFICES ASSUME Init PROVE Single
  OBVIOUS
<1> USE DEF Init
<1>1. Alone /\ Passed
  BY DEF Alone, Passed
<1>2. Redrawn /\ Wiped
  BY DEF Redrawn, Wiped
<1> QED
  BY <1>1, <1>2 DEF Single

\* A step that leaves cells and screen alone, and begins a loop or ends a call.
LEMMA MovesSingle ==
  ASSUME OneInv, NEW c, Threads = {c}, NEW l \in Labels \ {"draw", "clean", "vga"}, Goto(c, l),
         l = "sync" => now[c] = 0,
         pc[c] \notin {"move", "mark"},
         UNCHANGED <<terminal_cells, fb, loop, aux>>
  PROVE  Single'
<1>1. TypeOK /\ IInv /\ Single /\ pc'[c] = l
  BY DEF OneInv, IInv, TypeOK, Goto
<1>2. Alone'
  BY <1>1 DEF Single, Alone, aux
<1>3. Passed'
  BY <1>1 DEF Passed, loop, Cells
<1>4. Redrawn'
  BY <1>1 DEF Single, Redrawn, Scrolling, aux, loop
<1>5. Wiped'
  BY <1>1 DEF Single, Wiped, aux
<1> QED
  BY <1>2, <1>3, <1>4, <1>5 DEF Single

LEMMA PutSingle ==
  ASSUME OneInv, NEW c, Threads = {c}, NEW n \in Cells, NEW x \in Texts, NEW s \in BOOLEAN,
         TerminalPut(c, n, x, s)
  PROVE  Single'
<1> USE DEF TerminalPut, loop
<1>1. TypeOK /\ IInv /\ Single /\ Dirty(x) \in CellType /\ Dirty(x).dirty = TRUE
  BY CellFields DEF OneInv, IInv
<1>2. pc'[c] = Synced(s) /\ pc'[c] \in {"sync", "idle"} /\ now[c] = 0
  BY <1>1 DEF TypeOK, Goto, Synced, IInv, Rested
<1>3. /\ terminal_cells'[n] = Dirty(x)
      /\ \A k \in Cells \ {n} : terminal_cells'[k] = terminal_cells[k]
  BY <1>1, CellWrite DEF Written
<1>4. Alone'
  BY <1>1, NoneTold DEF Single
<1>5. Passed'
  BY <1>2 DEF Passed, Cells
<1>6. Redrawn'
  BY <1>1, <1>2, <1>3 DEF Single, Redrawn, Scrolling
<1>7. Wiped'
  BY <1>1 DEF Single, Wiped
<1> QED
  BY <1>4, <1>5, <1>6, <1>7 DEF Single

LEMMA ClearCellSingle ==
  ASSUME OneInv, NEW c, Threads = {c}, ClearCell(c)
  PROVE  Single'
<1> USE DEF ClearCell
<1>1. /\ TypeOK /\ IInv /\ Single /\ now[c] \in Cells
      /\ Dirty(Blank) \in CellType /\ Dirty(Blank).dirty = TRUE
  BY GpuAssumption, CellFields DEF OneInv, IInv, TypeOK
<1>2. pc'[c] \in {"clear", "sync", "idle"} /\ (pc'[c] = "sync" => now'[c] = 0)
  BY <1>1 DEF TypeOK, Advanced, Goto, Synced
<1>3. /\ terminal_cells'[now[c]] = Dirty(Blank)
      /\ \A k \in Cells \ {now[c]} : terminal_cells'[k] = terminal_cells[k]
  BY <1>1, CellWrite
<1>4. Alone'
  BY <1>1, NoneTold DEF Single
<1>5. Passed'
  BY <1>2 DEF Passed, Cells
<1>6. Redrawn'
  BY <1>1, <1>2, <1>3 DEF Single, Redrawn, Scrolling
<1>7. Wiped'
  BY <1>1 DEF Single, Wiped
<1> QED
  BY <1>4, <1>5, <1>6, <1>7 DEF Single

\* The loop passes clean cells only.
LEMMA SyncCellSingle ==
  ASSUME OneInv, NEW c, Threads = {c}, SyncCell(c)
  PROVE  Single'
<1> USE DEF SyncCell, aux
<1>1. TypeOK /\ IInv /\ Single /\ now[c] \in Cells
  BY DEF OneInv, IInv, TypeOK
<1>2. \/ pc'[c] = "draw" /\ now'[c] = now[c]
      \/ pc'[c] = "sync" /\ now'[c] = now[c] + 1 /\ ~terminal_cells[now[c]].dirty
      \/ pc'[c] = "vga" /\ now[c] = Last /\ ~terminal_cells[now[c]].dirty
  BY <1>1 DEF TypeOK, Advanced, Goto
<1>3. Alone'
  BY <1>1 DEF Single, Alone
<1>4. Passed'
  BY <1>1, <1>2, LastIsNat DEF Single, Passed, Cells
<1>5. Redrawn'
  BY <1>1, <1>2 DEF Single, Redrawn, Scrolling
<1>6. Wiped'
  BY <1>1 DEF Single, Wiped
<1> QED
  BY <1>3, <1>4, <1>5, <1>6 DEF Single

LEMMA DrawCellSingle ==
  ASSUME OneInv, NEW c, Threads = {c}, DrawCell(c)
  PROVE  Single'
<1> DEFINE n == now[c]
<1>1. /\ TypeOK /\ IInv /\ Single /\ n \in Cells /\ pc[c] = "draw" /\ Margin \notin Cells
      /\ fb \in [Blocks -> Texts \cup {Black, Other}] /\ Margin \in Blocks
  BY GpuAssumption DEF OneInv, IInv, TypeOK, DrawCell, Blocks
<1>2. ~hit[c]
  BY <1>1 DEF Single, Alone
<1>3. /\ pc'[c] = "clean" /\ stale' = stale \ {n}
      /\ UNCHANGED <<terminal_cells, now, painted>>
  BY <1>1, <1>2 DEF DrawCell, Goto, TypeOK, loop
<1>4. fb'[Margin] = fb[Margin]
  BY <1>1 DEF DrawCell
<1>5. Alone'
  BY <1>1, <1>2 DEF DrawCell, Alone
<1>6. Passed'
  BY <1>1, <1>3 DEF Single, Passed
<1>7. Redrawn'
  BY <1>1, <1>3 DEF Single, Redrawn, Scrolling
<1>8. Wiped'
  BY <1>1, <1>3, <1>4 DEF Single, Wiped
<1> QED
  BY <1>5, <1>6, <1>7, <1>8 DEF Single

LEMMA CleanCellSingle ==
  ASSUME OneInv, NEW c, Threads = {c}, CleanCell(c)
  PROVE  Single'
<1> DEFINE n == now[c]
           x == Clean(terminal_cells[n].text)
<1>1. /\ TypeOK /\ IInv /\ Single /\ n \in Cells /\ pc[c] = "clean"
      /\ terminal_cells \in [Cells -> CellType] /\ hit \in [Threads -> BOOLEAN]
  BY DEF OneInv, IInv, TypeOK, CleanCell, CellType
<1>2. ~hit[c]
  BY <1>1 DEF Single, Alone
<1>3. stale' = stale /\ ~hit'[c] /\ UNCHANGED <<fb, painted>>
  BY <1>1, <1>2 DEF CleanCell
<1>4. \/ pc'[c] = "sync" /\ now'[c] = n + 1
      \/ pc'[c] = "vga" /\ n = Last
  BY <1>1 DEF CleanCell, TypeOK, Advanced, Goto
<1>5. terminal_cells[n].text \in Texts
  BY <1>1 DEF CellType
<1>6. x \in CellType /\ x.dirty = FALSE
  BY <1>5, CellFields
<1>7. terminal_cells' = [terminal_cells EXCEPT ![n] = x]
  BY <1>1 DEF CleanCell
<1> HIDE DEF n, x
<1>8. /\ terminal_cells'[n] = x
      /\ \A k \in Cells \ {n} : terminal_cells'[k] = terminal_cells[k]
  BY <1>1, <1>6, <1>7, CellWrite
<1>9. Alone'
  BY <1>3 DEF Alone
<1>10. Passed'
  <2>1. \A k \in Cells : k < n => ~terminal_cells[k].dirty
    BY <1>1 DEF Single, Passed, n
  <2>2. \A k \in Cells : k < n \/ k = n => ~terminal_cells'[k].dirty
    BY <1>1, <1>6, <1>8, <2>1
  <2> QED
    BY <1>1, <1>4, <2>2, LastIsNat DEF Passed, Cells
<1>11. Redrawn'
  BY <1>1, <1>3, <1>4, <1>8 DEF Single, Redrawn, Scrolling, n
<1>12. Wiped'
  BY <1>1, <1>3 DEF Single, Wiped
<1> QED
  BY <1>9, <1>10, <1>11, <1>12 DEF Single

LEMMA MoveCellSingle ==
  ASSUME OneInv, NEW c, Threads = {c}, MoveCell(c)
  PROVE  Single'
<1> USE DEF MoveCell
<1>1. TypeOK /\ IInv /\ Single /\ now[c] \in Cells
  BY DEF OneInv, IInv, TypeOK
<1>2. pc'[c] = "move" \/ (pc'[c] = "mark" /\ now'[c] = 0)
  BY <1>1 DEF TypeOK, Advanced, Goto
<1>3. Alone'
  BY <1>1, NoneTold DEF Single
<1>4. Passed'
  BY <1>2 DEF Passed
<1>5. Redrawn'
  BY <1>2 DEF Redrawn, Scrolling, Cells
<1>6. Wiped'
  BY <1>1 DEF Single, Wiped
<1> QED
  BY <1>3, <1>4, <1>5, <1>6 DEF Single

LEMMA WipeMarginSingle ==
  ASSUME OneInv, NEW c, Threads = {c}, WipeMargin(c)
  PROVE  Single'
<1>1. /\ TypeOK /\ IInv /\ Single /\ now[c] = 0 /\ Margin \in Blocks
      /\ fb \in [Blocks -> Texts \cup {Black, Other}]
  BY DEF OneInv, IInv, TypeOK, Rested, WipeMargin, Blocks
<1>2. ~hit[c]
  BY <1>1 DEF Single, Alone
<1>3. /\ pc'[c] = "mark" /\ now'[c] = 0 /\ ~hit'[c] /\ fb'[Margin] = Black
  BY <1>1, <1>2 DEF WipeMargin, Goto, TypeOK, loop
<1>4. Alone' /\ Passed' /\ Wiped'
  BY <1>3 DEF Alone, Passed, Wiped
<1>5. Redrawn'
  BY <1>3 DEF Redrawn, Scrolling, Cells
<1> QED
  BY <1>4, <1>5 DEF Single

\* A cell given back by chscroll is dirty.
LEMMA MarkCellSingle ==
  ASSUME OneInv, NEW c, Threads = {c}, MarkCell(c)
  PROVE  Single'
<1> DEFINE n == now[c]
           x == Dirty(terminal_cells[n].text)
<1>1. /\ TypeOK /\ IInv /\ Single /\ n \in Cells /\ pc[c] = "mark"
      /\ terminal_cells \in [Cells -> CellType] /\ Margin \notin Cells
  BY GpuAssumption DEF OneInv, IInv, TypeOK, MarkCell, CellType
<1>2. painted' = painted \ {n} /\ UNCHANGED <<fb, stale, hit>>
  BY DEF MarkCell
<1>3. \/ pc'[c] = "mark" /\ now'[c] = n + 1
      \/ pc'[c] = "idle" /\ n = Last
  BY <1>1 DEF MarkCell, TypeOK, Advanced, Goto
<1>4. terminal_cells[n].text \in Texts
  BY <1>1 DEF CellType
<1>5. x \in CellType /\ x.dirty = TRUE
  BY <1>4, CellFields
<1>6. terminal_cells' = [terminal_cells EXCEPT ![n] = x]
  BY <1>1 DEF MarkCell, Marked
<1> HIDE DEF n, x
<1>7. /\ terminal_cells'[n] = x
      /\ \A k \in Cells \ {n} : terminal_cells'[k] = terminal_cells[k]
  BY <1>1, <1>5, <1>6, CellWrite
<1>8. Alone'
  BY <1>1, <1>2 DEF Single, Alone
<1>9. Passed'
  BY <1>3 DEF Passed
<1>10. Redrawn'
  <2> SUFFICES ASSUME NEW k \in Cells, k \in stale' \ painted', ~Scrolling(k)'
               PROVE  terminal_cells'[k].dirty /\ pc'[c] # "clean"
    BY DEF Redrawn
  <2>1. CASE k = n
    BY <1>3, <1>5, <1>7, <2>1
  <2>2. CASE k # n
    <3>1. k < n
      BY <1>1, <1>3, <2>2, LastIsNat DEF Scrolling, Cells
    <3>2. ~Scrolling(k)
      BY <1>1, <3>1 DEF Scrolling, Cells, n
    <3> QED
      BY <1>1, <1>2, <1>3, <1>7, <2>2, <3>2 DEF Single, Redrawn
  <2> QED
    BY <2>1, <2>2
<1>11. Wiped'
  BY <1>1, <1>2 DEF Single, Wiped
<1> QED
  BY <1>8, <1>9, <1>10, <1>11 DEF Single

LEMMA FbDrawSingle ==
  ASSUME OneInv, NEW c, Threads = {c}, NEW b \in Blocks, FbDraw(c, b)
  PROVE  Single'
<1>1. /\ TypeOK /\ IInv /\ Single /\ Margin \in Blocks
      /\ fb \in [Blocks -> Texts \cup {Black, Other}]
  BY DEF OneInv, IInv, TypeOK, Blocks
<1>2. /\ stale' = stale \cup {b} /\ painted' = painted \cup {b}
      /\ UNCHANGED <<terminal_cells, pc, now>>
  BY DEF FbDraw, loop
<1>3. Margin \notin painted' => fb'[Margin] = fb[Margin]
  BY <1>1, <1>2 DEF FbDraw
<1>4. Alone'
  BY <1>1, NoneTold DEF FbDraw, Single
<1>5. Passed'
  BY <1>1, <1>2 DEF Single, Passed
<1>6. Redrawn'
  BY <1>1, <1>2 DEF Single, Redrawn, Scrolling
<1>7. Wiped'
  BY <1>1, <1>2, <1>3 DEF Single, Wiped
<1> QED
  BY <1>4, <1>5, <1>6, <1>7 DEF Single

LEMMA NextSingle ==
  ASSUME NEW c, Threads = {c}
  PROVE  OneInv /\ [Next]_vars => OneInv'
<1> SUFFICES ASSUME OneInv, [Next]_vars PROVE OneInv'
  OBVIOUS
<1>1. IInv'
  BY NextInv DEF OneInv
<1>2. CASE UNCHANGED vars
  <2>1. Alone' /\ Passed' /\ Wiped'
    BY <1>2 DEF OneInv, Single, Alone, Passed, Wiped, vars, loop, aux
  <2>2. Redrawn'
    BY <1>2 DEF OneInv, Single, Redrawn, Scrolling, vars, loop, aux
  <2> QED
    BY <1>1, <2>1, <2>2 DEF OneInv, Single
<1>3. CASE Call(c)
  <2>1. ASSUME NEW n \in Cells, NEW x \in Texts, NEW s \in BOOLEAN, TerminalPut(c, n, x, s)
        PROVE  Single'
    BY <2>1, PutSingle
  <2>2. ASSUME NEW s \in BOOLEAN, TerminalClear(c, s) PROVE Single'
    BY <2>2, MovesSingle DEF TerminalClear, Labels
  <2>3. ASSUME TerminalFlush(c) PROVE Single'
    BY <2>3, MovesSingle DEF TerminalFlush, Labels, OneInv, IInv, Rested
  <2>4. ASSUME NEW ismove \in BOOLEAN, Chscroll(c, ismove) PROVE Single'
    <3>1. CASE ismove
      BY <2>4, <3>1, MovesSingle DEF Chscroll, Labels
    <3>2. CASE ~ismove
      BY <2>4, <3>2, MovesSingle DEF Chscroll, Labels
    <3> QED
      BY <3>1, <3>2
  <2>5. ASSUME NEW b \in Blocks, FbDraw(c, b) PROVE Single'
    BY <2>5, FbDrawSingle
  <2>6. Single'
    BY <1>3, <2>1, <2>2, <2>3, <2>4, <2>5 DEF Call
  <2> QED
    BY <1>1, <2>6 DEF OneInv
<1>4. CASE Work(c)
  <2>1. ASSUME SyncVga(c) PROVE Single'
    BY <2>1, MovesSingle DEF SyncVga, Labels
  <2>2. Single'
    BY <1>4, <2>1, ClearCellSingle, SyncCellSingle, DrawCellSingle, CleanCellSingle,
       MoveCellSingle, WipeMarginSingle, MarkCellSingle DEF Work
  <2> QED
    BY <1>1, <2>2 DEF OneInv
<1> QED
  BY <1>2, <1>3, <1>4 DEF Next

\* For a terminal of any size written by one thread, what a call tells the device to show
\* is all there: every cell's text and the black margin, except where fbdraw painted
\* after the last chscroll (gpu.c:90-114, 136-148).
THEOREM SyncIsShown ==
  ASSUME NEW c, Threads = {c}
  PROVE  Spec => SyncShows
<1> DEFINE Shows == \A t \in Threads : pc[t] = "vga" /\ pc'[t] = "idle" =>
                      \A b \in Blocks \ painted :
                        fb[b] = IF b = Margin THEN Black ELSE terminal_cells[b].text
<1>1. Init => OneInv
  BY InitInv, InitSingle DEF OneInv
<1>2. OneInv /\ [Next]_vars => OneInv'
  BY NextSingle
<1>3. OneInv => Shows
  <2> SUFFICES ASSUME OneInv, pc[c] = "vga", NEW b \in Blocks \ painted
               PROVE  fb[b] = IF b = Margin THEN Black ELSE terminal_cells[b].text
    OBVIOUS
  <2>1. CASE b = Margin
    BY <2>1 DEF OneInv, Single, Wiped
  <2>2. CASE b # Margin
    <3>1. b \in Cells /\ ~terminal_cells[b].dirty /\ ~Scrolling(b)
      BY <2>2 DEF OneInv, Single, Passed, Scrolling, Blocks
    <3>2. b \notin stale
      BY <3>1 DEF OneInv, Single, Redrawn
    <3> QED
      BY <2>2, <3>1, <3>2 DEF OneInv, IInv, Coherent
  <2> QED
    BY <2>1, <2>2
<1>4. OneInv /\ [Next]_vars => [Shows]_vars
  BY <1>3
<1> HIDE DEF Shows
<1>5. Spec => [][Shows]_vars
  BY <1>1, <1>2, <1>4, PTL DEF Spec
<1>6. SyncShows <=> [][Shows]_vars
  BY DEF SyncShows, Shows
<1> QED
  BY <1>5, <1>6

-----------------------------------------------------------------------------
(* One thread: the loops implement Terminal.                                 *)

Text(n) == terminal_cells[n].text

\* What the loop at l has still to do.
Ahead(l, n, c) == pc[c] = l /\ now[c] <= n

LEMMA SameCells == T!Cells = Cells
BY DEF T!Cells, Cells, Last

\* The text, before and after a step.
LEMMA TextBar ==
  ASSUME NEW c, Threads = {c}, NEW n \in Cells
  PROVE  /\ Ahead("clear", n, c) => textBar[n] = Blank
         /\ Ahead("move", n, c) => textBar[n] = Moved(n).text
         /\ ~Ahead("clear", n, c) /\ ~Ahead("move", n, c) => textBar[n] = Text(n)
BY DEF textBar, In, Ahead, Text

LEMMA TextBarNext ==
  ASSUME NEW c, Threads = {c}, NEW n \in Cells
  PROVE  /\ Ahead("clear", n, c)' => textBar'[n] = Blank
         /\ Ahead("move", n, c)' => textBar'[n] = Moved(n)'.text
         /\ ~Ahead("clear", n, c)' /\ ~Ahead("move", n, c)' => textBar'[n] = Text(n)'
BY DEF textBar, In, Ahead, Text

LEMMA SameText ==
  ASSUME \A n \in Cells : textBar'[n] = textBar[n]
  PROVE  textBar' = textBar
BY DEF textBar

LEMMA NewText ==
  ASSUME NEW S, NEW f \in [Cells -> S], \A n \in Cells : textBar'[n] = f[n]
  PROVE  textBar' = f
BY DEF textBar

LEMMA TextBarType ==
  ASSUME NEW c, Threads = {c}, TypeOK
  PROVE  textBar \in [Cells -> Texts]
<1>1. \A n \in Cells : terminal_cells[n].text \in Texts
  BY DEF TypeOK
<1>2. \A n \in Cells : Moved(n).text \in Texts
  BY <1>1, GpuAssumption, CellFields DEF Moved
<1>3. \A n \in Cells : textBar[n] \in Texts
  BY <1>1, <1>2, GpuAssumption, TextBar DEF Text
<1> QED
  BY <1>3 DEF textBar

\* Outside the loops that change the text it is what the cells hold.
LEMMA Stays ==
  ASSUME NEW c, Threads = {c}, pc[c] \notin {"clear", "move"}, pc'[c] \notin {"clear", "move"},
         \A n \in Cells : Text(n)' = Text(n)
  PROVE  textBar' = textBar
<1>1. \A n \in Cells : textBar'[n] = textBar[n]
  BY TextBar, TextBarNext DEF Ahead
<1> QED
  BY <1>1, SameText

LEMMA RefinesInit ==
  ASSUME NEW c, Threads = {c}, Init
  PROVE  T!Init
<1>1. Blank \in Texts
  BY GpuAssumption
<1>2. \A n \in Cells : textBar[n] = Blank
  BY <1>1, CellFields, TextBar DEF Init, Ahead, Text
<1>3. textBar = [n \in Cells |-> Blank]
  BY <1>2 DEF textBar
<1> QED
  BY <1>3, SameCells DEF T!Init, T!Empty

LEMMA RefinesPut ==
  ASSUME NEW c, Threads = {c}, IInv, NEW n \in Cells, NEW x \in Texts, NEW s \in BOOLEAN,
         TerminalPut(c, n, x, s)
  PROVE  T!Put
<1>1. TypeOK /\ Dirty(x) \in CellType /\ Dirty(x).text = x
  BY CellFields DEF IInv
<1>2. pc[c] = "idle" /\ pc'[c] \in {"sync", "idle"}
  BY <1>1 DEF TypeOK, TerminalPut, Goto, Synced
<1>3. /\ terminal_cells'[n] = Dirty(x)
      /\ \A k \in Cells \ {n} : terminal_cells'[k] = terminal_cells[k]
  BY <1>1, CellWrite DEF TerminalPut, Written
<1>4. textBar \in [Cells -> Texts]
  BY <1>1, TextBarType
<1> DEFINE f == [textBar EXCEPT ![n] = x]
<1>5. f \in [Cells -> Texts]
  BY <1>4
<1>6. \A k \in Cells : textBar'[k] = Text(k)' /\ textBar[k] = Text(k)
  BY <1>2, TextBar, TextBarNext DEF Ahead
<1>7. \A k \in Cells : textBar'[k] = f[k]
  BY <1>1, <1>3, <1>4, <1>6 DEF Text
<1> HIDE DEF f
<1>8. textBar' = f
  BY <1>5, <1>7, NewText
<1> QED
  BY <1>8, SameCells DEF T!Put, f

LEMMA RefinesClear ==
  ASSUME NEW c, Threads = {c}, IInv, NEW s \in BOOLEAN, TerminalClear(c, s)
  PROVE  T!Clear
<1>1. pc'[c] = "clear" /\ now'[c] = 0
  BY DEF IInv, TypeOK, Rested, TerminalClear, Goto, loop
<1>2. \A n \in Cells : Ahead("clear", n, c)'
  BY <1>1 DEF Ahead, Cells
<1>3. \A n \in Cells : textBar'[n] = Blank
  BY <1>2, TextBarNext
<1>4. textBar' = [n \in Cells |-> Blank]
  BY <1>3 DEF textBar
<1> QED
  BY <1>4, SameCells DEF T!Clear, T!Empty

\* The cells behind the one that is cleared are blank already, as far as the text goes.
LEMMA RefinesClearCell ==
  ASSUME NEW c, Threads = {c}, IInv, ClearCell(c)
  PROVE  textBar' = textBar
<1> DEFINE k == now[c]
<1>1. /\ TypeOK /\ k \in Cells /\ pc[c] = "clear"
      /\ Dirty(Blank) \in CellType /\ Dirty(Blank).text = Blank
  BY GpuAssumption, CellFields DEF IInv, TypeOK, ClearCell
<1>2. \/ pc'[c] = "clear" /\ now'[c] = k + 1
      \/ pc'[c] \in {"sync", "idle"} /\ k = Last
  BY <1>1 DEF TypeOK, ClearCell, Advanced, Goto, Synced
<1>3. terminal_cells' = [terminal_cells EXCEPT ![k] = Dirty(Blank)]
  BY DEF ClearCell
<1> HIDE DEF k
<1>4. /\ terminal_cells'[k] = Dirty(Blank)
      /\ \A n \in Cells \ {k} : terminal_cells'[n] = terminal_cells[n]
  BY <1>1, <1>3, CellWrite
<1>5. ASSUME NEW n \in Cells PROVE textBar'[n] = textBar[n]
  <2>1. n \in Int /\ k \in Int /\ n <= Last /\ Last \in Int
    BY <1>1, LastIsNat DEF Cells
  <2>2. CASE n < k
    <3>1. ~Ahead("clear", n, c) /\ ~Ahead("move", n, c)
      BY <1>1, <2>1, <2>2 DEF Ahead, k
    <3>2. ~Ahead("clear", n, c)' /\ ~Ahead("move", n, c)'
      BY <1>2, <2>1, <2>2 DEF Ahead
    <3> QED
      BY <1>4, <2>1, <2>2, <3>1, <3>2, TextBar, TextBarNext DEF Text
  <2>3. CASE n = k
    <3>1. Ahead("clear", n, c)
      BY <1>1, <2>1, <2>3 DEF Ahead, k
    <3>2. ~Ahead("clear", n, c)' /\ ~Ahead("move", n, c)'
      BY <1>2, <2>1, <2>3 DEF Ahead
    <3> QED
      BY <1>1, <1>4, <2>3, <3>1, <3>2, TextBar, TextBarNext DEF Text
  <2>4. CASE n > k
    <3>1. Ahead("clear", n, c) /\ Ahead("clear", n, c)'
      BY <1>1, <1>2, <2>1, <2>4 DEF Ahead, k
    <3> QED
      BY <3>1, TextBar, TextBarNext
  <2> QED
    BY <2>1, <2>2, <2>3, <2>4
<1> QED
  BY <1>5, SameText

LEMMA RefinesScroll ==
  ASSUME NEW c, Threads = {c}, IInv, NEW ismove \in BOOLEAN, Chscroll(c, ismove)
  PROVE  T!Scroll \/ textBar' = textBar
<1>1. TypeOK /\ pc[c] = "idle" /\ now'[c] = 0 /\ terminal_cells' = terminal_cells
  BY DEF IInv, Rested, Chscroll, loop
<1>2. CASE ~ismove
  <2>1. pc'[c] = "wipe"
    BY <1>1, <1>2 DEF TypeOK, Chscroll, Goto
  <2> QED
    BY <1>1, <2>1, Stays DEF Text
<1>3. CASE ismove
  <2> DEFINE f == [n \in Cells |-> IF n + Cols \in Cells THEN textBar[n + Cols] ELSE Blank]
  <2>1. pc'[c] = "move"
    BY <1>1, <1>3 DEF TypeOK, Chscroll, Goto
  <2>2. \A n \in Cells : Ahead("move", n, c)'
    BY <1>1, <2>1 DEF Ahead, Cells
  <2>3. \A n \in Cells : textBar[n] = Text(n)
    BY <1>1, TextBar DEF Ahead
  <2>4. Dirty(Blank).text = Blank
    BY GpuAssumption, CellFields
  <2>5. ASSUME NEW n \in Cells PROVE Moved(n)'.text = f[n]
    BY <1>1, <2>3, <2>4 DEF Moved, Text
  <2>6. textBar \in [Cells -> Texts]
    BY <1>1, TextBarType
  <2>7. f \in [Cells -> Texts]
    BY <2>6, GpuAssumption
  <2> HIDE DEF f
  <2>8. \A n \in Cells : textBar'[n] = f[n]
    BY <2>2, <2>5, TextBarNext
  <2>9. textBar' = f
    BY <2>7, <2>8, NewText
  <2> QED
    BY <2>9, SameCells DEF T!Scroll, f
<1> QED
  BY <1>2, <1>3

\* A cell takes its text from one the loop has not come to, and becomes what was promised.
LEMMA RefinesMoveCell ==
  ASSUME NEW c, Threads = {c}, IInv, MoveCell(c)
  PROVE  textBar' = textBar
<1> DEFINE k == now[c]
<1>1. /\ TypeOK /\ k \in Cells /\ pc[c] = "move" /\ Blank \in Texts
      /\ terminal_cells \in [Cells -> CellType]
  BY GpuAssumption DEF IInv, TypeOK, MoveCell, CellType
<1>2. \/ pc'[c] = "move" /\ now'[c] = k + 1
      \/ pc'[c] = "mark" /\ k = Last
  BY <1>1 DEF TypeOK, MoveCell, Advanced, Goto
<1>3. terminal_cells' = [terminal_cells EXCEPT ![k] = Moved(k)]
  BY DEF MoveCell
<1> HIDE DEF k
<1>4. Moved(k) \in CellType
  BY <1>1, CellFields DEF Moved
<1>5. /\ terminal_cells'[k] = Moved(k)
      /\ \A n \in Cells \ {k} : terminal_cells'[n] = terminal_cells[n]
  BY <1>1, <1>3, <1>4, CellWrite
<1>6. ASSUME NEW n \in Cells PROVE textBar'[n] = textBar[n]
  <2>1. n \in Int /\ k \in Int /\ n <= Last /\ Last \in Int
    BY <1>1, LastIsNat DEF Cells
  <2>2. CASE n < k
    <3>1. ~Ahead("clear", n, c) /\ ~Ahead("move", n, c)
      BY <1>1, <2>1, <2>2 DEF Ahead, k
    <3>2. ~Ahead("clear", n, c)' /\ ~Ahead("move", n, c)'
      BY <1>2, <2>1, <2>2 DEF Ahead
    <3> QED
      BY <1>5, <2>1, <2>2, <3>1, <3>2, TextBar, TextBarNext DEF Text
  <2>3. CASE n = k
    <3>1. Ahead("move", n, c)
      BY <1>1, <2>1, <2>3 DEF Ahead, k
    <3>2. ~Ahead("clear", n, c)' /\ ~Ahead("move", n, c)'
      BY <1>2, <2>1, <2>3 DEF Ahead
    <3> QED
      BY <1>5, <2>3, <3>1, <3>2, TextBar, TextBarNext DEF Text
  <2>4. CASE n > k
    <3>1. Ahead("move", n, c) /\ Ahead("move", n, c)'
      BY <1>1, <1>2, <2>1, <2>4 DEF Ahead, k
    <3>2. Cols \in Nat \ {0} /\ n + Cols # k
      BY <2>1, <2>4, GpuAssumption
    <3>3. Moved(n)' = Moved(n)
      BY <1>5, <3>2 DEF Moved
    <3> QED
      BY <3>1, <3>3, TextBar, TextBarNext
  <2> QED
    BY <2>1, <2>2, <2>3, <2>4
<1> QED
  BY <1>6, SameText

\* Drawing and marking change no text.
LEMMA RefinesStays ==
  ASSUME NEW c, Threads = {c}, IInv,
         \/ TerminalFlush(c) \/ SyncVga(c) \/ WipeMargin(c)
         \/ \E b \in Blocks : FbDraw(c, b)
  PROVE  textBar' = textBar
<1>1. /\ pc[c] \notin {"clear", "move"} /\ pc'[c] \notin {"clear", "move"}
      /\ terminal_cells' = terminal_cells
  BY DEF IInv, TypeOK, TerminalFlush, SyncVga, WipeMargin, FbDraw, Goto
<1> QED
  BY <1>1, Stays DEF Text

LEMMA RefinesSyncCell ==
  ASSUME NEW c, Threads = {c}, IInv, SyncCell(c)
  PROVE  textBar' = textBar
<1>1. /\ pc[c] \notin {"clear", "move"} /\ pc'[c] \notin {"clear", "move"}
      /\ terminal_cells' = terminal_cells
  BY DEF IInv, TypeOK, SyncCell, Advanced, Goto
<1> QED
  BY <1>1, Stays DEF Text

LEMMA RefinesDrawCell ==
  ASSUME NEW c, Threads = {c}, IInv, DrawCell(c)
  PROVE  textBar' = textBar
<1>1. /\ pc[c] \notin {"clear", "move"} /\ pc'[c] \notin {"clear", "move"}
      /\ terminal_cells' = terminal_cells
  BY DEF IInv, TypeOK, DrawCell, Goto
<1> QED
  BY <1>1, Stays DEF Text

LEMMA RefinesCleanCell ==
  ASSUME NEW c, Threads = {c}, IInv, CleanCell(c)
  PROVE  textBar' = textBar
<1> DEFINE n == now[c]
           x == Clean(terminal_cells[n].text)
<1>1. /\ TypeOK /\ n \in Cells /\ terminal_cells \in [Cells -> CellType]
      /\ pc[c] \notin {"clear", "move"} /\ pc'[c] \notin {"clear", "move"}
  BY DEF IInv, TypeOK, CleanCell, Advanced, Goto, CellType
<1>2. x \in CellType /\ x.text = Text(n)
  BY <1>1, CellFields DEF CellType, Text
<1>3. terminal_cells' = [terminal_cells EXCEPT ![n] = x]
  BY <1>1 DEF CleanCell
<1> HIDE DEF n, x
<1>4. \A k \in Cells : Text(k)' = Text(k)
  BY <1>1, <1>2, <1>3, CellWrite DEF Text
<1> QED
  BY <1>1, <1>4, Stays

LEMMA RefinesMarkCell ==
  ASSUME NEW c, Threads = {c}, IInv, MarkCell(c)
  PROVE  textBar' = textBar
<1> DEFINE n == now[c]
           x == Dirty(terminal_cells[n].text)
<1>1. /\ TypeOK /\ n \in Cells /\ terminal_cells \in [Cells -> CellType]
      /\ pc[c] \notin {"clear", "move"} /\ pc'[c] \notin {"clear", "move"}
  BY DEF IInv, TypeOK, MarkCell, Advanced, Goto, CellType
<1>2. x \in CellType /\ x.text = Text(n)
  BY <1>1, CellFields DEF CellType, Text
<1>3. terminal_cells' = [terminal_cells EXCEPT ![n] = x]
  BY <1>1 DEF MarkCell, Marked
<1> HIDE DEF n, x
<1>4. \A k \in Cells : Text(k)' = Text(k)
  BY <1>1, <1>2, <1>3, CellWrite DEF Text
<1> QED
  BY <1>1, <1>4, Stays

LEMMA RefinesNext ==
  ASSUME NEW c, Threads = {c}
  PROVE  IInv /\ [Next]_vars => [T!Next]_textBar
<1> SUFFICES ASSUME IInv, [Next]_vars PROVE T!Next \/ textBar' = textBar
  OBVIOUS
<1>1. CASE UNCHANGED vars
  <2>1. UNCHANGED <<terminal_cells, pc, now>>
    BY <1>1 DEF vars, loop
  <2>2. \A n \in Cells : textBar'[n] = textBar[n]
    BY <2>1 DEF textBar, In, Moved
  <2> QED
    BY <2>2, SameText
<1>2. CASE Call(c)
  <2>1. ASSUME NEW n \in Cells, NEW x \in Texts, NEW s \in BOOLEAN, TerminalPut(c, n, x, s)
        PROVE  T!Next
    BY <2>1, RefinesPut DEF T!Next
  <2>2. ASSUME NEW s \in BOOLEAN, TerminalClear(c, s) PROVE T!Next
    BY <2>2, RefinesClear DEF T!Next
  <2>3. ASSUME NEW ismove \in BOOLEAN, Chscroll(c, ismove) PROVE T!Next \/ textBar' = textBar
    BY <2>3, RefinesScroll DEF T!Next
  <2> QED
    BY <1>2, <2>1, <2>2, <2>3, RefinesStays DEF Call
<1>3. CASE Work(c)
  BY <1>3, RefinesStays, RefinesClearCell, RefinesSyncCell, RefinesDrawCell,
     RefinesCleanCell, RefinesMoveCell, RefinesMarkCell DEF Work
<1> QED
  BY <1>1, <1>2, <1>3 DEF Next

\* For a terminal of any size written by one thread, clearing, scrolling and writing act as
\* one change of the text each, though the rows are moved in place, cell by cell, and
\* drawing changes no text (gpu.c:90-150).
THEOREM Refinement ==
  ASSUME NEW c, Threads = {c}
  PROVE  Spec => TerminalSpec
<1>1. Init => T!Init
  BY RefinesInit
<1>2. IInv /\ [Next]_vars => [T!Next]_textBar
  BY RefinesNext
<1>3. Spec => T!Init /\ [][T!Next]_textBar
  BY <1>1, <1>2, Invariant, PTL DEF Spec
<1> QED
  BY <1>3 DEF TerminalSpec, T!Spec
=============================================================================

--------------------------------- MODULE Gpu ---------------------------------
(***************************************************************************)
(* The text terminal of the GPU driver: am/src/ioe/gpu.c.                  *)
(*                                                                         *)
(* A cell has a text (character and colours) and a dirty bit.  A call of   *)
(* __am_gpu_terminal writes cells, and when asked to draws the dirty ones  *)
(* and tells the device.  __am_gpu_chscroll moves the rows up, or wipes    *)
(* what lies right of the terminal, and makes every cell dirty.            *)
(* __am_gpu_fbdraw paints over anything and knows nothing of cells.        *)
(*                                                                         *)
(* Calls may preempt one another, at the latest between two cells: a step  *)
(* writes one cell, or does one of the three parts of __am_write_ascii.    *)
(* The framebuffer is cut into the blocks of the cells and the margin.     *)
(* Within a block, drawings that overlap in time may mix.                  *)
(***************************************************************************)
EXTENDS Integers

CONSTANTS
  Threads,     \* those who call the driver
  Drawers,     \* those of them that call fbdraw
  Rows, Cols,  \* TERMINAL_HEIGHT, TERMINAL_WIDTH
  Texts,       \* what a cell can hold: content, fgcolor, bgcolor
  Blank,       \* { .content = ' ', .fgcolor = 255, .bgcolor = 0 }
  Margin,      \* the block right of the terminal
  Black,       \* what the margin is wiped with
  Other        \* pixels that show no text

Last   == Rows * Cols - 1
Cells  == 0..Last
Blocks == Cells \cup {Margin}

ASSUME GpuAssumption ==
  /\ Rows \in Nat \ {0} /\ Cols \in Nat \ {0}
  /\ Drawers \subseteq Threads
  /\ Blank \in Texts /\ Other \notin Texts \cup {Black}
  /\ Margin \notin Cells

VARIABLES
  terminal_cells,  \* terminal_cells[n]: text and dirty
  fb,              \* fb[b]: what block b of the framebuffer shows
  pc,              \* pc[t]: what t does next
  now,             \* now[t]: the cell its loop is at
  buffer,          \* buffer[t]: the picture __am_write_ascii made
  sync,            \* sync[t]: the flag of its call
  hit,             \* auxiliary: hit[t]: the cell t is drawing was written, or painted over
  stale,           \* auxiliary: blocks last drawn by fbdraw or with a hit
  painted          \* auxiliary: blocks fbdraw painted since they were given back

loop == <<now, buffer>>
aux  == <<hit, stale, painted>>
vars == <<terminal_cells, fb, pc, loop, sync, aux>>

Dirty(x) == [text |-> x, dirty |-> TRUE]
Clean(x) == [text |-> x, dirty |-> FALSE]

\* What __am_gpu_init leaves.  It clears no pixel.
Init ==
  /\ terminal_cells = [n \in Cells |-> Dirty(Blank)]
  /\ fb = [b \in Blocks |-> Other]
  /\ pc = [t \in Threads |-> "idle"]
  /\ now = [t \in Threads |-> 0]
  /\ buffer = [t \in Threads |-> Blank]
  /\ sync = [t \in Threads |-> FALSE]
  /\ hit = [t \in Threads |-> FALSE]
  /\ stale = {} /\ painted = {Margin}

Goto(t, l) == pc' = [pc EXCEPT ![t] = l]

\* for (...; now++): on with the loop at l, or behind it at m.
Advanced(t, l, m) ==
  /\ now' = [now EXCEPT ![t] = IF @ = Last THEN 0 ELSE @ + 1]
  /\ Goto(t, IF now[t] = Last THEN m ELSE l)

\* Threads in the middle of drawing block b.
Drawing(b) ==
  {u \in Threads : \/ pc[u] \in {"draw", "clean"} /\ now[u] = b
                   \/ pc[u] = "wipe" /\ b = Margin}

\* Thread t changes cell b or its block: what others are drawing there is spoilt.
Spoil(t, b) == hit' = [u \in Threads |-> hit[u] \/ u \in Drawing(b) \ {t}]

-----------------------------------------------------------------------------
(* __am_gpu_terminal                                                         *)

\* if (cfg->sync)
Synced(s) == IF s THEN "sync" ELSE "idle"

\* The cell a put leaves.  Mutant: without its dirty bit.
WrittenClean(n, x) == [terminal_cells[n] EXCEPT !.text = x]
Written(n, x)      == Dirty(x)

\* content # 0: one cell is written.
TerminalPut(t, n, x, s) ==
  /\ pc[t] = "idle"
  /\ terminal_cells' = [terminal_cells EXCEPT ![n] = Written(n, x)]
  /\ Spoil(t, n)
  /\ Goto(t, Synced(s))
  /\ UNCHANGED <<fb, loop, sync, stale, painted>>

\* clear: all are.
TerminalClear(t, s) ==
  /\ pc[t] = "idle"
  /\ sync' = [sync EXCEPT ![t] = s]
  /\ Goto(t, "clear")
  /\ UNCHANGED <<terminal_cells, fb, loop, aux>>

ClearCell(t) ==
  /\ pc[t] = "clear"
  /\ terminal_cells' = [terminal_cells EXCEPT ![now[t]] = Dirty(Blank)]
  /\ Spoil(t, now[t])
  /\ Advanced(t, "clear", Synced(sync[t]))
  /\ sync' = [sync EXCEPT ![t] = @ /\ now[t] # Last]
  /\ UNCHANGED <<fb, buffer, stale, painted>>

\* Neither clear nor content.
TerminalFlush(t) ==
  /\ pc[t] = "idle"
  /\ Goto(t, "sync")
  /\ UNCHANGED <<terminal_cells, fb, loop, sync, aux>>

\* The loop over the cells: skip a clean one, or make the picture of a dirty one.
SyncCell(t) ==
  /\ pc[t] = "sync"
  /\ \/ /\ terminal_cells[now[t]].dirty
        /\ buffer' = [buffer EXCEPT ![t] = terminal_cells[now[t]].text]
        /\ Goto(t, "draw")
        /\ UNCHANGED now
     \/ /\ ~terminal_cells[now[t]].dirty
        /\ Advanced(t, "sync", "vga")
        /\ UNCHANGED buffer
  /\ UNCHANGED <<terminal_cells, fb, sync, aux>>

\* io_write(AM_GPU_DRAW256, ...): counted as done with its last pixel.
DrawCell(t) ==
  LET n == now[t] IN
  /\ pc[t] = "draw"
  /\ \E x \in {buffer[t]} \cup (IF hit[t] THEN {Other} ELSE {}) : fb' = [fb EXCEPT ![n] = x]
  /\ stale' = IF hit[t] THEN stale \cup {n} ELSE stale \ {n}
  /\ hit' = [u \in Threads |->
               hit[u] \/ (u \in Drawing(n) \ {t} /\ buffer[u] # buffer[t])]
  /\ Goto(t, "clean")
  /\ UNCHANGED <<terminal_cells, loop, sync, painted>>

\* target->dirty = false
CleanCell(t) ==
  /\ pc[t] = "clean"
  /\ terminal_cells' = [terminal_cells EXCEPT ![now[t]] = Clean(@.text)]
  /\ stale' = IF hit[t] THEN stale \cup {now[t]} ELSE stale
  /\ buffer' = [buffer EXCEPT ![t] = Blank]
  /\ hit' = [hit EXCEPT ![t] = FALSE]
  /\ Advanced(t, "sync", "vga")
  /\ UNCHANGED <<fb, sync, painted>>

\* sync_vga(): draws nothing and tells the device.
SyncVga(t) ==
  /\ pc[t] = "vga"
  /\ Goto(t, "idle")
  /\ UNCHANGED <<terminal_cells, fb, loop, sync, aux>>

-----------------------------------------------------------------------------
(* __am_gpu_chscroll                                                         *)

Chscroll(t, ismove) ==
  /\ pc[t] = "idle"
  /\ Goto(t, IF ismove THEN "move" ELSE "wipe")
  /\ UNCHANGED <<terminal_cells, fb, loop, sync, aux>>

\* What cell n becomes.  Mutant: its neighbour in the row.
MovedNeighbour(n) == IF n + 1 \in Cells THEN terminal_cells[n + 1] ELSE Dirty(Blank)
Moved(n) == IF n + Cols \in Cells THEN terminal_cells[n + Cols] ELSE Dirty(Blank)

MoveCell(t) ==
  /\ pc[t] = "move"
  /\ terminal_cells' = [terminal_cells EXCEPT ![now[t]] = Moved(now[t])]
  /\ Spoil(t, now[t])
  /\ Advanced(t, "move", "mark")
  /\ UNCHANGED <<fb, buffer, sync, stale, painted>>

\* The columns right of the terminal.
WipeMargin(t) ==
  /\ pc[t] = "wipe"
  /\ \E x \in {Black} \cup (IF hit[t] THEN {Other} ELSE {}) : fb' = [fb EXCEPT ![Margin] = x]
  /\ painted' = IF hit[t] THEN painted ELSE painted \ {Margin}
  /\ Goto(t, "mark")
  /\ hit' = [hit EXCEPT ![t] = FALSE]
  /\ UNCHANGED <<terminal_cells, loop, sync, stale>>

\* terminal_cells[now].dirty = true.  Mutant: only what was moved is redrawn.
MarkedNot(n) == terminal_cells[n]
Marked(n)    == Dirty(terminal_cells[n].text)

MarkCell(t) ==
  /\ pc[t] = "mark"
  /\ terminal_cells' = [terminal_cells EXCEPT ![now[t]] = Marked(now[t])]
  /\ painted' = painted \ {now[t]}
  /\ Advanced(t, "mark", "idle")
  /\ UNCHANGED <<fb, buffer, sync, hit, stale>>

-----------------------------------------------------------------------------
(* __am_gpu_fbdraw and __am_gpu_fbdraw256 called from outside: pixels go into *)
(* block b, and whatever cell it belongs to is not told.                     *)

FbDraw(t, b) ==
  /\ t \in Drawers /\ pc[t] = "idle"
  /\ fb' = [fb EXCEPT ![b] = Other]
  /\ stale' = stale \cup {b} /\ painted' = painted \cup {b}
  /\ Spoil(t, b)
  /\ UNCHANGED <<terminal_cells, pc, loop, sync>>

Call(t) ==
  \/ \E n \in Cells, x \in Texts, s \in BOOLEAN : TerminalPut(t, n, x, s)
  \/ \E s \in BOOLEAN : TerminalClear(t, s)
  \/ TerminalFlush(t)
  \/ \E ismove \in BOOLEAN : Chscroll(t, ismove)
  \/ \E b \in Blocks : FbDraw(t, b)

Work(t) ==
  \/ ClearCell(t) \/ SyncCell(t) \/ DrawCell(t) \/ CleanCell(t) \/ SyncVga(t)
  \/ MoveCell(t) \/ WipeMargin(t) \/ MarkCell(t)

Next == \E t \in Threads : Call(t) \/ Work(t)

Spec == Init /\ [][Next]_vars

-----------------------------------------------------------------------------
(* Properties.                                                               *)

Labels == {"idle", "clear", "sync", "draw", "clean", "vga", "move", "wipe", "mark"}

\* Every variable has its type.
TypeOK ==
  /\ terminal_cells \in [Cells -> [text : Texts, dirty : BOOLEAN]]
  /\ fb \in [Blocks -> Texts \cup {Black, Other}]
  /\ pc \in [Threads -> Labels]
  /\ now \in [Threads -> Cells] /\ buffer \in [Threads -> Texts]
  /\ sync \in [Threads -> BOOLEAN] /\ hit \in [Threads -> BOOLEAN]
  /\ stale \subseteq Blocks /\ painted \subseteq Blocks

Scrolling(n) == \E t \in Threads : pc[t] = "move" \/ (pc[t] = "mark" /\ now[t] <= n)

\* However calls preempt one another, a clean cell is on the screen as it was last
\* written, unless fbdraw painted over it, or it was written or painted over while it
\* was being drawn (gpu.c:73-88): that window is the only one in which an update is lost.
Coherent ==
  \A n \in Cells :
    ~terminal_cells[n].dirty /\ n \notin stale /\ ~Scrolling(n)
      => fb[n] = terminal_cells[n].text

\* When a call tells the device to show the screen, all cells are on it, and the margin
\* is black, except where fbdraw painted after the last chscroll (gpu.c:90-114, 136-148).
\* For one thread: others' calls may fall between the drawing and the telling.
SyncShows ==
  [][\A t \in Threads : pc[t] = "vga" /\ pc'[t] = "idle" =>
       \A b \in Blocks \ painted :
         fb[b] = IF b = Margin THEN Black ELSE terminal_cells[b].text]_vars

-----------------------------------------------------------------------------
(* Refinement of Terminal, for one thread.                                   *)

In(l, n) == \E t \in Threads : pc[t] = l /\ now[t] <= n

\* The text as it will be when the loop under way ends.
textBar ==
  [n \in Cells |-> CASE In("clear", n) -> Blank
                     [] In("move", n)  -> Moved(n).text
                     [] OTHER          -> terminal_cells[n].text]

T == INSTANCE Terminal WITH text <- textBar

\* Moving the rows in place, cell by cell, scrolls them.
TerminalSpec == T!Spec
=============================================================================

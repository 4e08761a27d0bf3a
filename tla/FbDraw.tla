------------------------------- MODULE FbDraw -------------------------------
(***************************************************************************)
(* Drawing a picture: __am_gpu_fbdraw and __am_gpu_fbdraw256 of gpu.c.     *)
(* The picture is cut where it leaves the screen, and copied pixel by      *)
(* pixel; a 32-bit pixel is reduced to 3 bits of red, 3 of green, 2 of     *)
(* blue.  One call, for every place and size within bounds, with the       *)
(* unsigned arithmetic of the code.                                        *)
(***************************************************************************)
EXTENDS Integers

CONSTANTS
  SCREEN_WIDTH, SCREEN_HEIGHT,
  Args,      \* BOUND: values of x, y, w and h
  Modulus,   \* 2^32: unsigned arithmetic is modulo it
  Behind     \* BOUND: bytes modelled behind the framebuffer

ScreenNr  == SCREEN_WIDTH * SCREEN_HEIGHT
Addresses == 0..(ScreenNr + Behind - 1)

Parameters ==
  /\ SCREEN_WIDTH \in Nat \ {0} /\ SCREEN_HEIGHT \in Nat \ {0} /\ Behind \in Nat
  /\ Args \subseteq Nat /\ \A a \in Args : a < Modulus
  /\ Modulus \in Nat /\ ScreenNr + SCREEN_WIDTH < Modulus

VARIABLES
  memory,    \* bytes from FB_ADDR on
  ctl,       \* the request, which the code changes
  call,      \* auxiliary: the request as it was made
  i, j,      \* the loops
  pc,
  told       \* whether the device was told to show the screen

vars == <<memory, ctl, call, i, j, pc, told>>

\* pixels[k]: a different one at each place, 8 bits wide or 32.
Pixel8(k)  == (k + 1) % 256
Pixel32(k) == [red |-> (255 - k) % 256, green |-> (37 * k + 5) % 256, blue |-> (91 * k + 70) % 256]

\* turn256c
Turn256c(p) == (p.red \div 32) * 32 + (p.green \div 32) * 4 + p.blue \div 64

Init ==
  /\ memory = [a \in Addresses |-> 0]
  /\ call \in [x : Args, y : Args, w : Args, h : Args, sync : BOOLEAN, deep : BOOLEAN]
  /\ ctl = call
  /\ i = 0 /\ j = 0 /\ pc = "clip" /\ told = FALSE

\* MIN((SCREEN_WIDTH - ctl->x), ctl->w)
Cut(side, at, length) ==
  LET room == (side - at) % Modulus IN IF room < length THEN room ELSE length

\* The early returns.  Mutants: no test of x; a picture that begins at the edge is out.
OutsideY    == SCREEN_HEIGHT < ctl.y
OutsideEdge == SCREEN_WIDTH <= ctl.x \/ SCREEN_HEIGHT <= ctl.y
Outside     == SCREEN_WIDTH < ctl.x \/ SCREEN_HEIGHT < ctl.y

Return ==
  /\ pc = "clip" /\ Outside
  /\ pc' = "done"
  /\ UNCHANGED <<memory, ctl, call, i, j, told>>

Clip ==
  /\ pc = "clip" /\ ~Outside
  /\ ctl' = [ctl EXCEPT !.w = Cut(SCREEN_WIDTH, ctl.x, @),
                        !.h = Cut(SCREEN_HEIGHT, ctl.y, @)]
  /\ pc' = "draw"
  /\ UNCHANGED <<memory, call, i, j, told>>

\* outb(FB_ADDR + (ctl->x + j + SCREEN_WIDTH * (ctl->y + i)), ...)
Target == (ctl.x + j + SCREEN_WIDTH * (ctl.y + i)) % Modulus

DrawPixel ==
  /\ pc = "draw" /\ i < ctl.h /\ j < ctl.w
  /\ LET k == j + ctl.w * i
         c == IF ctl.deep THEN Turn256c(Pixel32(k)) ELSE Pixel8(k)
     IN memory' = [a \in Addresses |-> IF a = Target THEN c ELSE memory[a]]
  /\ j' = j + 1
  /\ UNCHANGED <<ctl, call, i, pc, told>>

NextLine ==
  /\ pc = "draw" /\ i < ctl.h /\ j >= ctl.w
  /\ i' = i + 1 /\ j' = 0
  /\ UNCHANGED <<memory, ctl, call, pc, told>>

\* if (ctl->sync) outl(SYNC_ADDR, 1)
Finish ==
  /\ pc = "draw" /\ i >= ctl.h
  /\ told' = ctl.sync /\ pc' = "done"
  /\ UNCHANGED <<memory, ctl, call, i, j>>

Next == Return \/ Clip \/ DrawPixel \/ NextLine \/ Finish

Spec == Init /\ [][Next]_vars /\ WF_vars(Next)

-----------------------------------------------------------------------------
(* Properties.                                                               *)

\* Every variable has its type.
TypeOK ==
  /\ memory \in [Addresses -> 0..255]
  /\ {ctl, call} \subseteq [x : Nat, y : Nat, w : 0..(Modulus - 1), h : 0..(Modulus - 1),
                           sync : BOOLEAN, deep : BOOLEAN]
  /\ i \in 0..SCREEN_HEIGHT /\ j \in 0..SCREEN_WIDTH
  /\ pc \in {"clip", "draw", "done"} /\ told \in BOOLEAN

\* The levels of a pixel's colours: 8 of red, 8 of green, 4 of blue.
Shows(c, p) ==
  /\ c \div 32 = (p.red * 8) \div 256
  /\ (c \div 4) % 8 = (p.green * 8) \div 256
  /\ c % 4 = (p.blue * 4) \div 256

\* Whatever place and size are asked for, nothing is drawn outside the rectangle asked
\* for, and nothing behind the framebuffer, even at the screen's last column and line
\* (gpu.c:197-220); what was not cut at the right is drawn pixel for pixel.
DrawnInside ==
  \A a \in Addresses :
    LET px == (a % SCREEN_WIDTH) - call.x
        py == (a \div SCREEN_WIDTH) - call.y
        k  == px + call.w * py
    IN IF a < ScreenNr /\ px \in 0..(call.w - 1) /\ py \in 0..(call.h - 1)
       THEN pc = "done" /\ call.x + call.w <= SCREEN_WIDTH
              => IF call.deep THEN Shows(memory[a], Pixel32(k)) ELSE memory[a] = Pixel8(k)
       ELSE memory[a] = 0

\* A call ends, and has told the device if it was asked to and began on the screen: a
\* place at the very edge (x = SCREEN_WIDTH, y = SCREEN_HEIGHT) begins on it.
CallEnds ==
  <>(pc = "done" /\ told = (/\ call.sync
                           /\ call.x \in 0..SCREEN_WIDTH /\ call.y \in 0..SCREEN_HEIGHT))
=============================================================================

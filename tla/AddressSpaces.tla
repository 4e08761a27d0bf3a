--------------------------- MODULE AddressSpaces ---------------------------
(***************************************************************************)
(* What the VME promises: each address space is a map from virtual pages   *)
(* to physical pages of its own.  A call of map changes one page of one    *)
(* space; while it is under way that page is as before, absent, or as      *)
(* asked for, and when it returns it is as asked for.  A new space holds   *)
(* the kernel's pages and nothing else.                                    *)
(***************************************************************************)
CONSTANTS
  Spaces,    \* the address spaces
  Kas,       \* the one of the kernel
  Callers,   \* those who call map
  Vas,       \* virtual pages
  Pas,       \* physical pages
  None       \* no page; no call

VARIABLES
  trans,     \* trans[as][va]: where page va of space as lies, or None
  made,      \* the spaces that exist
  want       \* want[c]: what c is asking map for, or None

absVars == <<trans, made, want>>

Requests == [as : Spaces, va : Vas, pa : Pas]

Init ==
  /\ trans = [as \in Spaces |-> [va \in Vas |-> None]]
  /\ made = {}
  /\ want = [c \in Callers |-> None]

\* A space is made: the kernel's own empty, any other with the kernel's pages.
Make(as) ==
  /\ as \notin made
  /\ made' = made \cup {as}
  /\ trans' = IF as = Kas THEN trans ELSE [trans EXCEPT ![as] = trans[Kas]]
  /\ UNCHANGED want

Begin(c) ==
  /\ want[c] = None
  /\ want'[c] \in Requests /\ want'[c].as \in made
  /\ want' = [want EXCEPT ![c] = want'[c]]
  /\ UNCHANGED <<trans, made>>

\* Only the page asked for changes, and only to nothing or to what is asked for.
Work(c) ==
  /\ want[c] # None
  /\ LET r == want[c]
         p == trans'[r.as][r.va]
     IN p \in {None, r.pa} /\ trans' = [trans EXCEPT ![r.as][r.va] = p]
  /\ UNCHANGED <<made, want>>

End(c) ==
  /\ want[c] # None
  /\ trans[want[c].as][want[c].va] = want[c].pa
  /\ want' = [want EXCEPT ![c] = None]
  /\ UNCHANGED <<trans, made>>

Next ==
  \/ \E as \in Spaces : Make(as)
  \/ \E c \in Callers : Begin(c) \/ Work(c) \/ End(c)

Spec == Init /\ [][Next]_absVars
=============================================================================

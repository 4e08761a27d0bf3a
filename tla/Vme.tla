--------------------------------- MODULE Vme ---------------------------------
(***************************************************************************)
(* Virtual memory: am/src/vme.c and the page macros of unisys.h, riscv.h.  *)
(*                                                                         *)
(* An address space is a two-level tree of page tables.  protect copies    *)
(* the kernel's directory, so the tables of kernel pages are shared by all *)
(* spaces; map adds tables for user pages from pages the client's pgalloc  *)
(* hands out.  map writes an entry twice, page number first, valid bit     *)
(* second, and kernel threads are preemptible: a step is one access to a   *)
(* table, and calls on different spaces interleave.                        *)
(*                                                                         *)
(* Addresses are page numbers.  All of memory is mapped to itself in every *)
(* space; the client hands out tables from Pool and maps user pages to     *)
(* pages outside it.                                                       *)
(***************************************************************************)
EXTENDS Integers

CONSTANTS
  Entries,     \* entries of a table (2^T0SZ)
  DirEntries,  \* entries of a directory (2^T1SZ)
  Pmem,        \* page numbers of NEMU_PADDR_SPACE
  UserSpace,   \* page numbers of USER_SPACE
  Pool,        \* the pages pgalloc has to give
  DataPages,   \* pages user pages are mapped to
  MapVas,      \* BOUND: user pages that are mapped
  Spaces,      \* the AddrSpaces given to protect
  Kas,         \* kas
  Callers,     \* threads of kernel code
  Main,        \* the one that calls vme_init
  Prots,       \* values of map's prot
  NoAccess,    \* MMAP_NONE
  None         \* NULL, no page, no call

AllSpaces == Spaces \cup {Kas}
PageIndex == 0..(Entries - 1)
DirIndex  == 0..(DirEntries - 1)
Index     == PageIndex \cup DirIndex
Vas       == Pmem \cup UserSpace

ASSUME MemoryAssumption ==
  /\ Entries \in Nat \ {0} /\ DirEntries \in Nat
  /\ Pmem \cup UserSpace \subseteq 0..(Entries * DirEntries - 1)
  /\ \E first, last \in Pmem : Pmem = first..last
  /\ \A u \in UserSpace, k \in Pmem : u \div Entries # k \div Entries
  /\ Pool \subseteq Pmem /\ DataPages \subseteq Pmem \ Pool
  /\ MapVas \subseteq UserSpace

ASSUME NamesAssumption ==
  /\ Kas \notin Spaces /\ Main \in Callers
  /\ None \notin Pmem \cup AllSpaces
  /\ None \notin [as : AllSpaces, va : Vas \cup {None}, pa : Pmem \cup {None},
                  prot : Prots \cup {None}]
  /\ None \notin [as : AllSpaces, va : Vas, pa : Pmem]

VARIABLES
  pt,          \* pt[p][i]: entry i of the table in page p
  free,        \* pages pgalloc has not handed out
  dir,         \* dir[as]: as->ptr
  ready,       \* spaces whose protect has returned, and kas once it has a directory
  satp,        \* csr
  vme_enable,
  seg,         \* vme_init: the next page to map
  pc,          \* pc[c]: what c does next
  req,         \* req[c]: the arguments of the call c is in, or None
  table,       \* table[c]: map's table of the page, once found or allocated
  granted      \* auxiliary: the prot last asked for a page

vars == <<pt, free, dir, ready, satp, vme_enable, seg, pc, req, table, granted>>

Pte     == [ppn : Pmem \cup {None}, v : BOOLEAN]
Zeroed  == [i \in Index |-> [ppn |-> None, v |-> FALSE]]
Request == [as : AllSpaces, va : Vas, pa : Pmem, prot : Prots]
Steps   == {"idle", "init", "copy", "walk", "alloc", "dir", "dirv", "leaf", "leafv", "ret"}

\* The macros VPN_1 and VPN_0.  Mutant: too narrow a field.
Vpn1Narrow(va) == (va \div Entries) % (Entries \div 2)
Vpn1(va) == va \div Entries
Vpn0(va) == va % Entries

\* map_query, which sees what the hart's own walk sees.
MapQuery(as, va) ==
  LET pde == pt[dir[as]][Vpn1(va)]
      pte == pt[pde.ppn][Vpn0(va)]
  IN IF pde.v /\ pte.v THEN pte.ppn ELSE None

Lowest(S) == CHOOSE p \in S : \A q \in S : p <= q

Init ==
  /\ pt = [p \in Pool |-> Zeroed]
  /\ free = Pool
  /\ dir = [as \in AllSpaces |-> None] /\ ready = {}
  /\ satp = None /\ vme_enable = FALSE
  /\ seg = Lowest(Pmem)
  /\ pc = [c \in Callers |-> "idle"]
  /\ req = [c \in Callers |-> None]
  /\ table = [c \in Callers |-> None]
  /\ granted = [as \in AllSpaces |-> [va \in Vas |-> None]]

-----------------------------------------------------------------------------
(* pgalloc, the client's allocator: zeroed pages, in order, each once.       *)
PgAlloc(p) ==
  /\ p \in free /\ \A q \in free : p <= q
  /\ free' = free \ {p}

Goto(c, l) == pc' = [pc EXCEPT ![c] = l]

-----------------------------------------------------------------------------
(* vme_init                                                                  *)

VmeInit(c) ==
  /\ c = Main /\ pc[c] = "idle" /\ dir[Kas] = None
  /\ \E p \in free : PgAlloc(p) /\ dir' = [dir EXCEPT ![Kas] = p]
  /\ ready' = ready \cup {Kas}
  /\ Goto(c, "init")
  /\ UNCHANGED <<pt, satp, vme_enable, seg, req, table, granted>>

\* Whether the loop over the segment goes on.  Mutants: one page too few, too many.
MoreShort == seg + 1 \in Pmem
MoreLong  == seg \in Pmem \/ seg - 1 \in Pmem
More      == seg \in Pmem

\* map(&kas, va, va, MMAP_READ): the loop body.
InitMap(c) ==
  /\ pc[c] = "init" /\ More
  /\ \E prot \in Prots \ {NoAccess} :
       req' = [req EXCEPT ![c] = [as |-> Kas, va |-> seg, pa |-> seg, prot |-> prot]]
  /\ seg' = seg + 1
  /\ Goto(c, "walk")
  /\ UNCHANGED <<pt, free, dir, ready, satp, vme_enable, table, granted>>

InitDone(c) ==
  /\ pc[c] = "init" /\ ~More
  /\ satp' = dir[Kas] /\ vme_enable' = TRUE
  /\ Goto(c, "idle")
  /\ UNCHANGED <<pt, free, dir, ready, seg, req, table, granted>>

-----------------------------------------------------------------------------
(* protect                                                                   *)

Protect(c, as) ==
  /\ pc[c] = "idle" /\ vme_enable /\ dir[as] = None
  /\ \E p \in free : PgAlloc(p) /\ dir' = [dir EXCEPT ![as] = p]
  /\ req' = [req EXCEPT ![c] = [as |-> as, va |-> None, pa |-> None, prot |-> None]]
  /\ Goto(c, "copy")
  /\ UNCHANGED <<pt, ready, satp, vme_enable, seg, table, granted>>

\* memcpy(updir, kas.ptr, PGSIZE).  Mutant: the other way round.
CopiedBack(d) == [pt EXCEPT ![dir[Kas]] = pt[d]]
Copied(d)     == [pt EXCEPT ![d] = pt[dir[Kas]]]

Copy(c) ==
  /\ pc[c] = "copy"
  /\ pt' = Copied(dir[req[c].as])
  /\ ready' = ready \cup {req[c].as}
  /\ req' = [req EXCEPT ![c] = None]
  /\ Goto(c, "idle")
  /\ UNCHANGED <<free, dir, satp, vme_enable, seg, table, granted>>

-----------------------------------------------------------------------------
(* map.  The page is in the space's own area (as->area), and nobody else is  *)
(* in a call on the same space: both are the caller's to see to, since the   *)
(* code has no lock and its assertion is commented out.                      *)

Busy == {req[d].as : d \in {x \in Callers : req[x] # None}}

Map(c, as, va, pa, prot) ==
  /\ pc[c] = "idle" /\ as \in ready
  /\ as \notin Busy
  /\ req' = [req EXCEPT ![c] = [as |-> as, va |-> va, pa |-> pa, prot |-> prot]]
  /\ Goto(c, "walk")
  /\ UNCHANGED <<pt, free, dir, ready, satp, vme_enable, seg, table, granted>>

\* *p_target_pde
Dir(c) == dir[req[c].as]
Pde(c) == pt[Dir(c)][Vpn1(req[c].va)]

\* if (*p_target_pde & PTE_V).  Mutant: the test is left out.
HasTableNever(c) == FALSE
HasTable(c)      == Pde(c).v

Walk(c) ==
  /\ pc[c] = "walk"
  /\ \/ HasTable(c) /\ table' = [table EXCEPT ![c] = Pde(c).ppn] /\ Goto(c, "leaf")
     \/ ~HasTable(c) /\ Goto(c, "alloc") /\ UNCHANGED table
  /\ UNCHANGED <<pt, free, dir, ready, satp, vme_enable, seg, req, granted>>

Alloc(c) ==
  /\ pc[c] = "alloc"
  /\ \E p \in free : PgAlloc(p) /\ table' = [table EXCEPT ![c] = p]
  /\ Goto(c, "dir")
  /\ UNCHANGED <<pt, dir, ready, satp, vme_enable, seg, req, granted>>

\* *p_target_pde = PTE_PPN(...): the page number without the valid bit.
WriteDir(c) ==
  /\ pc[c] = "dir"
  /\ pt' = [pt EXCEPT ![Dir(c)][Vpn1(req[c].va)] = [ppn |-> table[c], v |-> FALSE]]
  /\ Goto(c, "dirv")
  /\ UNCHANGED <<free, dir, ready, satp, vme_enable, seg, req, table, granted>>

\* pte | PTE_V
Valid(pte) == [ppn |-> pte.ppn, v |-> TRUE]

\* *p_target_pde |= PTE_V
ValidDir(c) ==
  /\ pc[c] = "dirv"
  /\ pt' = [pt EXCEPT ![Dir(c)][Vpn1(req[c].va)] = Valid(@)]
  /\ Goto(c, "leaf")
  /\ UNCHANGED <<free, dir, ready, satp, vme_enable, seg, req, table, granted>>

WriteLeaf(c) ==
  /\ pc[c] = "leaf"
  /\ pt' = [pt EXCEPT ![table[c]][Vpn0(req[c].va)] = [ppn |-> req[c].pa, v |-> FALSE]]
  /\ Goto(c, "leafv")
  /\ UNCHANGED <<free, dir, ready, satp, vme_enable, seg, req, table, granted>>

\* *p_target_pte |= PTE_V, whatever prot says.
ValidLeaf(c) ==
  /\ pc[c] = "leafv"
  /\ pt' = [pt EXCEPT ![table[c]][Vpn0(req[c].va)] = Valid(@)]
  /\ granted' = [granted EXCEPT ![req[c].as][req[c].va] = req[c].prot]
  /\ Goto(c, "ret")
  /\ UNCHANGED <<free, dir, ready, satp, vme_enable, seg, req, table>>

\* map returns, into the loop of vme_init or to its caller.
Return(c) ==
  /\ pc[c] = "ret"
  /\ Goto(c, IF req[c].as = Kas THEN "init" ELSE "idle")
  /\ req' = [req EXCEPT ![c] = None] /\ table' = [table EXCEPT ![c] = None]
  /\ UNCHANGED <<pt, free, dir, ready, satp, vme_enable, seg, granted>>

MapStep(c) == \/ Walk(c) \/ Alloc(c) \/ WriteDir(c) \/ ValidDir(c)
              \/ WriteLeaf(c) \/ ValidLeaf(c) \/ Return(c)

Next ==
  \E c \in Callers :
    \/ VmeInit(c) \/ InitMap(c) \/ InitDone(c)
    \/ \E as \in Spaces : Protect(c, as)
    \/ Copy(c)
    \/ \E as \in Spaces, va \in MapVas, pa \in DataPages, prot \in Prots : Map(c, as, va, pa, prot)
    \/ MapStep(c)

Spec == Init /\ [][Next]_vars

-----------------------------------------------------------------------------
(* Properties.                                                               *)

\* Every variable has its type.
TypeOK ==
  /\ pt \in [Pool -> [Index -> Pte]]
  /\ free \subseteq Pool /\ ready \subseteq AllSpaces
  /\ dir \in [AllSpaces -> Pool \cup {None}]
  /\ satp \in Pool \cup {None} /\ vme_enable \in BOOLEAN
  /\ seg \in Nat
  /\ pc \in [Callers -> Steps]
  /\ req \in [Callers -> [as : AllSpaces, va : Vas \cup {None}, pa : Pmem \cup {None},
                          prot : Prots \cup {None}] \cup {None}]
  /\ table \in [Callers -> Pool \cup {None}]
  /\ granted \in [AllSpaces -> [Vas -> Prots \cup {None}]]

OwnGroups(as) == IF as = Kas THEN {Vpn1(k) : k \in Pmem} ELSE {Vpn1(u) : u \in UserSpace}

\* The entries of directories that hold a table of the space's own; the kernel's
\* tables are Kas's (protect shares them).
OwnEntries == {e \in AllSpaces \X DirIndex :
                 dir[e[1]] # None /\ e[2] \in OwnGroups(e[1]) /\ pt[dir[e[1]]][e[2]].v}

\* The pages in use as tables, each with its space and what it is there: the directory
\* (-1), the table of a group of pages, or that of a group once it has been entered.
Uses ==
  {<<dir[as], as, -1>> : as \in {x \in AllSpaces : dir[x] # None}}
  \cup {<<pt[dir[e[1]]][e[2]].ppn, e[1], e[2]>> : e \in OwnEntries}
  \cup {<<table[c], req[c].as, Vpn1(req[c].va)>> : c \in {x \in Callers : table[x] # None}}

\* No page is used as two tables and none is lost: every page pgalloc gave out has
\* exactly one use (vme.c:32-39, 51-61, 75-101).
TablesOwned ==
  /\ {u[1] : u \in Uses} = Pool \ free
  /\ \A u, v \in Uses : u[1] = v[1] => u = v

\* Once translation is on, the kernel's memory is mapped to itself in the space in
\* force and in every space a thread can be switched to, and stays so whatever is
\* mapped anywhere (vme.c:58-59): the trap path and the handler can run in all of them.
KernelMapped ==
  vme_enable =>
    /\ satp = dir[Kas]
    /\ \A as \in ready, k \in Pmem : MapQuery(as, k) = k

\* am.h:11 says of the flag MMAP_NONE: "no access".
NoneIsNoAccess ==
  \A as \in ready, va \in Vas : granted[as][va] = NoAccess => MapQuery(as, va) = None

-----------------------------------------------------------------------------
(* Refinement of AddressSpaces.                                              *)

transBar ==
  [as \in AllSpaces |-> [va \in Vas |-> IF dir[as] = None THEN None ELSE MapQuery(as, va)]]

wantBar ==
  [c \in Callers |->
    IF pc[c] \in Steps \ {"idle", "init", "copy"}
    THEN [as |-> req[c].as, va |-> req[c].va, pa |-> req[c].pa] ELSE None]

A == INSTANCE AddressSpaces WITH
       Spaces <- AllSpaces, Pas <- Pmem, trans <- transBar, made <- ready, want <- wantBar

\* Table accesses, shared tables and interleaved calls add up to maps from pages to
\* pages that change one page at a time, as asked.
AddressSpacesSpec == A!Spec
=============================================================================

------------------------------ MODULE VmeProofs ------------------------------
(***************************************************************************)
(* Theorems about Vme, for any size of tables, memory and user area, any   *)
(* number of address spaces and callers.                                   *)
(*                                                                         *)
(* What a step changes is one entry of one table, and the argument is      *)
(* always which other entries could be the same one: none, because every   *)
(* page in use has one use (Owned), and two calls are never on one space   *)
(* (Exclusive).                                                            *)
(***************************************************************************)
EXTENDS Vme, TLAPS

(* The inductive invariant.                                                  *)

\* map is at work, and once more with the table of the page known.
Mapping   == {"walk", "alloc", "dir", "dirv", "leaf", "leafv", "ret"}
WithTable == {"dir", "dirv", "leaf", "leafv", "ret"}

\* Where the page of a call is in the directory and in its table.
Group(c) == Vpn1(req[c].va)
Slot(c)  == Vpn0(req[c].va)

\* The three uses of a page; Uses is the set of <<p, as, i>> that have one.
Directory == -1
DirUse(p, as, i) ==
  as \in AllSpaces /\ dir[as] # None /\ p = dir[as] /\ i = Directory
EntryUse(p, as, i) ==
  /\ as \in AllSpaces /\ i \in DirIndex /\ dir[as] # None /\ i \in OwnGroups(as)
  /\ pt[dir[as]][i].v /\ p = pt[dir[as]][i].ppn
TableUse(p, as, i) ==
  \E c \in Callers : /\ table[c] # None /\ p = table[c]
                     /\ as = req[c].as /\ i = Group(c)
Use(p, as, i) == DirUse(p, as, i) \/ EntryUse(p, as, i) \/ TableUse(p, as, i)

\* TablesOwned, of triples.
Owned ==
  /\ \A p, as, i : Use(p, as, i) => p \in Pool /\ p \notin free
  /\ \A p \in Pool \ free : \E as, i : Use(p, as, i)
  /\ \A p, as, i, bs, j : Use(p, as, i) /\ Use(p, bs, j) => as = bs /\ i = j

\* The page a call is about: a page of memory, to itself, for vme_init before
\* translation is on; a user page after.
Asked(c) ==
  IF req[c].as = Kas
  THEN /\ c = Main /\ ~vme_enable
       /\ seg - 1 \in Pmem /\ req[c].va = seg - 1 /\ req[c].pa = seg - 1
  ELSE vme_enable /\ req[c].va \in UserSpace

\* What a call has at each point of it.
CallOK(c) ==
  /\ pc[c] \in {"idle", "init"} => req[c] = None
  /\ pc[c] \in WithTable <=> table[c] # None
  /\ pc[c] = "init" => c = Main /\ ~vme_enable /\ Kas \in ready
  /\ pc[c] = "copy" => /\ req[c] # None /\ vme_enable
                       /\ req[c].as \in Spaces /\ req[c].as \notin ready
                       /\ dir[req[c].as] # None
  /\ pc[c] \in Mapping => req[c] \in Request /\ req[c].as \in ready /\ Asked(c)

Calls == \A c \in Callers : CallOK(c)

\* No two calls are on one space.
Exclusive ==
  \A c, d \in Callers : req[c] # None /\ req[d] # None /\ req[c].as = req[d].as => c = d

\* Before translation is on, only Main does anything, and there is no space but Kas.
Boot ==
  /\ Lowest(Pmem) <= seg
  /\ IF vme_enable
     THEN Kas \in ready /\ satp = dir[Kas] /\ \A k \in Pmem : k < seg
     ELSE /\ \A c \in Callers \ {Main} : pc[c] = "idle"
          /\ \A as \in Spaces : dir[as] = None
          /\ Kas \notin ready => seg = Lowest(Pmem)

\* Tables that nothing has been put into are zeroed; a directory is zeroed until
\* protect has returned, and vme_init has no need to wait.
Fresh ==
  /\ \A p \in free : pt[p] = Zeroed
  /\ \A as \in AllSpaces : as \in ready => dir[as] # None
  /\ dir[Kas] # None => Kas \in ready
  /\ \A as \in AllSpaces : dir[as] # None /\ as \notin ready => pt[dir[as]] = Zeroed

\* The directories agree about the kernel's pages, and Kas has no others.
Shared ==
  Kas \in ready =>
    /\ \A as \in ready : \A i \in OwnGroups(Kas) : pt[dir[as]][i] = pt[dir[Kas]][i]
    /\ \A i \in DirIndex : i \notin OwnGroups(Kas) => ~pt[dir[Kas]][i].v

Leaf(c) == pt[table[c]][Slot(c)]

\* How far a call has come.
Progress ==
  \A c \in Callers :
    /\ pc[c] \in {"alloc", "dir"} => ~Pde(c).v
    /\ pc[c] \in {"dir", "dirv"} => pt[table[c]] = Zeroed
    /\ pc[c] = "dirv" => Pde(c) = [ppn |-> table[c], v |-> FALSE]
    /\ pc[c] \in {"leaf", "leafv", "ret"} => Pde(c) = [ppn |-> table[c], v |-> TRUE]
    /\ pc[c] = "leafv" => Leaf(c) = [ppn |-> req[c].pa, v |-> FALSE]
    /\ pc[c] = "ret" => Leaf(c) = [ppn |-> req[c].pa, v |-> TRUE]

\* The pages vme_init is through with are mapped to themselves.
BeingMapped(k) == \E c \in Callers : pc[c] \in Mapping /\ req[c].as = Kas /\ req[c].va = k
KernelDone ==
  \A k \in Pmem : k < seg /\ ~BeingMapped(k) =>
    LET pde == pt[dir[Kas]][Vpn1(k)]
    IN pde.v /\ pt[pde.ppn][Vpn0(k)] = [ppn |-> k, v |-> TRUE]

IInv ==
  /\ TypeOK /\ Owned /\ Calls /\ Exclusive /\ Boot
  /\ Fresh /\ Shared /\ Progress /\ KernelDone

-----------------------------------------------------------------------------
(* Constants.                                                                *)

\* Pages are natural numbers below the product of the sizes of a table and a directory.
LEMMA PagesBounded ==
  /\ Entries \in Nat /\ Entries > 0 /\ DirEntries \in Nat
  /\ \A va \in Vas : va \in Nat /\ va < Entries * DirEntries
<1> DEFINE N == Entries * DirEntries
<1>1. Entries \in Nat /\ Entries > 0 /\ DirEntries \in Nat /\ Vas \subseteq 0..(N - 1)
  BY MemoryAssumption DEF Vas
<1>2. N \in Nat
  BY <1>1
<1> HIDE DEF N
<1>3. \A va \in Vas : va \in Nat /\ va < N
  BY <1>1, <1>2
<1> QED
  BY <1>1, <1>3 DEF N

\* VPN_1 and VPN_0 are indexes of a directory and of a table, and together the page.
LEMMA PageSplit ==
  \A va \in Vas : /\ Vpn1(va) \in DirIndex /\ Vpn0(va) \in PageIndex
                  /\ va = Entries * Vpn1(va) + Vpn0(va)
<1> SUFFICES ASSUME NEW va \in Vas
             PROVE  /\ Vpn1(va) \in DirIndex /\ Vpn0(va) \in PageIndex
                    /\ va = Entries * Vpn1(va) + Vpn0(va)
  OBVIOUS
<1> DEFINE q == va \div Entries
           r == va % Entries
<1>1. va \in Nat /\ va < Entries * DirEntries
  BY PagesBounded
<1>2. q \in Nat /\ r \in 0..(Entries - 1) /\ va = Entries * q + r
  BY <1>1, PagesBounded
<1>3. q < DirEntries
  <2> SUFFICES ASSUME q >= DirEntries PROVE FALSE
    BY <1>2, PagesBounded
  <2> HIDE DEF q, r
  <2>1. \A m, a, b \in Nat : a >= b => m * a >= m * b
    OBVIOUS
  <2>2. Entries * q >= Entries * DirEntries
    BY <2>1, <1>2, PagesBounded
  <2>3. Entries * q \in Nat /\ Entries * DirEntries \in Nat
    BY <1>2, PagesBounded
  <2> QED BY <2>2, <2>3, <1>1, <1>2
<1> QED
  BY <1>2, <1>3, PagesBounded DEF Vpn1, Vpn0, DirIndex, PageIndex

\* Two pages with the same indexes are the same.
LEMMA SamePage ==
  \A a, b \in Vas : Vpn1(a) = Vpn1(b) /\ Vpn0(a) = Vpn0(b) => a = b
BY PageSplit

\* A page is in the groups of its own space; the kernel's groups hold no user page.
LEMMA Groups ==
  /\ \A k \in Pmem : Vpn1(k) \in OwnGroups(Kas)
  /\ \A as \in Spaces, u \in UserSpace : Vpn1(u) \in OwnGroups(as)
  /\ \A u \in UserSpace : Vpn1(u) \notin OwnGroups(Kas)
  /\ \A as \in Spaces : \A i \in OwnGroups(as) : i \notin OwnGroups(Kas)
  /\ \A as \in AllSpaces : \A i \in OwnGroups(as) : i \in DirIndex
<1>1. Kas \notin Spaces
  BY NamesAssumption
<1>2. \A u \in UserSpace, k \in Pmem : Vpn1(u) # Vpn1(k)
  BY MemoryAssumption DEF Vpn1
<1>3. \A va \in Pmem \cup UserSpace : Vpn1(va) \in DirIndex
  BY PageSplit DEF Vas
<1> QED
  BY <1>1, <1>2, <1>3 DEF OwnGroups

\* Memory runs from its lowest page to its highest without a gap.
LEMMA LowestOfMemory ==
  /\ Lowest(Pmem) \in Pmem /\ Pmem \subseteq Nat
  /\ \A k \in Pmem : Lowest(Pmem) <= k
  /\ \A n \in Nat : Lowest(Pmem) <= n /\ n \notin Pmem => \A k \in Pmem : k < n
<1>1. PICK first, last \in Pmem : Pmem = first..last
  BY MemoryAssumption
<1>2. Pmem \subseteq Nat
  BY PagesBounded DEF Vas
<1>3. first \in Pmem /\ \A q \in Pmem : first <= q
  BY <1>1, <1>2
<1>4. Lowest(Pmem) \in Pmem /\ \A q \in Pmem : Lowest(Pmem) <= q
  BY <1>3 DEF Lowest
<1>5. \A n \in Nat : Lowest(Pmem) <= n /\ n \notin Pmem => \A k \in Pmem : k < n
  BY <1>1, <1>2, <1>4
<1> QED
  BY <1>2, <1>4, <1>5

\* No request, page or space is None.
LEMMA NotNone ==
  /\ None \notin Pool /\ None \notin AllSpaces /\ None \notin Request
  /\ \A as \in AllSpaces, va \in Vas \cup {None}, pa \in Pmem \cup {None},
        prot \in Prots \cup {None} : [as |-> as, va |-> va, pa |-> pa, prot |-> prot] # None
<1> DEFINE Calling == [as : AllSpaces, va : Vas \cup {None}, pa : Pmem \cup {None},
                       prot : Prots \cup {None}]
<1>1. None \notin Pool /\ None \notin AllSpaces
  BY NamesAssumption, MemoryAssumption
<1>2. None \notin Calling
  BY NamesAssumption
<1>3. Request \subseteq Calling
  BY DEF Request
<1>4. \A as \in AllSpaces, va \in Vas \cup {None}, pa \in Pmem \cup {None},
        prot \in Prots \cup {None} : [as |-> as, va |-> va, pa |-> pa, prot |-> prot] \in Calling
  OBVIOUS
<1> HIDE DEF Calling
<1> QED
  BY <1>1, <1>2, <1>3, <1>4

-----------------------------------------------------------------------------
(* The uses of pages.                                                        *)

\* Owned is TablesOwned.
LEMMA OwnedOfTriples ==
  ASSUME Owned PROVE TablesOwned
<1>1. \A u \in Uses : u = <<u[1], u[2], u[3]>> /\ Use(u[1], u[2], u[3])
  BY DEF Uses, Use, DirUse, EntryUse, TableUse, OwnEntries, Directory, Group
<1>2. \A p, as, i : Use(p, as, i) => <<p, as, i>> \in Uses
  <2>1. \A p, as, i : DirUse(p, as, i) => <<p, as, i>> \in Uses
    BY DEF Uses, DirUse, Directory
  <2>2. ASSUME NEW p, NEW as, NEW i, EntryUse(p, as, i) PROVE <<p, as, i>> \in Uses
    <3>1. <<as, i>> \in OwnEntries /\ <<as, i>>[1] = as /\ <<as, i>>[2] = i
      BY <2>2 DEF EntryUse, OwnEntries
    <3> QED BY <2>2, <3>1 DEF EntryUse, Uses
  <2>3. \A p, as, i : TableUse(p, as, i) => <<p, as, i>> \in Uses
    BY DEF Uses, TableUse, Group
  <2> QED BY <2>1, <2>2, <2>3 DEF Use
<1>3. {u[1] : u \in Uses} \subseteq Pool \ free
  BY <1>1 DEF Owned
<1>4. ASSUME NEW p \in Pool \ free PROVE p \in {u[1] : u \in Uses}
  <2>1. PICK as, i : Use(p, as, i)
    BY DEF Owned
  <2>2. <<p, as, i>> \in Uses /\ <<p, as, i>>[1] = p
    BY <1>2, <2>1
  <2> QED BY <2>2
<1>5. ASSUME NEW u \in Uses, NEW v \in Uses, u[1] = v[1] PROVE u = v
  <2>1. /\ Use(u[1], u[2], u[3]) /\ u = <<u[1], u[2], u[3]>>
        /\ Use(u[1], v[2], v[3]) /\ v = <<u[1], v[2], v[3]>>
    BY <1>1, <1>5
  <2>2. u[2] = v[2] /\ u[3] = v[3]
    BY <2>1 DEF Owned
  <2> QED BY <2>1, <2>2
<1> QED
  BY <1>3, <1>4, <1>5 DEF TablesOwned

\* A step that changes no use changes nothing for Owned.
LEMMA UsesSame ==
  ASSUME Owned, free' = free, \A p, as, i : Use(p, as, i)' <=> Use(p, as, i)
  PROVE  Owned'
BY DEF Owned

\* Nor does one that puts a page to use just as it leaves the pool.
LEMMA UsesMore ==
  ASSUME Owned, NEW q \in free, free \subseteq Pool, free' = free \ {q}, NEW bs, NEW j,
         \A p, as, i : Use(p, as, i)' <=> Use(p, as, i) \/ (p = q /\ as = bs /\ i = j)
  PROVE  Owned'
<1>1. \A p, as, i : Use(p, as, i) => p # q
  BY DEF Owned
<1>2. \A p, as, i : Use(p, as, i)' => p \in Pool /\ p \notin free'
  BY DEF Owned
<1>3. ASSUME NEW p \in Pool \ free' PROVE \E as, i : Use(p, as, i)'
  <2>1. CASE p = q
    BY <2>1
  <2>2. CASE p # q
    <3>1. \E as, i : Use(p, as, i)
      BY <1>3, <2>2 DEF Owned
    <3> QED BY <3>1
  <2> QED BY <2>1, <2>2
<1>4. ASSUME NEW p, NEW as, NEW i, NEW cs, NEW k, Use(p, as, i)', Use(p, cs, k)'
      PROVE  as = cs /\ i = k
  BY <1>1, <1>4 DEF Owned
<1> QED
  BY <1>2, <1>3, <1>4 DEF Owned

\* The pages of two uses are two pages.
LEMMA Distinct ==
  ASSUME IInv
  PROVE  /\ \A as \in AllSpaces : dir[as] # None => dir[as] \in Pool /\ dir[as] \notin free
         /\ \A as, bs \in AllSpaces : dir[as] # None /\ dir[as] = dir[bs] => as = bs
         /\ \A c \in Callers : table[c] # None => table[c] \in Pool /\ table[c] \notin free
         /\ \A c \in Callers, as \in AllSpaces :
              table[c] # None /\ dir[as] # None => table[c] # dir[as]
         /\ \A c, d \in Callers : table[c] # None /\ table[c] = table[d] => c = d
         /\ \A p, as, i : EntryUse(p, as, i) =>
              /\ p \in Pool /\ p \notin free
              /\ \A bs \in AllSpaces : dir[bs] # None => p # dir[bs]
              /\ \A c \in Callers : table[c] # None /\ p = table[c]
                                      => as = req[c].as /\ i = Group(c)
<1>1. \A as \in AllSpaces : dir[as] # None => Use(dir[as], as, Directory)
  BY DEF DirUse, Use
<1>2. \A c \in Callers : table[c] # None =>
        /\ Use(table[c], req[c].as, Group(c))
        /\ req[c] # None /\ Group(c) \in DirIndex
  <2> SUFFICES ASSUME NEW c \in Callers, table[c] # None
               PROVE  /\ Use(table[c], req[c].as, Group(c))
                      /\ req[c] # None /\ Group(c) \in DirIndex
    OBVIOUS
  <2>1. req[c] \in Request
    BY DEF IInv, Calls, CallOK, WithTable, Mapping
  <2>2. req[c].va \in Vas
    BY <2>1 DEF Request
  <2> QED BY <2>1, <2>2, NotNone, PageSplit DEF TableUse, Use, Group
<1>3. /\ \A p, as, i : Use(p, as, i) => p \in Pool /\ p \notin free
      /\ \A p, as, i, bs, j : Use(p, as, i) /\ Use(p, bs, j) => as = bs /\ i = j
  BY DEF IInv, Owned
<1>4. Directory \notin DirIndex
  BY PagesBounded DEF DirIndex, Directory
<1>5. \A as, bs \in AllSpaces : dir[as] # None /\ dir[as] = dir[bs] => as = bs
  BY <1>1, <1>3
<1>6. \A c \in Callers, as \in AllSpaces :
        table[c] # None /\ dir[as] # None => table[c] # dir[as]
  <2> SUFFICES ASSUME NEW c \in Callers, NEW as \in AllSpaces, table[c] # None,
                      dir[as] # None, table[c] = dir[as]
               PROVE  FALSE
    OBVIOUS
  <2>1. Use(table[c], req[c].as, Group(c)) /\ Use(table[c], as, Directory)
    BY <1>1, <1>2
  <2>2. Group(c) = Directory
    BY <1>3, <2>1
  <2> QED BY <1>2, <1>4, <2>2
<1>7. ASSUME NEW c \in Callers, NEW d \in Callers, table[c] # None, table[c] = table[d]
      PROVE  c = d
  <2>1. req[c].as = req[d].as
    BY <1>2, <1>3, <1>7
  <2> QED BY <1>2, <1>7, <2>1 DEF IInv, Exclusive
<1>8. ASSUME NEW p, NEW as, NEW i, EntryUse(p, as, i)
      PROVE  /\ p \in Pool /\ p \notin free
             /\ \A bs \in AllSpaces : dir[bs] # None => p # dir[bs]
             /\ \A c \in Callers : table[c] # None /\ p = table[c]
                                     => as = req[c].as /\ i = Group(c)
  <2>1. Use(p, as, i) /\ i \in DirIndex
    BY <1>8 DEF Use, EntryUse
  <2>2. ASSUME NEW bs \in AllSpaces, dir[bs] # None, p = dir[bs] PROVE FALSE
    <3>1. Use(p, bs, Directory)
      BY <1>1, <2>2
    <3>2. i = Directory
      BY <1>3, <2>1, <3>1
    <3> QED BY <1>4, <2>1, <3>2
  <2>3. ASSUME NEW c \in Callers, table[c] # None, p = table[c]
        PROVE  as = req[c].as /\ i = Group(c)
    <3>1. Use(p, req[c].as, Group(c))
      BY <1>2, <2>3
    <3> QED BY <1>3, <2>1, <3>1
  <2> QED BY <1>3, <2>1, <2>2, <2>3
<1>9. \A as \in AllSpaces : dir[as] # None => dir[as] \in Pool /\ dir[as] \notin free
  BY <1>1, <1>3
<1>10. \A c \in Callers : table[c] # None => table[c] \in Pool /\ table[c] \notin free
  BY <1>2, <1>3
<1> QED
  BY <1>5, <1>6, <1>7, <1>8, <1>9, <1>10

\* What a call of map works with.
LEMMA CallFacts ==
  ASSUME IInv, NEW c \in Callers, pc[c] \in Mapping
  PROVE  /\ req[c] \in Request /\ req[c] # None
         /\ req[c].as \in AllSpaces /\ req[c].as \in ready
         /\ req[c].va \in Vas /\ req[c].pa \in Pmem /\ req[c].prot \in Prots
         /\ Dir(c) # None /\ Dir(c) \in Pool
         /\ Group(c) \in DirIndex /\ Group(c) \in Index
         /\ Slot(c) \in Index
         /\ Group(c) \in OwnGroups(req[c].as)
         /\ Pde(c) \in Pte
<1>1. req[c] \in Request /\ req[c].as \in ready /\ Asked(c)
  BY DEF IInv, Calls, CallOK
<1>2. /\ req[c].as \in AllSpaces /\ req[c].va \in Vas
      /\ req[c].pa \in Pmem /\ req[c].prot \in Prots /\ req[c] # None
  BY <1>1, NotNone DEF Request
<1>3. Dir(c) # None /\ Dir(c) \in Pool
  BY <1>1, <1>2 DEF IInv, Fresh, TypeOK, Dir
<1>4. /\ Group(c) \in DirIndex /\ Group(c) \in Index
      /\ Slot(c) \in Index
  BY <1>2, PageSplit DEF Index, Group, Slot
<1>5. Group(c) \in OwnGroups(req[c].as)
  BY <1>1, <1>2, Groups DEF Asked, AllSpaces, Group
<1>6. Pde(c) \in Pte
  BY <1>3, <1>4 DEF IInv, TypeOK, Pde, Group
<1> QED
  BY <1>1, <1>2, <1>3, <1>4, <1>5, <1>6

-----------------------------------------------------------------------------
(* Every action keeps the invariant.  First those of a call of map that write *)
(* no table.                                                                 *)

LEMMA WalkInv ==
  ASSUME IInv, NEW c \in Callers, Walk(c)
  PROVE  IInv'
<1>1. /\ pc[c] = "walk" /\ pc[c] \in Mapping
      /\ \/ HasTable(c) /\ table' = [table EXCEPT ![c] = Pde(c).ppn] /\ pc' = [pc EXCEPT ![c] = "leaf"]
         \/ ~HasTable(c) /\ pc' = [pc EXCEPT ![c] = "alloc"] /\ table' = table
      /\ pt' = pt /\ free' = free /\ dir' = dir /\ ready' = ready /\ satp' = satp
      /\ vme_enable' = vme_enable /\ seg' = seg /\ req' = req /\ granted' = granted
  BY DEF Walk, Goto, Mapping
<1>2. /\ TypeOK /\ Owned /\ Calls /\ Exclusive /\ Boot /\ Fresh /\ Shared /\ Progress /\ KernelDone
  BY DEF IInv
<1>3. /\ req[c] # None /\ req[c].as \in AllSpaces /\ Dir(c) # None
      /\ Group(c) \in DirIndex /\ Group(c) \in OwnGroups(req[c].as) /\ Pde(c) \in Pte
  BY <1>1, CallFacts
<1>4. table[c] = None
  BY <1>1, <1>2 DEF Calls, CallOK, WithTable
<1>5. HasTable(c) => EntryUse(Pde(c).ppn, req[c].as, Group(c))
  BY <1>3 DEF HasTable, EntryUse, Pde, Dir, Group
<1>6. HasTable(c) => Pde(c).ppn \in Pool /\ Pde(c).ppn # None
  BY <1>5, NotNone, Distinct
<1>7. TypeOK'
  BY <1>1, <1>2, <1>6 DEF TypeOK, Steps
<1>8. Owned'
  <2>1. \A p, as, i : /\ DirUse(p, as, i)' <=> DirUse(p, as, i)
                      /\ EntryUse(p, as, i)' <=> EntryUse(p, as, i)
    BY <1>1 DEF DirUse, EntryUse, OwnGroups
  <2>2. CASE ~HasTable(c)
    <3>1. \A p, as, i : TableUse(p, as, i)' <=> TableUse(p, as, i)
      BY <1>1, <2>2 DEF TableUse, Group
    <3> QED BY <1>1, <1>2, <2>1, <3>1, UsesSame DEF Use
  <2>3. CASE HasTable(c)
    <3>1. \A p, as, i : TableUse(p, as, i)' <=>
            TableUse(p, as, i) \/ (p = Pde(c).ppn /\ as = req[c].as /\ i = Group(c))
      <4>1. /\ table'[c] = Pde(c).ppn /\ table'[c] # None
            /\ \A d \in Callers \ {c} : table'[d] = table[d]
        BY <1>1, <1>2, <1>6, <2>3 DEF TypeOK
      <4> QED BY <1>1, <1>4, <4>1 DEF TableUse, Group
    <3>2. \A p, as, i : Use(p, as, i)' <=> Use(p, as, i)
      BY <1>5, <2>1, <2>3, <3>1 DEF Use
    <3> QED BY <1>1, <1>2, <3>2, UsesSame
  <2> QED BY <2>2, <2>3
<1>9. Calls' /\ Exclusive' /\ Boot'
  <2>1. ASSUME NEW d \in Callers PROVE CallOK(d)'
    BY <1>1, <1>2, <1>4, <1>6 DEF TypeOK, Calls, CallOK, Asked, WithTable, Mapping, Request
  <2>2. Calls'
    BY <2>1 DEF Calls
  <2> QED BY <1>1, <1>2, <2>2 DEF TypeOK, Exclusive, Boot
<1>10. Fresh' /\ Shared'
  BY <1>1, <1>2 DEF Fresh, Shared, OwnGroups
<1>11. Progress'
  <2>1. HasTable(c) => Pde(c) = [ppn |-> Pde(c).ppn, v |-> TRUE]
    BY <1>3 DEF HasTable, Pte
  <2>2. \A d \in Callers : Pde(d)' = Pde(d) /\ (d # c => pc'[d] = pc[d] /\ table'[d] = table[d])
    BY <1>1, <1>2 DEF TypeOK, Pde, Dir
  <2>3. \A d \in Callers : d # c => Leaf(d)' = Leaf(d)
    BY <1>1, <2>2 DEF Leaf, Slot
  <2>4. /\ pc'[c] = IF HasTable(c) THEN "leaf" ELSE "alloc"
        /\ HasTable(c) => table'[c] = Pde(c).ppn
    BY <1>1, <1>2 DEF TypeOK
  <2> QED BY <1>1, <1>2, <2>1, <2>2, <2>3, <2>4 DEF Progress, HasTable
<1>12. KernelDone'
  BY <1>1, <1>2 DEF TypeOK, KernelDone, BeingMapped, Mapping
<1> QED
  BY <1>7, <1>8, <1>9, <1>10, <1>11, <1>12 DEF IInv

LEMMA AllocInv ==
  ASSUME IInv, NEW c \in Callers, Alloc(c)
  PROVE  IInv'
<1>0. PICK q \in free : PgAlloc(q) /\ table' = [table EXCEPT ![c] = q]
  BY DEF Alloc
<1>1. /\ pc[c] = "alloc" /\ pc[c] \in Mapping /\ pc' = [pc EXCEPT ![c] = "dir"]
      /\ pt' = pt /\ free' = free \ {q} /\ dir' = dir /\ ready' = ready /\ satp' = satp
      /\ vme_enable' = vme_enable /\ seg' = seg /\ req' = req /\ granted' = granted
  BY <1>0 DEF Alloc, PgAlloc, Goto, Mapping
<1>2. /\ TypeOK /\ Owned /\ Calls /\ Exclusive /\ Boot /\ Fresh /\ Shared /\ Progress /\ KernelDone
  BY DEF IInv
<1>3. table[c] = None /\ q \in Pool /\ q # None /\ free \subseteq Pool
  BY <1>1, <1>2, NotNone DEF Calls, CallOK, WithTable, TypeOK
<1>4. /\ table'[c] = q /\ pc'[c] = "dir"
      /\ \A d \in Callers : d # c => pc'[d] = pc[d] /\ table'[d] = table[d]
  BY <1>0, <1>1, <1>2 DEF TypeOK
<1>5. TypeOK'
  BY <1>0, <1>1, <1>2, <1>3 DEF TypeOK, Steps
<1>6. Owned'
  <2>1. \A p, as, i : /\ DirUse(p, as, i)' <=> DirUse(p, as, i)
                      /\ EntryUse(p, as, i)' <=> EntryUse(p, as, i)
    BY <1>1 DEF DirUse, EntryUse, OwnGroups
  <2>2. \A p, as, i : TableUse(p, as, i)' <=>
          TableUse(p, as, i) \/ (p = q /\ as = req[c].as /\ i = Group(c))
    BY <1>1, <1>3, <1>4 DEF TableUse, Group
  <2>3. \A p, as, i : Use(p, as, i)' <=>
          Use(p, as, i) \/ (p = q /\ as = req[c].as /\ i = Group(c))
    BY <2>1, <2>2 DEF Use
  <2> QED BY <1>1, <1>2, <1>3, <2>3, UsesMore
<1>7. Calls' /\ Exclusive' /\ Boot'
  <2>1. ASSUME NEW d \in Callers PROVE CallOK(d)'
    BY <1>1, <1>2, <1>3, <1>4 DEF Calls, CallOK, Asked, WithTable, Mapping, Request
  <2>2. Calls'
    BY <2>1 DEF Calls
  <2> QED BY <1>1, <1>2, <1>4, <2>2 DEF Exclusive, Boot
<1>8. Fresh' /\ Shared'
  BY <1>1, <1>2 DEF Fresh, Shared, OwnGroups
<1>9. Progress'
  <2>1. \A d \in Callers : Pde(d)' = Pde(d) /\ (d # c => Leaf(d)' = Leaf(d))
    BY <1>1, <1>4 DEF Pde, Dir, Leaf, Slot
  <2>2. pt'[table'[c]] = Zeroed
    BY <1>1, <1>2, <1>4 DEF Fresh
  <2> QED BY <1>1, <1>2, <1>4, <2>1, <2>2 DEF Progress
<1>10. KernelDone'
  BY <1>1, <1>2, <1>4 DEF KernelDone, BeingMapped, Mapping
<1> QED
  BY <1>5, <1>6, <1>7, <1>8, <1>9, <1>10 DEF IInv

LEMMA ReturnInv ==
  ASSUME IInv, NEW c \in Callers, Return(c)
  PROVE  IInv'
<1>1. /\ pc[c] = "ret" /\ pc[c] \in Mapping
      /\ pc' = [pc EXCEPT ![c] = IF req[c].as = Kas THEN "init" ELSE "idle"]
      /\ req' = [req EXCEPT ![c] = None] /\ table' = [table EXCEPT ![c] = None]
      /\ pt' = pt /\ free' = free /\ dir' = dir /\ ready' = ready /\ satp' = satp
      /\ vme_enable' = vme_enable /\ seg' = seg /\ granted' = granted
  BY DEF Return, Goto, Mapping
<1>2. /\ TypeOK /\ Owned /\ Calls /\ Exclusive /\ Boot /\ Fresh /\ Shared /\ Progress /\ KernelDone
  BY DEF IInv
<1>3. /\ req[c] # None /\ req[c].as \in AllSpaces /\ req[c].as \in ready
      /\ req[c].va \in Vas /\ req[c].pa \in Pmem /\ Dir(c) # None
      /\ Group(c) \in DirIndex /\ Group(c) \in OwnGroups(req[c].as) /\ Pde(c) \in Pte
  BY <1>1, CallFacts
<1>4. /\ req'[c] = None /\ table'[c] = None
      /\ pc'[c] = IF req[c].as = Kas THEN "init" ELSE "idle"
      /\ \A d \in Callers : d # c => pc'[d] = pc[d] /\ table'[d] = table[d] /\ req'[d] = req[d]
  BY <1>1, <1>2 DEF TypeOK
<1>5. TypeOK'
  BY <1>1, <1>2 DEF TypeOK, Steps
<1>6. /\ table[c] # None /\ Pde(c) = [ppn |-> table[c], v |-> TRUE]
      /\ Leaf(c) = [ppn |-> req[c].pa, v |-> TRUE] /\ Asked(c)
  BY <1>1, <1>2 DEF Calls, CallOK, Progress, WithTable
<1>7. Owned'
  <2>1. \A p, as, i : /\ DirUse(p, as, i)' <=> DirUse(p, as, i)
                      /\ EntryUse(p, as, i)' <=> EntryUse(p, as, i)
    BY <1>1 DEF DirUse, EntryUse, OwnGroups
  <2>2. \A p, as, i : TableUse(p, as, i) <=>
          TableUse(p, as, i)' \/ (p = table[c] /\ as = req[c].as /\ i = Group(c))
    BY <1>4, <1>6 DEF TableUse, Group
  <2>3. EntryUse(table[c], req[c].as, Group(c))
    BY <1>3, <1>6 DEF EntryUse, Pde, Dir, Group
  <2>4. \A p, as, i : Use(p, as, i)' <=> Use(p, as, i)
    BY <2>1, <2>2, <2>3 DEF Use
  <2> QED BY <1>1, <1>2, <2>4, UsesSame
<1>8. Calls' /\ Exclusive' /\ Boot'
  <2>1. ASSUME NEW d \in Callers PROVE CallOK(d)'
    BY <1>1, <1>2, <1>3, <1>4, <1>6 DEF Calls, CallOK, Asked, WithTable, Mapping, Request
  <2>2. Calls'
    BY <2>1 DEF Calls
  <2>3. Boot'
    BY <1>1, <1>2, <1>3, <1>4, <1>6 DEF Boot
  <2> QED BY <1>1, <1>2, <1>4, <2>2, <2>3 DEF Exclusive
<1>9. Fresh' /\ Shared'
  BY <1>1, <1>2 DEF Fresh, Shared, OwnGroups
<1>10. Progress'
  <2>1. \A d \in Callers : d # c => Pde(d)' = Pde(d) /\ Leaf(d)' = Leaf(d)
    BY <1>1, <1>4 DEF Pde, Dir, Leaf, Slot
  <2> QED BY <1>1, <1>2, <1>4, <2>1 DEF Progress
<1>11. KernelDone'
  <2> SUFFICES ASSUME NEW k \in Pmem, k < seg, ~BeingMapped(k)'
               PROVE  LET pde == pt[dir[Kas]][Vpn1(k)]
                      IN pde.v /\ pt[pde.ppn][Vpn0(k)] = [ppn |-> k, v |-> TRUE]
    BY <1>1 DEF KernelDone
  <2>1. CASE req[c].as = Kas /\ req[c].va = k
    <3>1. req[c].pa = k
      BY <1>6, <2>1 DEF Asked
    <3> QED BY <1>6, <2>1, <3>1 DEF Pde, Dir, Leaf, Slot
  <2>2. CASE ~(req[c].as = Kas /\ req[c].va = k)
    <3>1. ~BeingMapped(k)
      BY <1>4, <2>2 DEF BeingMapped
    <3> QED BY <1>2, <3>1 DEF KernelDone
  <2> QED BY <2>1, <2>2
<1> QED
  BY <1>5, <1>7, <1>8, <1>9, <1>10, <1>11 DEF IInv

-----------------------------------------------------------------------------
(* The calls begin and vme_init ends.                                        *)

LEMMA InitMapInv ==
  ASSUME IInv, NEW c \in Callers, InitMap(c)
  PROVE  IInv'
<1>0. PICK prot \in Prots \ {NoAccess} :
        req' = [req EXCEPT ![c] = [as |-> Kas, va |-> seg, pa |-> seg, prot |-> prot]]
  BY DEF InitMap
<1>1. /\ pc[c] = "init" /\ seg \in Pmem /\ pc' = [pc EXCEPT ![c] = "walk"] /\ seg' = seg + 1
      /\ pt' = pt /\ free' = free /\ dir' = dir /\ ready' = ready /\ satp' = satp
      /\ vme_enable' = vme_enable /\ table' = table /\ granted' = granted
  BY DEF InitMap, More, Goto
<1>2. /\ TypeOK /\ Owned /\ Calls /\ Exclusive /\ Boot /\ Fresh /\ Shared /\ Progress /\ KernelDone
  BY DEF IInv
<1>3. c = Main /\ ~vme_enable /\ Kas \in ready /\ req[c] = None /\ table[c] = None
  BY <1>1, <1>2 DEF Calls, CallOK, WithTable
<1>4. /\ req'[c] = [as |-> Kas, va |-> seg, pa |-> seg, prot |-> prot] /\ pc'[c] = "walk"
      /\ \A d \in Callers : d # c => pc'[d] = pc[d] /\ req'[d] = req[d]
  BY <1>0, <1>1, <1>2 DEF TypeOK
<1>5. seg \in Nat /\ seg' \in Nat /\ seg' - 1 = seg /\ seg \in Vas
  <2>1. seg \in Nat
    BY <1>2 DEF TypeOK
  <2> QED BY <1>1, <2>1 DEF Vas
<1>6. req'[c] \in Request
  BY <1>1, <1>4, <1>5 DEF Request, AllSpaces
<1>7. req'[c] # None /\ \A d \in Callers : d # c => pc[d] = "idle" /\ req[d] = None
  BY <1>2, <1>3, <1>6, NotNone DEF Boot, Calls, CallOK
<1>8. TypeOK'
  <2>1. req' \in [Callers -> [as : AllSpaces, va : Vas \cup {None}, pa : Pmem \cup {None},
                              prot : Prots \cup {None}] \cup {None}]
    BY <1>0, <1>1, <1>2, <1>5 DEF TypeOK, AllSpaces
  <2> QED BY <1>1, <1>2, <1>5, <2>1 DEF TypeOK, Steps
<1>9. Owned'
  <2>1. \A p, as, i : /\ DirUse(p, as, i)' <=> DirUse(p, as, i)
                      /\ EntryUse(p, as, i)' <=> EntryUse(p, as, i)
    BY <1>1 DEF DirUse, EntryUse, OwnGroups
  <2>2. \A p, as, i : TableUse(p, as, i)' <=> TableUse(p, as, i)
    BY <1>1, <1>3, <1>4 DEF TableUse, Group
  <2> QED BY <1>1, <1>2, <2>1, <2>2, UsesSame DEF Use
<1>10. Calls' /\ Exclusive' /\ Boot'
  <2>1. ASSUME NEW d \in Callers PROVE CallOK(d)'
    BY <1>1, <1>2, <1>3, <1>4, <1>5, <1>6 DEF Calls, CallOK, Asked, WithTable, Mapping, Boot
  <2>2. Calls'
    BY <2>1 DEF Calls
  <2>3. Lowest(Pmem) <= seg'
    <3>1. Lowest(Pmem) <= seg /\ Lowest(Pmem) \in Nat
      BY <1>2, LowestOfMemory DEF Boot
    <3> QED BY <1>1, <1>5, <3>1
  <2>4. Boot'
    BY <1>1, <1>2, <1>3, <1>4, <2>3 DEF Boot
  <2>5. Exclusive'
    BY <1>4, <1>7 DEF Exclusive
  <2> QED BY <2>2, <2>4, <2>5
<1>11. Fresh' /\ Shared'
  BY <1>1, <1>2 DEF Fresh, Shared, OwnGroups
<1>12. Progress'
  <2>1. \A d \in Callers : d # c => Pde(d)' = Pde(d) /\ Leaf(d)' = Leaf(d)
    BY <1>1, <1>4 DEF Pde, Dir, Leaf, Slot
  <2> QED BY <1>1, <1>2, <1>4, <2>1 DEF Progress
<1>13. KernelDone'
  <2> SUFFICES ASSUME NEW k \in Pmem, k < seg', ~BeingMapped(k)'
               PROVE  LET pde == pt[dir[Kas]][Vpn1(k)]
                      IN pde.v /\ pt[pde.ppn][Vpn0(k)] = [ppn |-> k, v |-> TRUE]
    BY <1>1 DEF KernelDone
  <2>1. k # seg
    BY <1>4 DEF BeingMapped, Mapping
  <2>2. k < seg
    BY <1>1, <1>5, <2>1, LowestOfMemory
  <2>3. ~BeingMapped(k)
    BY <1>1, <1>7 DEF BeingMapped, Mapping
  <2> QED BY <1>2, <2>2, <2>3 DEF KernelDone
<1> QED
  BY <1>8, <1>9, <1>10, <1>11, <1>12, <1>13 DEF IInv

LEMMA InitDoneInv ==
  ASSUME IInv, NEW c \in Callers, InitDone(c)
  PROVE  IInv'
<1>1. /\ pc[c] = "init" /\ seg \notin Pmem /\ pc' = [pc EXCEPT ![c] = "idle"]
      /\ satp' = dir[Kas] /\ vme_enable' = TRUE
      /\ pt' = pt /\ free' = free /\ dir' = dir /\ ready' = ready /\ seg' = seg
      /\ req' = req /\ table' = table /\ granted' = granted
  BY DEF InitDone, More, Goto
<1>2. /\ TypeOK /\ Owned /\ Calls /\ Exclusive /\ Boot /\ Fresh /\ Shared /\ Progress /\ KernelDone
  BY DEF IInv
<1>3. c = Main /\ ~vme_enable /\ Kas \in ready /\ req[c] = None /\ table[c] = None
  BY <1>1, <1>2 DEF Calls, CallOK, WithTable
<1>4. \A d \in Callers : pc'[d] = "idle" /\ req[d] = None /\ (d # c => pc[d] = "idle")
  BY <1>1, <1>2, <1>3 DEF TypeOK, Boot, Calls, CallOK
<1>5. TypeOK'
  <2>1. dir[Kas] \in Pool \cup {None}
    BY <1>2 DEF TypeOK, AllSpaces
  <2> QED BY <1>1, <1>2, <2>1 DEF TypeOK, Steps
<1>6. Owned'
  <2>1. \A p, as, i : Use(p, as, i)' <=> Use(p, as, i)
    BY <1>1 DEF Use, DirUse, EntryUse, TableUse, OwnGroups, Group
  <2> QED BY <1>1, <1>2, <2>1, UsesSame
<1>7. Calls' /\ Exclusive' /\ Boot'
  <2>1. seg \in Nat /\ \A k \in Pmem : k < seg
    BY <1>1, <1>2, LowestOfMemory DEF Boot, TypeOK
  <2>2. Boot'
    BY <1>1, <1>2, <1>3, <2>1 DEF Boot
  <2>3. \A d \in Callers : table[d] = None
    BY <1>2, <1>3, <1>4 DEF Calls, CallOK, WithTable
  <2>4. Calls'
    BY <1>1, <1>4, <2>3 DEF Calls, CallOK, WithTable, Mapping
  <2> QED BY <1>1, <1>4, <2>2, <2>4 DEF Exclusive
<1>8. Fresh' /\ Shared'
  BY <1>1, <1>2 DEF Fresh, Shared, OwnGroups
<1>9. Progress'
  BY <1>4 DEF Progress
<1>10. KernelDone'
  <2>1. \A k : ~BeingMapped(k)
    BY <1>1, <1>4 DEF BeingMapped, Mapping
  <2> QED BY <1>1, <1>2, <2>1 DEF KernelDone
<1> QED
  BY <1>5, <1>6, <1>7, <1>8, <1>9, <1>10 DEF IInv

LEMMA MapInv ==
  ASSUME IInv, NEW c \in Callers, NEW bs \in Spaces, NEW va \in MapVas, NEW pa \in DataPages,
         NEW prot \in Prots, Map(c, bs, va, pa, prot)
  PROVE  IInv'
<1>0. req' = [req EXCEPT ![c] = [as |-> bs, va |-> va, pa |-> pa, prot |-> prot]]
  BY DEF Map
<1>1. /\ pc[c] = "idle" /\ bs \in ready /\ bs \notin Busy /\ pc' = [pc EXCEPT ![c] = "walk"]
      /\ pt' = pt /\ free' = free /\ dir' = dir /\ ready' = ready /\ satp' = satp
      /\ vme_enable' = vme_enable /\ seg' = seg /\ table' = table /\ granted' = granted
  BY DEF Map, Goto
<1>2. /\ TypeOK /\ Owned /\ Calls /\ Exclusive /\ Boot /\ Fresh /\ Shared /\ Progress /\ KernelDone
  BY DEF IInv
<1>3. req[c] = None /\ table[c] = None
  BY <1>1, <1>2 DEF Calls, CallOK, WithTable
<1>4. /\ pc'[c] = "walk"
      /\ \A d \in Callers : d # c => pc'[d] = pc[d] /\ req'[d] = req[d]
  BY <1>0, <1>1, <1>2 DEF TypeOK
<1>5. /\ va \in UserSpace /\ va \in Vas /\ pa \in Pmem /\ bs \in AllSpaces /\ bs # Kas
      /\ vme_enable
  <2>1. vme_enable
    BY <1>1, <1>2 DEF Boot, Fresh, AllSpaces
  <2> QED BY <2>1, MemoryAssumption, NamesAssumption DEF Vas, AllSpaces
<1>6. req'[c] \in Request /\ req'[c] # None /\ req'[c].as = bs /\ req'[c].va = va
  <2>1. [as |-> bs, va |-> va, pa |-> pa, prot |-> prot] \in Request
    BY <1>5 DEF Request
  <2>2. req'[c] = [as |-> bs, va |-> va, pa |-> pa, prot |-> prot]
    BY <1>0, <1>2 DEF TypeOK
  <2>3. req'[c] \in Request /\ req'[c] # None
    BY <2>1, <2>2, NotNone
  <2>4. req'[c].as = bs /\ req'[c].va = va
    BY <2>2
  <2> QED BY <2>3, <2>4
<1>7. TypeOK'
  <2>1. req' \in [Callers -> [as : AllSpaces, va : Vas \cup {None}, pa : Pmem \cup {None},
                              prot : Prots \cup {None}] \cup {None}]
    BY <1>0, <1>2, <1>5 DEF TypeOK
  <2> QED BY <1>1, <1>2, <2>1 DEF TypeOK, Steps
<1>8. Owned'
  <2>1. \A p, as, i : /\ DirUse(p, as, i)' <=> DirUse(p, as, i)
                      /\ EntryUse(p, as, i)' <=> EntryUse(p, as, i)
    BY <1>1 DEF DirUse, EntryUse, OwnGroups
  <2>2. \A p, as, i : TableUse(p, as, i)' <=> TableUse(p, as, i)
    BY <1>1, <1>3, <1>4 DEF TableUse, Group
  <2> QED BY <1>1, <1>2, <2>1, <2>2, UsesSame DEF Use
<1>9. Calls' /\ Exclusive' /\ Boot'
  <2>1. ASSUME NEW d \in Callers PROVE CallOK(d)'
    BY <1>1, <1>2, <1>3, <1>4, <1>5, <1>6 DEF Calls, CallOK, Asked, WithTable, Mapping
  <2>2. Calls'
    BY <2>1 DEF Calls
  <2>3. Boot'
    BY <1>1, <1>2, <1>5 DEF Boot
  <2>4. \A d \in Callers : req[d] # None => req[d].as # bs
    BY <1>1 DEF Busy
  <2>5. Exclusive'
    BY <1>2, <1>4, <1>6, <2>4 DEF Exclusive
  <2> QED BY <2>2, <2>3, <2>5
<1>10. Fresh' /\ Shared'
  BY <1>1, <1>2 DEF Fresh, Shared, OwnGroups
<1>11. Progress'
  <2>1. \A d \in Callers : d # c => Pde(d)' = Pde(d) /\ Leaf(d)' = Leaf(d)
    BY <1>1, <1>4 DEF Pde, Dir, Leaf, Slot
  <2> QED BY <1>1, <1>2, <1>4, <2>1 DEF Progress
<1>12. KernelDone'
  <2>1. \A k \in Pmem : BeingMapped(k)' <=> BeingMapped(k)
    BY <1>1, <1>4, <1>5, <1>6 DEF BeingMapped, Mapping
  <2> QED BY <1>1, <1>2, <2>1 DEF KernelDone
<1> QED
  BY <1>7, <1>8, <1>9, <1>10, <1>11, <1>12 DEF IInv

LEMMA VmeInitInv ==
  ASSUME IInv, NEW c \in Callers, VmeInit(c)
  PROVE  IInv'
<1>0. PICK q \in free : PgAlloc(q) /\ dir' = [dir EXCEPT ![Kas] = q]
  BY DEF VmeInit
<1>1. /\ c = Main /\ pc[c] = "idle" /\ dir[Kas] = None /\ pc' = [pc EXCEPT ![c] = "init"]
      /\ ready' = ready \cup {Kas} /\ free' = free \ {q}
      /\ pt' = pt /\ satp' = satp /\ vme_enable' = vme_enable /\ seg' = seg
      /\ req' = req /\ table' = table /\ granted' = granted
  BY <1>0 DEF VmeInit, PgAlloc, Goto
<1>2. /\ TypeOK /\ Owned /\ Calls /\ Exclusive /\ Boot /\ Fresh /\ Shared /\ Progress /\ KernelDone
  BY DEF IInv
<1>3. /\ Kas \notin ready /\ ~vme_enable /\ seg = Lowest(Pmem)
      /\ \A as \in AllSpaces : dir[as] = None
  BY <1>1, <1>2 DEF Boot, Fresh, AllSpaces
<1>4. ready = {}
  BY <1>2, <1>3 DEF Fresh, TypeOK
<1>5. /\ q \in Pool /\ q # None /\ free \subseteq Pool /\ pt[q] = Zeroed
  BY <1>2, NotNone DEF TypeOK, Fresh
<1>6. /\ dir'[Kas] = q /\ pc'[c] = "init"
      /\ \A as \in AllSpaces : as # Kas => dir'[as] = None
      /\ \A d \in Callers : req[d] = None /\ table[d] = None
      /\ \A d \in Callers : d # c => pc'[d] = "idle"
  <2>1. /\ dir'[Kas] = q /\ \A as \in AllSpaces : as # Kas => dir'[as] = None
    BY <1>0, <1>2, <1>3 DEF TypeOK, AllSpaces
  <2>2. \A d \in Callers : pc[d] = "idle"
    BY <1>1, <1>2, <1>3 DEF Boot
  <2>3. pc'[c] = "init" /\ \A d \in Callers : d # c => pc'[d] = "idle"
    BY <1>1, <1>2, <2>2 DEF TypeOK
  <2> QED BY <1>2, <2>1, <2>2, <2>3 DEF Calls, CallOK, WithTable
<1>7. TypeOK'
  <2>1. dir' \in [AllSpaces -> Pool \cup {None}]
    BY <1>0, <1>2, <1>5 DEF TypeOK
  <2> QED BY <1>1, <1>2, <2>1 DEF TypeOK, Steps, AllSpaces
<1>8. \A i \in DirIndex : ~pt[q][i].v
  BY <1>5 DEF Zeroed, Index
<1>9. Owned'
  <2>1. \A p, as, i : ~DirUse(p, as, i) /\ ~EntryUse(p, as, i) /\ ~TableUse(p, as, i)
    BY <1>3, <1>6 DEF DirUse, EntryUse, TableUse
  <2>2. \A p, as, i : DirUse(p, as, i)' <=> p = q /\ as = Kas /\ i = Directory
    BY <1>5, <1>6 DEF DirUse, AllSpaces
  <2>3. \A p, as, i : ~EntryUse(p, as, i)'
    BY <1>1, <1>6, <1>8 DEF EntryUse
  <2>4. \A p, as, i : ~TableUse(p, as, i)'
    BY <1>1, <1>6 DEF TableUse
  <2>5. \A p, as, i : Use(p, as, i)' <=> Use(p, as, i) \/ (p = q /\ as = Kas /\ i = Directory)
    BY <2>1, <2>2, <2>3, <2>4 DEF Use
  <2> QED BY <1>1, <1>2, <1>5, <2>5, UsesMore
<1>10. Calls' /\ Exclusive' /\ Boot'
  <2>1. Calls'
    BY <1>1, <1>3, <1>6 DEF Calls, CallOK, WithTable, Mapping
  <2>2. Boot'
    <3>1. \A as \in Spaces : dir'[as] = None
      BY <1>6, NamesAssumption DEF AllSpaces
    <3>2. \A d \in Callers \ {Main} : pc'[d] = "idle"
      BY <1>1, <1>6
    <3> QED BY <1>1, <1>2, <1>3, <3>1, <3>2 DEF Boot
  <2> QED BY <1>1, <1>6, <2>1, <2>2 DEF Exclusive
<1>11. Fresh'
  <2>1. \A p \in free' : pt'[p] = Zeroed
    BY <1>1, <1>2 DEF Fresh
  <2>2. \A as \in AllSpaces : as \in ready' <=> dir'[as] # None
    BY <1>1, <1>4, <1>5, <1>6 DEF AllSpaces
  <2> QED BY <2>1, <2>2 DEF Fresh, AllSpaces
<1>12. Shared'
  BY <1>1, <1>4, <1>6, <1>8 DEF Shared
<1>13. Progress'
  BY <1>6 DEF Progress
<1>14. KernelDone'
  <2>1. ASSUME NEW k \in Pmem PROVE ~(k < seg)
    <3>1. seg \in Nat /\ k \in Nat /\ seg <= k
      BY <1>3, LowestOfMemory
    <3> QED BY <3>1
  <2> QED BY <1>1, <2>1 DEF KernelDone
<1> QED
  BY <1>7, <1>9, <1>10, <1>11, <1>12, <1>13, <1>14 DEF IInv

LEMMA ProtectInv ==
  ASSUME IInv, NEW c \in Callers, NEW bs \in Spaces, Protect(c, bs)
  PROVE  IInv'
<1>0. PICK q \in free : PgAlloc(q) /\ dir' = [dir EXCEPT ![bs] = q]
  BY DEF Protect
<1>1. /\ pc[c] = "idle" /\ vme_enable /\ dir[bs] = None /\ pc' = [pc EXCEPT ![c] = "copy"]
      /\ ready' = ready /\ free' = free \ {q}
      /\ pt' = pt /\ satp' = satp /\ vme_enable' = vme_enable /\ seg' = seg
      /\ table' = table /\ granted' = granted
  BY <1>0 DEF Protect, PgAlloc, Goto
<1>2. /\ TypeOK /\ Owned /\ Calls /\ Exclusive /\ Boot /\ Fresh /\ Shared /\ Progress /\ KernelDone
  BY DEF IInv
<1>3. bs \in AllSpaces /\ bs # Kas /\ bs \notin ready /\ req[c] = None /\ table[c] = None
  BY <1>1, <1>2, NamesAssumption DEF Fresh, AllSpaces, Calls, CallOK, WithTable
<1>4. req'[c] # None /\ req'[c].as = bs /\ \A d \in Callers : d # c => req'[d] = req[d]
  <2>1. req' = [req EXCEPT ![c] = [as |-> bs, va |-> None, pa |-> None, prot |-> None]]
    BY DEF Protect
  <2>2. /\ req'[c] = [as |-> bs, va |-> None, pa |-> None, prot |-> None]
        /\ \A d \in Callers : d # c => req'[d] = req[d]
    BY <1>2, <2>1 DEF TypeOK
  <2>3. req'[c] # None
    BY <1>3, <2>2, NotNone
  <2> QED BY <2>2, <2>3
<1>5. /\ q \in Pool /\ q # None /\ free \subseteq Pool /\ pt[q] = Zeroed
  BY <1>2, NotNone DEF TypeOK, Fresh
<1>6. /\ dir'[bs] = q /\ \A as \in AllSpaces : as # bs => dir'[as] = dir[as]
      /\ pc'[c] = "copy" /\ \A d \in Callers : d # c => pc'[d] = pc[d]
  BY <1>0, <1>1, <1>2, <1>3 DEF TypeOK
<1>7. \A d \in Callers : req[d] # None => req[d].as \in AllSpaces /\ req[d].as # bs
  <2>1. \A d \in Callers : req[d] # None => pc[d] = "copy" \/ pc[d] \in Mapping
    BY <1>2 DEF Calls, CallOK, TypeOK, Steps, Mapping
  <2>2. \A d \in Callers : req[d] # None => req[d].as \in AllSpaces
    BY <1>2, <2>1 DEF Calls, CallOK, Request, AllSpaces
  <2> QED BY <1>1, <1>2, <1>3, <2>1, <2>2 DEF Calls, CallOK
<1>8. TypeOK'
  <2>1. dir' \in [AllSpaces -> Pool \cup {None}]
    BY <1>0, <1>2, <1>5 DEF TypeOK
  <2>2. req' \in [Callers -> [as : AllSpaces, va : Vas \cup {None}, pa : Pmem \cup {None},
                              prot : Prots \cup {None}] \cup {None}]
    BY <1>2, <1>3 DEF TypeOK, Protect
  <2> QED BY <1>1, <1>2, <2>1, <2>2 DEF TypeOK, Steps
<1>9. \A i \in DirIndex : ~pt[q][i].v
  BY <1>5 DEF Zeroed, Index
<1>10. Owned'
  <2>1. \A p, as, i : DirUse(p, as, i)' <=>
          DirUse(p, as, i) \/ (p = q /\ as = bs /\ i = Directory)
    BY <1>1, <1>3, <1>5, <1>6 DEF DirUse
  <2>2. \A p, as, i : EntryUse(p, as, i)' <=> EntryUse(p, as, i)
    BY <1>1, <1>3, <1>6, <1>9 DEF EntryUse, OwnGroups
  <2>3. \A p, as, i : TableUse(p, as, i)' <=> TableUse(p, as, i)
    BY <1>1, <1>3, <1>4 DEF TableUse, Group
  <2>4. \A p, as, i : Use(p, as, i)' <=> Use(p, as, i) \/ (p = q /\ as = bs /\ i = Directory)
    BY <2>1, <2>2, <2>3 DEF Use
  <2> QED BY <1>1, <1>2, <1>5, <2>4, UsesMore
<1>11. Calls' /\ Exclusive' /\ Boot'
  <2>1. ASSUME NEW d \in Callers, d # c PROVE CallOK(d)'
    <3>1. req'[d] = req[d] /\ pc'[d] = pc[d]
      BY <1>4, <1>6, <2>1
    <3>2. req[d] # None => dir'[req[d].as] = dir[req[d].as]
      BY <1>6, <1>7
    <3> QED BY <1>1, <1>2, <3>1, <3>2 DEF Calls, CallOK, Asked
  <2>2. CallOK(c)'
    BY <1>1, <1>3, <1>4, <1>5, <1>6 DEF CallOK, WithTable, Mapping
  <2>3. Boot'
    BY <1>1, <1>2, <1>3, <1>6 DEF Boot, AllSpaces
  <2>4. Exclusive'
    BY <1>2, <1>4, <1>7 DEF Exclusive
  <2> QED BY <2>1, <2>2, <2>3, <2>4 DEF Calls
<1>12. Fresh'
  <2>1. \A p \in free' : pt'[p] = Zeroed
    BY <1>1, <1>2 DEF Fresh
  <2>2. Kas \in AllSpaces
    BY DEF AllSpaces
  <2> QED BY <1>1, <1>2, <1>3, <1>5, <1>6, <2>1, <2>2 DEF Fresh
<1>13. Shared'
  <2>1. \A as \in ready : dir'[as] = dir[as]
    BY <1>2, <1>3, <1>6 DEF TypeOK
  <2> QED BY <1>1, <1>2, <2>1 DEF Shared, OwnGroups
<1>14. Progress'
  <2>1. ASSUME NEW d \in Callers, pc'[d] \in Mapping
        PROVE  /\ pc'[d] = pc[d] /\ req'[d] = req[d]
               /\ Pde(d)' = Pde(d) /\ Leaf(d)' = Leaf(d)
    <3>1. d # c /\ pc[d] \in Mapping
      BY <1>6, <2>1 DEF Mapping
    <3>2. req[d] # None
      BY <3>1, CallFacts
    <3>3. req'[d] = req[d] /\ dir'[req[d].as] = dir[req[d].as]
      BY <1>4, <1>6, <1>7, <3>1, <3>2
    <3>4. Dir(d)' = Dir(d) /\ Pde(d)' = Pde(d)
      BY <1>1, <3>3 DEF Dir, Pde
    <3>5. Leaf(d)' = Leaf(d)
      BY <1>1, <3>3 DEF Leaf, Slot
    <3>6. pc'[d] = pc[d]
      BY <1>6, <3>1
    <3> QED BY <3>3, <3>4, <3>5, <3>6
  <2> QED BY <1>1, <1>2, <2>1 DEF Progress, Mapping
<1>15. KernelDone'
  <2>1. \A k \in Pmem : BeingMapped(k)' <=> BeingMapped(k)
    BY <1>1, <1>3, <1>4, <1>6 DEF BeingMapped, Mapping
  <2>2. dir'[Kas] = dir[Kas]
    BY <1>3, <1>6 DEF AllSpaces
  <2> QED BY <1>1, <1>2, <2>1, <2>2 DEF KernelDone
<1> QED
  BY <1>8, <1>10, <1>11, <1>12, <1>13, <1>14, <1>15 DEF IInv

-----------------------------------------------------------------------------
(* The writes.                                                               *)

LEMMA CopyInv ==
  ASSUME IInv, NEW c \in Callers, Copy(c)
  PROVE  IInv'
<1> DEFINE bs == req[c].as
<1>0. pt' = [pt EXCEPT ![dir[bs]] = pt[dir[Kas]]] /\ req' = [req EXCEPT ![c] = None]
  BY DEF Copy, Copied
<1>1. /\ pc[c] = "copy" /\ pc' = [pc EXCEPT ![c] = "idle"] /\ ready' = ready \cup {bs}
      /\ free' = free /\ dir' = dir /\ satp' = satp /\ vme_enable' = vme_enable /\ seg' = seg
      /\ table' = table /\ granted' = granted
  BY DEF Copy, Goto
<1>2. /\ TypeOK /\ Owned /\ Calls /\ Exclusive /\ Boot /\ Fresh /\ Shared /\ Progress /\ KernelDone
  BY DEF IInv
<1>3. /\ req[c] # None /\ vme_enable /\ bs \in Spaces /\ bs \in AllSpaces /\ bs \notin ready
      /\ dir[bs] # None /\ dir[bs] \in Pool /\ table[c] = None
  BY <1>1, <1>2, Distinct DEF Calls, CallOK, WithTable, AllSpaces
<1>4. /\ Kas \in ready /\ Kas \in AllSpaces /\ dir[Kas] # None /\ dir[Kas] \in Pool
      /\ bs # Kas /\ dir[Kas] # dir[bs] /\ pt[dir[bs]] = Zeroed
  BY <1>2, <1>3, Distinct DEF Boot, Fresh, AllSpaces
<1>5. /\ req'[c] = None /\ pc'[c] = "idle"
      /\ \A d \in Callers : d # c => req'[d] = req[d] /\ pc'[d] = pc[d]
  BY <1>0, <1>1, <1>2 DEF TypeOK
<1>6. /\ pt'[dir[bs]] = pt[dir[Kas]]
      /\ \A p \in Pool : p # dir[bs] => pt'[p] = pt[p]
  BY <1>0, <1>2, <1>3 DEF TypeOK
<1>7. \A as \in AllSpaces : dir[as] # None /\ as # bs => pt'[dir[as]] = pt[dir[as]]
  BY <1>3, <1>6, Distinct
<1>8. TypeOK'
  <2>1. pt' \in [Pool -> [Index -> Pte]]
    BY <1>0, <1>2, <1>4 DEF TypeOK
  <2>2. req' \in [Callers -> [as : AllSpaces, va : Vas \cup {None}, pa : Pmem \cup {None},
                              prot : Prots \cup {None}] \cup {None}]
    BY <1>0, <1>2 DEF TypeOK
  <2> QED BY <1>1, <1>2, <1>3, <2>1, <2>2 DEF TypeOK, Steps
<1>9. Owned'
  <2>1. \A p, as, i : DirUse(p, as, i)' <=> DirUse(p, as, i)
    BY <1>1 DEF DirUse
  <2>2. ASSUME NEW i \in DirIndex, i \in OwnGroups(bs)
        PROVE  ~pt[dir[bs]][i].v /\ ~pt'[dir[bs]][i].v
    <3>1. i \notin OwnGroups(Kas)
      BY <1>3, <2>2, Groups
    <3>2. ~pt[dir[Kas]][i].v
      BY <1>2, <1>4, <3>1 DEF Shared
    <3> QED BY <1>4, <1>6, <3>2 DEF Zeroed, Index
  <2>3. \A p, as, i : EntryUse(p, as, i)' <=> EntryUse(p, as, i)
    BY <1>1, <1>7, <2>2 DEF EntryUse, OwnGroups
  <2>4. \A p, as, i : TableUse(p, as, i)' <=> TableUse(p, as, i)
    BY <1>1, <1>3, <1>5 DEF TableUse, Group
  <2> QED BY <1>1, <1>2, <2>1, <2>3, <2>4, UsesSame DEF Use
<1>10. Calls' /\ Exclusive' /\ Boot'
  <2>1. ASSUME NEW d \in Callers, d # c PROVE CallOK(d)'
    <3>1. req[d] # None => req[d].as # bs
      BY <1>2, <1>3, <2>1 DEF Exclusive
    <3> QED BY <1>1, <1>2, <1>5, <2>1, <3>1 DEF Calls, CallOK, Asked
  <2>2. CallOK(c)'
    BY <1>1, <1>3, <1>5 DEF CallOK, WithTable, Mapping
  <2>3. Exclusive'
    BY <1>2, <1>5 DEF Exclusive
  <2> QED BY <1>1, <1>2, <1>3, <2>1, <2>2, <2>3 DEF Calls, Boot
<1>11. Fresh'
  <2>1. \A p \in free : p # dir[bs] /\ p \in Pool
    BY <1>2, <1>3, Distinct DEF TypeOK
  <2> QED BY <1>1, <1>2, <1>3, <1>4, <1>6, <1>7, <2>1 DEF Fresh
<1>12. Shared'
  <2>1. \A as \in ready : as \in AllSpaces /\ as # bs /\ dir[as] # None
    BY <1>2, <1>3 DEF TypeOK, Fresh
  <2>2. pt'[dir[Kas]] = pt[dir[Kas]] /\ \A as \in ready : pt'[dir[as]] = pt[dir[as]]
    BY <1>4, <1>7, <2>1
  <2> QED BY <1>1, <1>2, <1>4, <1>6, <2>2 DEF Shared, OwnGroups
<1>13. Progress'
  <2>1. ASSUME NEW d \in Callers, pc'[d] \in Mapping
        PROVE  /\ pc'[d] = pc[d] /\ req'[d] = req[d]
               /\ Pde(d)' = Pde(d)
               /\ table[d] # None => pt'[table[d]] = pt[table[d]] /\ Leaf(d)' = Leaf(d)
    <3>1. d # c /\ pc[d] \in Mapping /\ req'[d] = req[d]
      BY <1>5, <2>1 DEF Mapping
    <3>2. req[d].as \in AllSpaces /\ req[d].as # bs /\ dir[req[d].as] # None
      BY <1>3, <3>1, CallFacts DEF Dir
    <3>3. Pde(d)' = Pde(d)
      BY <1>1, <1>7, <3>1, <3>2 DEF Pde, Dir
    <3>4. table[d] # None => pt'[table[d]] = pt[table[d]]
      BY <1>3, <1>6, Distinct
    <3> QED BY <1>1, <1>5, <3>1, <3>3, <3>4 DEF Leaf, Slot
  <2>2. \A d \in Callers : pc'[d] \in WithTable => table[d] # None /\ table'[d] = table[d]
    BY <1>1, <1>2, <1>5 DEF Calls, CallOK, WithTable
  <2> QED BY <1>2, <2>1, <2>2 DEF Progress, Mapping, WithTable
<1>14. KernelDone'
  <2> SUFFICES ASSUME NEW k \in Pmem, k < seg, ~BeingMapped(k)'
               PROVE  LET pde == pt'[dir[Kas]][Vpn1(k)]
                      IN pde.v /\ pt'[pde.ppn][Vpn0(k)] = [ppn |-> k, v |-> TRUE]
    BY <1>1 DEF KernelDone
  <2> DEFINE pde == pt[dir[Kas]][Vpn1(k)]
  <2>1. ~BeingMapped(k)
    BY <1>1, <1>5 DEF BeingMapped, Mapping
  <2>2. pde.v /\ pt[pde.ppn][Vpn0(k)] = [ppn |-> k, v |-> TRUE]
    BY <1>2, <2>1 DEF KernelDone
  <2>3. Vpn1(k) \in OwnGroups(Kas) /\ Vpn1(k) \in DirIndex
    BY Groups, <1>4
  <2>4. EntryUse(pde.ppn, Kas, Vpn1(k))
    BY <1>4, <2>2, <2>3 DEF EntryUse
  <2>5. pt'[pde.ppn] = pt[pde.ppn]
    BY <1>3, <1>6, <2>4, Distinct
  <2> QED BY <1>4, <1>7, <2>2, <2>5
<1> QED
  BY <1>8, <1>9, <1>10, <1>11, <1>12, <1>13, <1>14 DEF IInv

\* What map writes is an entry.
LEMMA EntryParts ==
  ASSUME NEW e, NEW p \in Pmem, e = [ppn |-> p, v |-> FALSE] \/ e = [ppn |-> p, v |-> TRUE]
  PROVE  e.ppn = p /\ e \in Pte
<1>1. [ppn |-> p, v |-> FALSE] \in Pte /\ [ppn |-> p, v |-> TRUE] \in Pte
  BY DEF Pte
<1>2. e.ppn = p
  OBVIOUS
<1> QED
  BY <1>1, <1>2

\* A write to the entry of the page's group in the directory of the call: the page
\* number first, the valid bit second.
LEMMA DirWriteInv ==
  ASSUME IInv, NEW c \in Callers, NEW e,
         \/ pc[c] = "dir" /\ e = [ppn |-> table[c], v |-> FALSE] /\ pc' = [pc EXCEPT ![c] = "dirv"]
         \/ pc[c] = "dirv" /\ e = [ppn |-> table[c], v |-> TRUE] /\ pc' = [pc EXCEPT ![c] = "leaf"],
         pt' = [pt EXCEPT ![Dir(c)][Group(c)] = e],
         UNCHANGED <<free, dir, ready, satp, vme_enable, seg, req, table, granted>>
  PROVE  IInv'
<1> DEFINE bs == req[c].as
<1>1. /\ pc[c] \in Mapping /\ pc[c] \in WithTable /\ pc[c] \in {"dir", "dirv"}
      /\ free' = free /\ dir' = dir /\ ready' = ready /\ satp' = satp /\ vme_enable' = vme_enable
      /\ seg' = seg /\ req' = req /\ table' = table /\ granted' = granted
  BY DEF Mapping, WithTable
<1>2. /\ TypeOK /\ Owned /\ Calls /\ Exclusive /\ Boot /\ Fresh /\ Shared /\ Progress /\ KernelDone
  BY DEF IInv
<1>3. /\ req[c] # None /\ bs \in AllSpaces /\ bs \in ready /\ Dir(c) = dir[bs]
      /\ dir[bs] # None /\ dir[bs] \in Pool
      /\ Group(c) \in DirIndex /\ Group(c) \in Index /\ Group(c) \in OwnGroups(bs)
  BY <1>1, CallFacts DEF Dir
<1>4. table[c] # None /\ table[c] \in Pool /\ ~pt[dir[bs]][Group(c)].v /\ pt[table[c]] = Zeroed
  <2>1. table[c] # None /\ table[c] \in Pool
    BY <1>1, <1>2, Distinct DEF Calls, CallOK
  <2>2. ~Pde(c).v /\ pt[table[c]] = Zeroed
    BY <1>1, <1>2 DEF Progress
  <2> QED BY <1>3, <2>1, <2>2 DEF Pde, Group
<1>5. e.ppn = table[c] /\ e \in Pte
  BY <1>4, MemoryAssumption, EntryParts
<1>6. \A d \in Callers : d # c => pc'[d] = pc[d]
  BY <1>2 DEF TypeOK
<1>7. /\ pt'[dir[bs]][Group(c)] = e
      /\ \A i \in Index : i # Group(c) => pt'[dir[bs]][i] = pt[dir[bs]][i]
      /\ \A p \in Pool : p # dir[bs] => pt'[p] = pt[p]
  BY <1>2, <1>3 DEF TypeOK
<1>8. /\ \A as \in AllSpaces : dir[as] # None /\ as # bs => pt'[dir[as]] = pt[dir[as]]
      /\ \A d \in Callers : table[d] # None => pt'[table[d]] = pt[table[d]]
  BY <1>3, <1>7, Distinct
<1>9. TypeOK'
  <2>1. pt' \in [Pool -> [Index -> Pte]]
    BY <1>2, <1>3, <1>5 DEF TypeOK
  <2> QED BY <1>1, <1>2, <2>1 DEF TypeOK, Steps
<1>10. Owned'
  <2>1. \A p, as, i : /\ DirUse(p, as, i)' <=> DirUse(p, as, i)
                      /\ TableUse(p, as, i)' <=> TableUse(p, as, i)
    BY <1>1 DEF DirUse, TableUse, Group
  <2>2. TableUse(table[c], bs, Group(c))
    BY <1>4 DEF TableUse
  <2>3. \A p, as, i : EntryUse(p, as, i)' <=>
          EntryUse(p, as, i) \/ (e.v /\ p = table[c] /\ as = bs /\ i = Group(c))
    <3>1. \A i \in DirIndex : i \in Index
      BY DEF Index
    <3> SUFFICES ASSUME NEW p, NEW as, NEW i
                 PROVE  EntryUse(p, as, i)' <=>
                          EntryUse(p, as, i) \/ (e.v /\ p = table[c] /\ as = bs /\ i = Group(c))
      OBVIOUS
    <3>2. CASE as # bs
      BY <1>1, <1>8, <3>2 DEF EntryUse, OwnGroups
    <3>3. CASE as = bs /\ i # Group(c)
      <4>1. i \in DirIndex => pt'[dir[bs]][i] = pt[dir[bs]][i]
        BY <1>7, <3>1, <3>3
      <4> QED BY <1>1, <3>3, <4>1 DEF EntryUse, OwnGroups
    <3>4. CASE as = bs /\ i = Group(c)
      <4>1. ~EntryUse(p, as, i)
        BY <1>4, <3>4 DEF EntryUse
      <4>2. pt'[dir'[as]][i] = e /\ dir'[as] # None /\ i \in OwnGroups(as)
        BY <1>1, <1>3, <1>7, <3>4
      <4>3. EntryUse(p, as, i)' <=> e.v /\ p = table[c]
        BY <1>3, <1>5, <3>4, <4>2 DEF EntryUse, OwnGroups
      <4> QED BY <3>4, <4>1, <4>3
    <3> QED BY <3>2, <3>3, <3>4
  <2>4. \A p, as, i : Use(p, as, i)' <=> Use(p, as, i)
    BY <2>1, <2>2, <2>3 DEF Use
  <2> QED BY <1>1, <1>2, <2>4, UsesSame
<1>11. Calls' /\ Exclusive' /\ Boot'
  <2>1. ASSUME NEW d \in Callers, d # c PROVE CallOK(d)'
    BY <1>1, <1>2, <1>6, <2>1 DEF Calls, CallOK, Asked
  <2>2. CallOK(c)'
    <3>1. pc'[c] \in Mapping /\ pc'[c] \in WithTable
      BY <1>1, <1>2 DEF TypeOK, Mapping, WithTable
    <3>2. req[c] \in Request /\ req[c].as \in ready /\ Asked(c)
      BY <1>1, <1>2 DEF Calls, CallOK
    <3> QED BY <1>1, <1>4, <3>1, <3>2 DEF CallOK, Asked, Mapping
  <2>3. Boot'
    <3>1. ~vme_enable => c = Main
      BY <1>1, <1>2 DEF Calls, CallOK, Asked
    <3> QED BY <1>1, <1>2, <1>6, <3>1 DEF Boot
  <2> QED BY <1>1, <1>2, <2>1, <2>2, <2>3 DEF Calls, Exclusive
<1>12. Fresh'
  <2>1. \A p \in free : p # dir[bs] /\ p \in Pool
    BY <1>2, <1>3, Distinct DEF TypeOK
  <2> QED BY <1>1, <1>2, <1>3, <1>7, <1>8, <2>1, SMTT(30) DEF Fresh
<1>13. Shared'
  <2>1. \A as \in ready : as \in AllSpaces /\ dir[as] # None
    BY <1>2 DEF TypeOK, Fresh
  <2>2. Asked(c)
    BY <1>1, <1>2 DEF Calls, CallOK
  <2>3. \A i \in DirIndex : i \in Index
    BY DEF Index
  <2>4. CASE bs = Kas
    <3>1. \A as \in ready : as = Kas
      BY <1>2, <2>1, <2>2, <2>4 DEF Boot, Asked, AllSpaces
    <3>2. \A i \in DirIndex : i \notin OwnGroups(Kas) => ~pt'[dir[Kas]][i].v
      BY <1>2, <1>3, <1>7, <2>3, <2>4 DEF Shared
    <3> QED BY <1>1, <3>1, <3>2 DEF Shared, OwnGroups
  <2>5. CASE bs # Kas
    <3>1. Group(c) \notin OwnGroups(Kas)
      BY <2>2, <2>5, Groups DEF Asked, Group
    <3>2. Kas \in ready => pt'[dir[Kas]] = pt[dir[Kas]]
      BY <1>8, <2>1, <2>5
    <3>3. \A as \in ready : \A i \in OwnGroups(Kas) : pt'[dir[as]][i] = pt[dir[as]][i]
      BY <1>7, <1>8, <2>1, <2>3, <3>1, Groups DEF AllSpaces
    <3> QED BY <1>1, <1>2, <3>2, <3>3 DEF Shared, OwnGroups
  <2> QED BY <2>4, <2>5
<1>14. Progress'
  <2>1. ASSUME NEW d \in Callers, d # c, pc'[d] \in Mapping
        PROVE  Pde(d)' = Pde(d)
    <3>1. pc[d] \in Mapping
      BY <1>6, <2>1
    <3>2. req[d] # None /\ req[d].as \in AllSpaces /\ dir[req[d].as] # None
      BY <3>1, CallFacts DEF Dir
    <3>3. req[d].as # bs
      BY <1>2, <1>3, <2>1, <3>2 DEF Exclusive
    <3> QED BY <1>1, <1>8, <3>2, <3>3 DEF Pde, Dir
  <2>2. ASSUME NEW d \in Callers, table[d] # None
        PROVE  pt'[table'[d]] = pt[table[d]] /\ Leaf(d)' = Leaf(d)
    BY <1>1, <1>8, <2>2 DEF Leaf, Slot
  <2>3. \A d \in Callers : d # c /\ pc[d] \in WithTable => table[d] # None
    BY <1>2 DEF Calls, CallOK
  <2>4. Pde(c)' = e
    BY <1>1, <1>3, <1>7 DEF Pde, Dir, Group
  <2>5. \/ pc'[c] = "dirv" /\ e = [ppn |-> table[c], v |-> FALSE]
        \/ pc'[c] = "leaf" /\ e = [ppn |-> table[c], v |-> TRUE]
    BY <1>2 DEF TypeOK
  <2>6. pt'[table'[c]] = Zeroed
    BY <1>4, <2>2
  <2> QED BY <1>1, <1>2, <1>6, <2>1, <2>2, <2>3, <2>4, <2>5, <2>6 DEF Progress, Mapping, WithTable
<1>15. KernelDone'
  <2> SUFFICES ASSUME NEW k \in Pmem, k < seg, ~BeingMapped(k)'
               PROVE  LET pde == pt'[dir[Kas]][Vpn1(k)]
                      IN pde.v /\ pt'[pde.ppn][Vpn0(k)] = [ppn |-> k, v |-> TRUE]
    BY <1>1 DEF KernelDone
  <2> DEFINE pde == pt[dir[Kas]][Vpn1(k)]
  <2>1. ~BeingMapped(k)
    <3>1. pc'[c] \in Mapping
      BY <1>2 DEF TypeOK, Mapping
    <3> QED BY <1>1, <1>6, <3>1 DEF BeingMapped
  <2>2. pde.v /\ pt[pde.ppn][Vpn0(k)] = [ppn |-> k, v |-> TRUE]
    BY <1>2, <2>1 DEF KernelDone
  <2>3. Vpn1(k) \in OwnGroups(Kas) /\ Vpn1(k) \in DirIndex /\ Vpn1(k) \in Index
    BY Groups, <1>3 DEF AllSpaces, Index
  <2>4. Kas \in AllSpaces /\ (vme_enable \/ bs = Kas)
    BY <1>1, <1>2 DEF AllSpaces, Calls, CallOK, Asked
  <2>5. dir[Kas] # None
    BY <1>2, <1>3, <2>4 DEF Boot, Fresh
  <2>6. EntryUse(pde.ppn, Kas, Vpn1(k))
    BY <2>2, <2>3, <2>4, <2>5 DEF EntryUse
  <2>7. pt'[pde.ppn] = pt[pde.ppn]
    BY <1>3, <1>7, <2>6, Distinct
  <2>8. pt'[dir[Kas]][Vpn1(k)] = pde
    BY <1>4, <1>7, <1>8, <2>2, <2>3, <2>4, <2>5
  <2> QED BY <2>2, <2>7, <2>8
<1> QED
  BY <1>9, <1>10, <1>11, <1>12, <1>13, <1>14, <1>15 DEF IInv

\* A write to the page's entry in its table.
LEMMA LeafWriteInv ==
  ASSUME IInv, NEW c \in Callers, NEW e,
         \/ pc[c] = "leaf" /\ e = [ppn |-> req[c].pa, v |-> FALSE] /\ pc' = [pc EXCEPT ![c] = "leafv"]
         \/ pc[c] = "leafv" /\ e = [ppn |-> req[c].pa, v |-> TRUE] /\ pc' = [pc EXCEPT ![c] = "ret"],
         pt' = [pt EXCEPT ![table[c]][Slot(c)] = e],
         granted' \in [AllSpaces -> [Vas -> Prots \cup {None}]],
         UNCHANGED <<free, dir, ready, satp, vme_enable, seg, req, table>>
  PROVE  IInv'
<1> DEFINE bs == req[c].as
<1>1. /\ pc[c] \in Mapping /\ pc[c] \in WithTable /\ pc[c] \in {"leaf", "leafv"}
      /\ free' = free /\ dir' = dir /\ ready' = ready /\ satp' = satp /\ vme_enable' = vme_enable
      /\ seg' = seg /\ req' = req /\ table' = table
  BY DEF Mapping, WithTable
<1>2. /\ TypeOK /\ Owned /\ Calls /\ Exclusive /\ Boot /\ Fresh /\ Shared /\ Progress /\ KernelDone
  BY DEF IInv
<1>3. /\ req[c] # None /\ bs \in AllSpaces /\ bs \in ready /\ req[c].va \in Vas
      /\ req[c].pa \in Pmem /\ Slot(c) \in Index
  BY <1>1, CallFacts
<1>4. table[c] # None /\ table[c] \in Pool /\ table[c] \notin free
  BY <1>1, <1>2, Distinct DEF Calls, CallOK
<1>5. e \in Pte
  BY <1>3, EntryParts
<1>6. \A d \in Callers : d # c => pc'[d] = pc[d]
  BY <1>2 DEF TypeOK
<1>7. /\ pt'[table[c]][Slot(c)] = e
      /\ \A i \in Index : i # Slot(c) => pt'[table[c]][i] = pt[table[c]][i]
      /\ \A p \in Pool : p # table[c] => pt'[p] = pt[p]
  BY <1>2, <1>3, <1>4 DEF TypeOK
<1>8. /\ \A as \in AllSpaces : dir[as] # None => pt'[dir[as]] = pt[dir[as]]
      /\ \A d \in Callers : d # c /\ table[d] # None => pt'[table[d]] = pt[table[d]]
  BY <1>4, <1>7, Distinct
<1>9. TypeOK'
  <2>1. pt' \in [Pool -> [Index -> Pte]]
    BY <1>2, <1>3, <1>4, <1>5 DEF TypeOK
  <2> QED BY <1>1, <1>2, <2>1 DEF TypeOK, Steps
<1>10. Owned'
  <2>1. \A p, as, i : /\ DirUse(p, as, i)' <=> DirUse(p, as, i)
                      /\ TableUse(p, as, i)' <=> TableUse(p, as, i)
    BY <1>1 DEF DirUse, TableUse, Group
  <2>2. \A p, as, i : EntryUse(p, as, i)' <=> EntryUse(p, as, i)
    BY <1>1, <1>8 DEF EntryUse, OwnGroups
  <2> QED BY <1>1, <1>2, <2>1, <2>2, UsesSame DEF Use
<1>11. Calls' /\ Exclusive' /\ Boot'
  <2>1. ASSUME NEW d \in Callers, d # c PROVE CallOK(d)'
    BY <1>1, <1>2, <1>6, <2>1 DEF Calls, CallOK, Asked
  <2>2. CallOK(c)'
    <3>1. pc'[c] \in Mapping /\ pc'[c] \in WithTable
      BY <1>1, <1>2 DEF TypeOK, Mapping, WithTable
    <3>2. req[c] \in Request /\ req[c].as \in ready /\ Asked(c)
      BY <1>1, <1>2 DEF Calls, CallOK
    <3> QED BY <1>1, <1>4, <3>1, <3>2 DEF CallOK, Asked, Mapping
  <2>3. Boot'
    <3>1. ~vme_enable => c = Main
      BY <1>1, <1>2 DEF Calls, CallOK, Asked
    <3> QED BY <1>1, <1>2, <1>6, <3>1 DEF Boot
  <2> QED BY <1>1, <1>2, <2>1, <2>2, <2>3 DEF Calls, Exclusive
<1>12. Fresh'
  <2>1. \A p \in free : p # table[c] /\ p \in Pool
    BY <1>2, <1>4 DEF TypeOK
  <2> QED BY <1>1, <1>2, <1>7, <1>8, <2>1 DEF Fresh
<1>13. Shared'
  <2>1. \A as \in ready : as \in AllSpaces /\ dir[as] # None
    BY <1>2 DEF TypeOK, Fresh
  <2> QED BY <1>1, <1>2, <1>8, <2>1 DEF Shared, OwnGroups
<1>14. Progress'
  <2>1. ASSUME NEW d \in Callers, pc[d] \in Mapping
        PROVE  Pde(d)' = Pde(d)
    <3>1. req[d].as \in AllSpaces /\ dir[req[d].as] # None
      BY <2>1, CallFacts DEF Dir
    <3> QED BY <1>1, <1>8, <3>1 DEF Pde, Dir
  <2>2. ASSUME NEW d \in Callers, d # c, table[d] # None
        PROVE  pt'[table'[d]] = pt[table[d]] /\ Leaf(d)' = Leaf(d)
    BY <1>1, <1>8, <2>2 DEF Leaf, Slot
  <2>3. \A d \in Callers : d # c /\ pc[d] \in WithTable => table[d] # None
    BY <1>2 DEF Calls, CallOK
  <2>4. Leaf(c)' = e
    BY <1>1, <1>7 DEF Leaf, Slot
  <2>5. \/ pc'[c] = "leafv" /\ e = [ppn |-> req[c].pa, v |-> FALSE]
        \/ pc'[c] = "ret" /\ e = [ppn |-> req[c].pa, v |-> TRUE]
    BY <1>2 DEF TypeOK
  <2>6. Pde(c)' = [ppn |-> table[c], v |-> TRUE]
    BY <1>1, <1>2, <2>1 DEF Progress
  <2> QED BY <1>1, <1>2, <1>6, <2>1, <2>2, <2>3, <2>4, <2>5, <2>6 DEF Progress, Mapping, WithTable
<1>15. KernelDone'
  <2> SUFFICES ASSUME NEW k \in Pmem, k < seg, ~BeingMapped(k)'
               PROVE  LET pde == pt'[dir[Kas]][Vpn1(k)]
                      IN pde.v /\ pt'[pde.ppn][Vpn0(k)] = [ppn |-> k, v |-> TRUE]
    BY <1>1, SMTT(30) DEF KernelDone
  <2> DEFINE pde == pt[dir[Kas]][Vpn1(k)]
  <2>1. ~BeingMapped(k) /\ ~(bs = Kas /\ req[c].va = k)
    <3>1. pc'[c] \in Mapping
      BY <1>2 DEF TypeOK, Mapping
    <3> QED BY <1>1, <1>6, <3>1 DEF BeingMapped
  <2>2. pde.v /\ pt[pde.ppn][Vpn0(k)] = [ppn |-> k, v |-> TRUE]
    BY <1>2, <2>1 DEF KernelDone
  <2>3. k \in Vas /\ Vpn1(k) \in OwnGroups(Kas) /\ Vpn1(k) \in DirIndex /\ Vpn0(k) \in Index
    <3>1. k \in Vas
      BY DEF Vas
    <3> QED BY <3>1, Groups, PageSplit DEF Index
  <2>4. Kas \in AllSpaces /\ (vme_enable \/ bs = Kas)
    BY <1>1, <1>2 DEF AllSpaces, Calls, CallOK, Asked
  <2>5. dir[Kas] # None
    BY <1>2, <1>3, <2>4 DEF Boot, Fresh
  <2>6. EntryUse(pde.ppn, Kas, Vpn1(k))
    BY <2>2, <2>3, <2>4, <2>5 DEF EntryUse
  <2>7. pt'[dir[Kas]] = pt[dir[Kas]]
    BY <1>8, <2>4, <2>5
  <2>8. CASE pde.ppn # table[c]
    <3>1. pde.ppn \in Pool
      BY <2>6, Distinct
    <3> QED BY <1>7, <2>2, <2>7, <2>8, <3>1
  <2>9. CASE pde.ppn = table[c]
    <3>1. bs = Kas /\ Vpn1(k) = Group(c)
      BY <1>4, <2>6, <2>9, Distinct
    <3>2. Vpn0(k) # Slot(c)
      BY <1>3, <2>1, <2>3, <3>1, SamePage DEF Group, Slot
    <3> QED BY <1>7, <2>2, <2>3, <2>7, <2>9, <3>2
  <2> QED BY <2>8, <2>9
<1> QED
  BY <1>9, <1>10, <1>11, <1>12, <1>13, <1>14, <1>15 DEF IInv

-----------------------------------------------------------------------------
(* The theorems.                                                             *)

LEMMA InitInv == Init => IInv
<1> SUFFICES ASSUME Init PROVE IInv
  OBVIOUS
<1>1. /\ \A c \in Callers : pc[c] = "idle" /\ req[c] = None /\ table[c] = None
      /\ \A as \in AllSpaces : dir[as] = None
      /\ \A p \in Pool : pt[p] = Zeroed
      /\ free = Pool /\ ready = {} /\ ~vme_enable /\ seg = Lowest(Pmem)
  BY DEF Init
<1>2. TypeOK
  <2>1. Zeroed \in [Index -> Pte]
    BY DEF Zeroed, Pte
  <2>2. pt \in [Pool -> [Index -> Pte]] /\ seg \in Nat
    BY <1>1, <2>1, LowestOfMemory DEF Init
  <2> QED BY <2>2 DEF Init, TypeOK, Steps
<1>3. Owned
  BY <1>1 DEF Owned, Use, DirUse, EntryUse, TableUse
<1>4. Calls /\ Exclusive /\ Progress
  BY <1>1 DEF Calls, CallOK, Exclusive, Progress, WithTable, Mapping
<1>5. Fresh /\ Shared
  BY <1>1 DEF Fresh, Shared, AllSpaces
<1>6. \A k \in Pmem : seg \in Nat /\ k \in Nat /\ seg <= k
  BY <1>1, LowestOfMemory
<1>7. Boot
  <2>1. Lowest(Pmem) <= seg
    BY <1>1, LowestOfMemory
  <2> QED BY <1>1, <2>1 DEF Boot, AllSpaces
<1>8. KernelDone
  <2>1. \A k \in Pmem : ~(k < seg)
    BY <1>6
  <2> QED BY <2>1 DEF KernelDone
<1> QED
  BY <1>2, <1>3, <1>4, <1>5, <1>7, <1>8 DEF IInv

LEMMA WriteDirInv ==
  ASSUME IInv, NEW c \in Callers, WriteDir(c)
  PROVE  IInv'
<1> DEFINE e == [ppn |-> table[c], v |-> FALSE]
<1>1. /\ pc[c] = "dir" /\ pc' = [pc EXCEPT ![c] = "dirv"]
      /\ pt' = [pt EXCEPT ![Dir(c)][Group(c)] = e]
      /\ UNCHANGED <<free, dir, ready, satp, vme_enable, seg, req, table, granted>>
  BY DEF WriteDir, Goto, Group
<1> HIDE DEF e
<1> QED
  BY <1>1, DirWriteInv DEF e

\* The valid bit goes into the entry that WriteDir wrote.
LEMMA ValidDirWrites ==
  ASSUME IInv, NEW c \in Callers, ValidDir(c)
  PROVE  pt' = [pt EXCEPT ![Dir(c)][Group(c)] = [ppn |-> table[c], v |-> TRUE]]
<1>1. pc[c] = "dirv" /\ pc[c] \in Mapping
  BY DEF ValidDir, Mapping
<1>2. pt[Dir(c)][Group(c)] = [ppn |-> table[c], v |-> FALSE]
  BY <1>1 DEF IInv, Progress, Pde, Group
<1>3. pt' = [pt EXCEPT ![Dir(c)][Group(c)] = Valid(pt[Dir(c)][Group(c)])]
  BY DEF ValidDir, Group
<1>4. Valid(pt[Dir(c)][Group(c)]) = [ppn |-> table[c], v |-> TRUE]
  BY <1>2 DEF Valid
<1> QED
  BY <1>3, <1>4

LEMMA ValidDirInv ==
  ASSUME IInv, NEW c \in Callers, ValidDir(c)
  PROVE  IInv'
<1> DEFINE e == [ppn |-> table[c], v |-> TRUE]
<1>1. /\ pc[c] = "dirv" /\ pc' = [pc EXCEPT ![c] = "leaf"]
      /\ pt' = [pt EXCEPT ![Dir(c)][Group(c)] = e]
      /\ UNCHANGED <<free, dir, ready, satp, vme_enable, seg, req, table, granted>>
  BY ValidDirWrites DEF ValidDir, Goto
<1> HIDE DEF e
<1> QED
  BY <1>1, DirWriteInv DEF e

LEMMA WriteLeafInv ==
  ASSUME IInv, NEW c \in Callers, WriteLeaf(c)
  PROVE  IInv'
<1> DEFINE e == [ppn |-> req[c].pa, v |-> FALSE]
<1>1. /\ pc[c] = "leaf" /\ pc' = [pc EXCEPT ![c] = "leafv"]
      /\ pt' = [pt EXCEPT ![table[c]][Slot(c)] = e]
      /\ UNCHANGED <<free, dir, ready, satp, vme_enable, seg, req, table>> /\ granted' = granted
  BY DEF WriteLeaf, Goto, Slot
<1>2. granted' \in [AllSpaces -> [Vas -> Prots \cup {None}]]
  BY <1>1 DEF IInv, TypeOK
<1> HIDE DEF e
<1> QED
  BY <1>1, <1>2, LeafWriteInv DEF e

LEMMA ValidLeafWrites ==
  ASSUME IInv, NEW c \in Callers, ValidLeaf(c)
  PROVE  pt' = [pt EXCEPT ![table[c]][Slot(c)] = [ppn |-> req[c].pa, v |-> TRUE]]
<1>1. pt[table[c]][Slot(c)] = [ppn |-> req[c].pa, v |-> FALSE]
  BY DEF IInv, Progress, Leaf, ValidLeaf
<1>2. pt' = [pt EXCEPT ![table[c]][Slot(c)] = Valid(pt[table[c]][Slot(c)])]
  BY DEF ValidLeaf, Slot
<1>3. Valid(pt[table[c]][Slot(c)]) = [ppn |-> req[c].pa, v |-> TRUE]
  BY <1>1 DEF Valid
<1> QED
  BY <1>2, <1>3

LEMMA ValidLeafInv ==
  ASSUME IInv, NEW c \in Callers, ValidLeaf(c)
  PROVE  IInv'
<1> DEFINE e == [ppn |-> req[c].pa, v |-> TRUE]
<1>1. /\ pc[c] = "leafv" /\ pc[c] \in Mapping /\ pc' = [pc EXCEPT ![c] = "ret"]
      /\ pt' = [pt EXCEPT ![table[c]][Slot(c)] = e]
      /\ granted' = [granted EXCEPT ![req[c].as][req[c].va] = req[c].prot]
      /\ UNCHANGED <<free, dir, ready, satp, vme_enable, seg, req, table>>
  BY ValidLeafWrites DEF ValidLeaf, Goto, Mapping
<1>2. req[c].as \in AllSpaces /\ req[c].va \in Vas /\ req[c].prot \in Prots
  BY <1>1, CallFacts
<1>3. granted' \in [AllSpaces -> [Vas -> Prots \cup {None}]]
  BY <1>1, <1>2 DEF IInv, TypeOK
<1> HIDE DEF e
<1> QED
  BY <1>1, <1>3, LeafWriteInv DEF e

LEMMA StutterInv ==
  ASSUME IInv, UNCHANGED vars
  PROVE  IInv'
<1>1. /\ pt' = pt /\ free' = free /\ dir' = dir /\ ready' = ready /\ satp' = satp
      /\ vme_enable' = vme_enable /\ seg' = seg /\ pc' = pc /\ req' = req /\ table' = table
      /\ granted' = granted
  BY DEF vars
<1>2. TypeOK' /\ Owned'
  BY <1>1 DEF IInv, TypeOK, Owned, Use, DirUse, EntryUse, TableUse, OwnGroups, Group
<1>3. Calls' /\ Exclusive' /\ Boot' /\ Fresh' /\ Shared'
  BY <1>1 DEF IInv, Calls, CallOK, Asked, Exclusive, Boot, Fresh, Shared, OwnGroups
<1>4. Progress' /\ KernelDone'
  BY <1>1 DEF IInv, Progress, Pde, Dir, Leaf, Slot, KernelDone, BeingMapped
<1> QED
  BY <1>2, <1>3, <1>4 DEF IInv

\* The invariant holds in every state.
THEOREM Invariant == Spec => []IInv
<1>1. IInv /\ [Next]_vars => IInv'
  <2> SUFFICES ASSUME IInv, [Next]_vars PROVE IInv'
    OBVIOUS
  <2>1. CASE UNCHANGED vars
    BY <2>1, StutterInv
  <2>2. CASE Next
    <3>1. PICK c \in Callers :
            \/ VmeInit(c) \/ InitMap(c) \/ InitDone(c)
            \/ \E as \in Spaces : Protect(c, as)
            \/ Copy(c)
            \/ \E as \in Spaces, va \in MapVas, pa \in DataPages, prot \in Prots :
                 Map(c, as, va, pa, prot)
            \/ MapStep(c)
      BY <2>2 DEF Next
    <3>2. CASE VmeInit(c) \/ InitMap(c) \/ InitDone(c) \/ Copy(c)
      BY <3>2, VmeInitInv, InitMapInv, InitDoneInv, CopyInv
    <3>3. CASE \E as \in Spaces : Protect(c, as)
      BY <3>3, ProtectInv
    <3>4. CASE \E as \in Spaces, va \in MapVas, pa \in DataPages, prot \in Prots :
                 Map(c, as, va, pa, prot)
      BY <3>4, MapInv
    <3>5. CASE MapStep(c)
      BY <3>5, WalkInv, AllocInv, WriteDirInv, ValidDirInv, WriteLeafInv, ValidLeafInv, ReturnInv
         DEF MapStep
    <3> QED BY <3>1, <3>2, <3>3, <3>4, <3>5
  <2> QED BY <2>1, <2>2
<1> QED
  BY InitInv, <1>1, PTL DEF Spec

\* Every variable always has its type.
THEOREM TypeCorrect == Spec => []TypeOK
<1>1. IInv => TypeOK
  BY DEF IInv
<1> QED
  BY Invariant, <1>1, PTL

\* Every page pgalloc gave out has exactly one use: as a directory, or as the table of
\* one group of pages of one space.
THEOREM TablesAreOwned == Spec => []TablesOwned
<1>1. IInv => TablesOwned
  BY OwnedOfTriples DEF IInv
<1> QED
  BY Invariant, <1>1, PTL

\* Once translation is on, the kernel's memory is mapped to itself in every space a
\* thread can be switched to.
THEOREM KernelStaysMapped == Spec => []KernelMapped
<1>1. IInv => KernelMapped
  <2> SUFFICES ASSUME IInv, vme_enable
               PROVE  satp = dir[Kas] /\ \A as \in ready, k \in Pmem : MapQuery(as, k) = k
    BY DEF KernelMapped
  <2>1. satp = dir[Kas] /\ Kas \in ready /\ \A k \in Pmem : k < seg
    BY DEF IInv, Boot
  <2>2. \A k \in Pmem : ~BeingMapped(k)
    BY DEF IInv, Calls, CallOK, Asked, BeingMapped
  <2>3. ASSUME NEW bs \in ready, NEW k \in Pmem PROVE MapQuery(bs, k) = k
    <3>1. pt[dir[bs]][Vpn1(k)] = pt[dir[Kas]][Vpn1(k)]
      BY <2>1, Groups DEF IInv, Shared
    <3>2. LET pde == pt[dir[Kas]][Vpn1(k)]
          IN pde.v /\ pt[pde.ppn][Vpn0(k)] = [ppn |-> k, v |-> TRUE]
      BY <2>1, <2>2 DEF IInv, KernelDone
    <3> QED BY <3>1, <3>2 DEF MapQuery
  <2> QED BY <2>1, <2>3
<1> QED
  BY Invariant, <1>1, PTL

-----------------------------------------------------------------------------
(* Refinement of AddressSpaces.                                              *)

\* Where page va of space as lies.
Trans(as, va) == IF dir[as] = None THEN None ELSE MapQuery(as, va)

\* A walk that reads the same entries finds the same page.
LEMMA SameWalk ==
  ASSUME NEW bs, NEW va, dir' = dir, NEW pde, pde = pt[dir[bs]][Vpn1(va)],
         pt'[dir[bs]][Vpn1(va)] = pde,
         pde.v => pt'[pde.ppn][Vpn0(va)] = pt[pde.ppn][Vpn0(va)]
  PROVE  MapQuery(bs, va)' = MapQuery(bs, va)
<1>1. MapQuery(bs, va) =
        IF pde.v /\ pt[pde.ppn][Vpn0(va)].v THEN pt[pde.ppn][Vpn0(va)].ppn ELSE None
  BY DEF MapQuery
<1>2. MapQuery(bs, va)' =
        IF pde.v /\ pt'[pde.ppn][Vpn0(va)].v THEN pt'[pde.ppn][Vpn0(va)].ppn ELSE None
  BY DEF MapQuery
<1> QED
  BY <1>1, <1>2

\* A walk that finds a table finds the space's own, or the kernel's for a kernel page.
LEMMA Walks ==
  ASSUME IInv, NEW bs \in AllSpaces, dir[bs] # None, NEW va \in Vas,
         pt[dir[bs]][Vpn1(va)].v
  PROVE  /\ bs \in ready
         /\ LET p == pt[dir[bs]][Vpn1(va)].ppn
            IN EntryUse(p, bs, Vpn1(va)) \/ EntryUse(p, Kas, Vpn1(va))
<1>1. /\ TypeOK /\ Owned /\ Calls /\ Exclusive /\ Boot /\ Fresh /\ Shared /\ Progress /\ KernelDone
  BY DEF IInv
<1>2. Vpn1(va) \in DirIndex /\ Vpn1(va) \in Index
  BY PageSplit DEF Index
<1>3. bs \in ready
  BY <1>1, <1>2 DEF Fresh, Zeroed
<1>4. CASE Vpn1(va) \in OwnGroups(bs)
  BY <1>2, <1>3, <1>4 DEF EntryUse
<1>5. CASE Vpn1(va) \notin OwnGroups(bs)
  <2>1. bs # Kas
    BY <1>1, <1>2, <1>3, <1>5 DEF Shared
  <2>2. va \in Pmem
    BY <1>5, <2>1, Groups DEF Vas, AllSpaces
  <2>3. Kas \in ready /\ Kas \in AllSpaces
    BY <1>1, <1>3, <2>1 DEF Boot, Fresh, AllSpaces
  <2>4. dir[Kas] # None /\ Vpn1(va) \in OwnGroups(Kas)
    BY <1>1, <2>2, <2>3, Groups DEF Fresh
  <2>5. pt[dir[bs]][Vpn1(va)] = pt[dir[Kas]][Vpn1(va)]
    BY <1>1, <1>3, <2>3, <2>4 DEF Shared
  <2> QED BY <1>2, <1>3, <2>3, <2>4, <2>5 DEF EntryUse
<1> QED
  BY <1>4, <1>5

\* A write to a directory changes no translation: the entry was not valid, and once it
\* is, the table it leads to is still empty.
LEMMA DirWriteTrans ==
  ASSUME IInv, NEW c \in Callers, NEW e,
         \/ pc[c] = "dir" /\ e = [ppn |-> table[c], v |-> FALSE]
         \/ pc[c] = "dirv" /\ e = [ppn |-> table[c], v |-> TRUE],
         pt' = [pt EXCEPT ![Dir(c)][Group(c)] = e], dir' = dir
  PROVE  \A as \in AllSpaces, va \in Vas : Trans(as, va)' = Trans(as, va)
<1> DEFINE bs == req[c].as
<1>1. /\ pc[c] \in Mapping /\ pc[c] \in WithTable /\ pc[c] \in {"dir", "dirv"}
  BY DEF Mapping, WithTable
<1>2. /\ TypeOK /\ Owned /\ Calls /\ Exclusive /\ Boot /\ Fresh /\ Shared /\ Progress /\ KernelDone
  BY DEF IInv
<1>3. /\ bs \in AllSpaces /\ Dir(c) = dir[bs] /\ dir[bs] # None /\ dir[bs] \in Pool
      /\ Group(c) \in Index
  BY <1>1, CallFacts DEF Dir
<1>4. table[c] \in Pool /\ table[c] # dir[bs] /\ ~pt[dir[bs]][Group(c)].v /\ pt[table[c]] = Zeroed
  <2>1. table[c] # None /\ table[c] \in Pool /\ table[c] # dir[bs]
    BY <1>1, <1>2, <1>3, Distinct DEF Calls, CallOK
  <2>2. ~Pde(c).v /\ pt[table[c]] = Zeroed
    BY <1>1, <1>2 DEF Progress
  <2> QED BY <1>3, <2>1, <2>2 DEF Pde, Group
<1>5. e.ppn = table[c]
  BY <1>4, MemoryAssumption, EntryParts
<1>6. /\ pt'[dir[bs]][Group(c)] = e
      /\ \A i \in Index : i # Group(c) => pt'[dir[bs]][i] = pt[dir[bs]][i]
      /\ \A p \in Pool : p # dir[bs] => pt'[p] = pt[p]
  BY <1>2, <1>3 DEF TypeOK
<1>7. ASSUME NEW cs \in AllSpaces, NEW va \in Vas, dir[cs] # None
      PROVE  MapQuery(cs, va)' = MapQuery(cs, va)
  <2> DEFINE i == Vpn1(va)
             j == Vpn0(va)
             p == pt[dir[cs]][i].ppn
  <2>1. i \in Index /\ j \in Index
    BY PageSplit DEF Index
  <2>2. CASE cs = bs /\ i = Group(c)
    <3>1. pt'[dir[cs]][i] = e /\ ~pt[dir[cs]][i].v
      BY <1>4, <1>6, <2>2
    <3>2. pt'[e.ppn] = Zeroed /\ ~Zeroed[j].v
      BY <1>4, <1>5, <1>6, <2>1 DEF Zeroed
    <3>3. ~pt'[e.ppn][j].v
      BY <3>2
    <3>4. MapQuery(cs, va) = None
      BY <3>1 DEF MapQuery
    <3>5. MapQuery(cs, va)' = None
      BY <3>1, <3>3 DEF MapQuery
    <3> QED BY <3>4, <3>5
  <2>3. CASE ~(cs = bs /\ i = Group(c))
    <3>1. pt'[dir[cs]][i] = pt[dir[cs]][i]
      BY <1>3, <1>6, <1>7, <2>1, <2>3, Distinct
    <3>2. CASE pt[dir[cs]][i].v
      <4>1. p \in Pool /\ p # dir[bs]
        BY <1>3, <1>7, <3>2, Walks, Distinct
      <4>2. pt'[p] = pt[p]
        BY <1>6, <4>1
      <4> QED BY <3>1, <4>2, SameWalk
    <3>3. CASE ~pt[dir[cs]][i].v
      BY <3>1, <3>3 DEF MapQuery
    <3> QED BY <3>2, <3>3
  <2> QED BY <2>2, <2>3
<1> QED
  BY <1>7 DEF Trans

\* A write to the page's entry changes where that page lies, in that space, to nothing
\* and then to what was asked for, and where no other page lies.
LEMMA LeafWriteTrans ==
  ASSUME IInv, NEW c \in Callers, NEW e, NEW b \in BOOLEAN,
         pc[c] \in {"leaf", "leafv"}, e = [ppn |-> req[c].pa, v |-> b],
         pt' = [pt EXCEPT ![table[c]][Slot(c)] = e], dir' = dir, req' = req
  PROVE  /\ Trans(req[c].as, req[c].va)' = IF b THEN req[c].pa ELSE None
         /\ \A as \in AllSpaces, va \in Vas :
              as # req[c].as \/ va # req[c].va => Trans(as, va)' = Trans(as, va)
<1> DEFINE bs == req[c].as
<1>1. /\ pc[c] \in Mapping /\ pc[c] \in WithTable
  BY DEF Mapping, WithTable
<1>2. /\ TypeOK /\ Owned /\ Calls /\ Exclusive /\ Boot /\ Fresh /\ Shared /\ Progress /\ KernelDone
  BY DEF IInv
<1>3. /\ bs \in AllSpaces /\ bs \in ready /\ req[c].va \in Vas /\ req[c].pa \in Pmem
      /\ Dir(c) = dir[bs] /\ dir[bs] # None /\ Slot(c) \in Index
  BY <1>1, CallFacts DEF Dir
<1>4. table[c] # None /\ table[c] \in Pool /\ table[c] # dir[bs]
  BY <1>1, <1>2, <1>3, Distinct DEF Calls, CallOK
<1>5. pt[dir[bs]][Group(c)] = [ppn |-> table[c], v |-> TRUE]
  BY <1>2, <1>3 DEF Progress, Pde, Group
<1>6. /\ pt'[table[c]][Slot(c)] = e
      /\ \A i \in Index : i # Slot(c) => pt'[table[c]][i] = pt[table[c]][i]
      /\ \A p \in Pool : p # table[c] => pt'[p] = pt[p]
  BY <1>2, <1>3, <1>4 DEF TypeOK
<1>7. \A as \in AllSpaces : dir[as] # None => pt'[dir[as]] = pt[dir[as]]
  BY <1>4, <1>6, Distinct
<1>8. Trans(bs, req[c].va)' = IF b THEN req[c].pa ELSE None
  <2>1. pt'[dir[bs]][Vpn1(req[c].va)] = [ppn |-> table[c], v |-> TRUE]
    BY <1>3, <1>5, <1>7 DEF Group
  <2>2. pt'[table[c]][Vpn0(req[c].va)] = e
    BY <1>6 DEF Slot
  <2>3. req[c].pa # None
    BY <1>3, NamesAssumption
  <2>4. ASSUME NEW cs, cs = bs, NEW va, va = req[c].va
        PROVE  Trans(cs, va)' = IF b THEN req[c].pa ELSE None
    <3>1. pt'[dir'[cs]][Vpn1(va)].v /\ pt'[dir'[cs]][Vpn1(va)].ppn = table[c]
      BY <2>1, <2>4
    <3>2. pt'[table[c]][Vpn0(va)] = e /\ e.ppn = req[c].pa /\ e.v = b
      BY <2>2, <2>4
    <3>3. MapQuery(cs, va)' = IF e.v THEN e.ppn ELSE None
      BY <3>1, <3>2 DEF MapQuery
    <3> QED BY <1>3, <2>4, <3>2, <3>3 DEF Trans
  <2>5. (req[c].as)' = req[c].as /\ (req[c].va)' = req[c].va
    OBVIOUS
  <2> QED BY <2>4, <2>5
<1>9. ASSUME NEW cs \in AllSpaces, NEW va \in Vas, dir[cs] # None, cs # bs \/ va # req[c].va
      PROVE  MapQuery(cs, va)' = MapQuery(cs, va)
  <2> DEFINE i == Vpn1(va)
             j == Vpn0(va)
             p == pt[dir[cs]][i].ppn
  <2>1. i \in Index /\ j \in Index
    BY PageSplit DEF Index
  <2>2. pt'[dir[cs]][i] = pt[dir[cs]][i]
    BY <1>7, <1>9
  <2>3. CASE pt[dir[cs]][i].v
    <3>1. /\ cs \in ready
          /\ EntryUse(p, cs, i) \/ EntryUse(p, Kas, i)
      BY <1>9, <2>3, Walks
    <3>2. CASE p # table[c]
      <4>1. p \in Pool
        BY <3>1, Distinct
      <4>2. pt'[p] = pt[p]
        BY <1>6, <3>2, <4>1
      <4> QED BY <2>2, <4>2, SameWalk
    <3>3. CASE p = table[c]
      <4>1. (cs = bs \/ Kas = bs) /\ i = Group(c)
        BY <1>4, <3>1, <3>3, Distinct
      <4>2. cs = bs
        <5>1. Kas = bs => ~vme_enable
          BY <1>1, <1>2 DEF Calls, CallOK, Asked
        <5>2. Kas = bs => cs = Kas
          BY <1>2, <1>9, <5>1 DEF Boot, AllSpaces
        <5> QED BY <4>1, <5>2
      <4>3. j # Slot(c)
        BY <1>3, <1>9, <4>1, <4>2, SamePage DEF Group, Slot
      <4>4. pt'[p][j] = pt[p][j]
        BY <1>6, <2>1, <3>3, <4>3
      <4> QED BY <2>2, <4>4, SameWalk
    <3> QED BY <3>2, <3>3
  <2>4. CASE ~pt[dir[cs]][i].v
    BY <2>2, <2>4 DEF MapQuery
  <2> QED BY <2>3, <2>4
<1> QED
  BY <1>8, <1>9 DEF Trans

\* What a call asks for.
WantOf(c) ==
  IF pc[c] \in Mapping THEN [as |-> req[c].as, va |-> req[c].va, pa |-> req[c].pa] ELSE None

\* The refinement mapping, page by page and caller by caller.
LEMMA Mapped ==
  /\ transBar = [as \in AllSpaces |-> [va \in Vas |-> Trans(as, va)]]
  /\ wantBar = [c \in Callers |-> WantOf(c)]
  /\ transBar' = [as \in AllSpaces |-> [va \in Vas |-> Trans(as, va)']]
  /\ wantBar' = [c \in Callers |-> WantOf(c)']
<1>1. Steps \ {"idle", "init", "copy"} = Mapping
  BY DEF Steps, Mapping
<1> QED
  BY <1>1 DEF transBar, wantBar, Trans, WantOf

\* Asking for a page is not asking for none.
LEMMA WantSomething ==
  ASSUME IInv, NEW c \in Callers, pc[c] \in Mapping
  PROVE  WantOf(c) \in [as : AllSpaces, va : Vas, pa : Pmem] /\ WantOf(c) # None
<1>1. WantOf(c) \in [as : AllSpaces, va : Vas, pa : Pmem]
  BY CallFacts DEF WantOf
<1> DEFINE S == [as : AllSpaces, va : Vas, pa : Pmem]
<1>2. None \notin S
  BY NamesAssumption
<1> HIDE DEF S
<1>3. WantOf(c) \in S
  BY <1>1 DEF S
<1> QED
  BY <1>1, <1>2, <1>3

\* A step that moves no page and changes no wish is no step of AddressSpaces.
LEMMA Stutters ==
  ASSUME \A as \in AllSpaces, va \in Vas : Trans(as, va)' = Trans(as, va),
         \A c \in Callers : WantOf(c)' = WantOf(c), ready' = ready
  PROVE  UNCHANGED A!absVars
<1>1. transBar' = transBar /\ wantBar' = wantBar
  BY Mapped
<1> QED
  BY <1>1 DEF A!absVars

\* The initial states.
LEMMA RefinesInit == Init => A!Init
<1> SUFFICES ASSUME Init PROVE A!Init
  OBVIOUS
<1>1. \A as \in AllSpaces, va \in Vas : Trans(as, va) = None
  BY DEF Init, Trans
<1>2. \A c \in Callers : WantOf(c) = None
  BY DEF Init, WantOf, Mapping
<1>3. ready = {}
  BY DEF Init
<1> QED
  BY <1>1, <1>2, <1>3, Mapped DEF A!Init

\* vme_init's directory makes the kernel's space, which is empty.
LEMMA RefinesVmeInit ==
  ASSUME IInv, IInv', NEW c \in Callers, VmeInit(c)
  PROVE  A!Make(Kas)
<1>1. /\ pc[c] = "idle" /\ dir[Kas] = None /\ pc' = [pc EXCEPT ![c] = "init"]
      /\ ready' = ready \cup {Kas} /\ pt' = pt /\ req' = req
  BY DEF VmeInit, Goto
<1>2. PICK q \in free : dir' = [dir EXCEPT ![Kas] = q]
  BY DEF VmeInit
<1>3. Kas \notin ready /\ pt[q] = Zeroed /\ q # None
  BY <1>1, NotNone DEF IInv, Fresh, TypeOK, AllSpaces
<1>4. dir'[Kas] = q /\ \A as \in AllSpaces : as # Kas => dir'[as] = dir[as]
  BY <1>2 DEF IInv, TypeOK, AllSpaces
<1>5. ASSUME NEW va \in Vas PROVE Trans(Kas, va)' = None
  <2>1. Vpn1(va) \in Index
    BY PageSplit DEF Index
  <2>2. ~pt'[dir'[Kas]][Vpn1(va)].v
    BY <1>1, <1>3, <1>4, <2>1 DEF Zeroed
  <2> QED BY <2>2 DEF Trans, MapQuery
<1>6. \A as \in AllSpaces, va \in Vas : Trans(as, va)' = Trans(as, va)
  <2>1. \A va \in Vas : Trans(Kas, va)' = Trans(Kas, va)
    BY <1>1, <1>5 DEF Trans
  <2>2. \A as \in AllSpaces, va \in Vas : as # Kas => Trans(as, va)' = Trans(as, va)
    BY <1>1, <1>4 DEF Trans, MapQuery
  <2> QED BY <2>1, <2>2
<1>7. \A d \in Callers : WantOf(d)' = WantOf(d)
  <2>1. \A d \in Callers : pc'[d] \in Mapping <=> pc[d] \in Mapping
    BY <1>1 DEF IInv, TypeOK, Mapping
  <2> QED BY <1>1, <2>1 DEF WantOf
<1>8. transBar' = transBar /\ wantBar' = wantBar
  BY <1>6, <1>7, Mapped
<1> QED
  BY <1>1, <1>3, <1>8 DEF A!Make

\* protect's directory is empty, as the space was.
LEMMA RefinesProtect ==
  ASSUME IInv, NEW c \in Callers, NEW bs \in Spaces, Protect(c, bs)
  PROVE  UNCHANGED A!absVars
<1>1. /\ pc[c] = "idle" /\ dir[bs] = None /\ pc' = [pc EXCEPT ![c] = "copy"]
      /\ ready' = ready /\ pt' = pt
  BY DEF Protect, Goto
<1>2. PICK q \in free : dir' = [dir EXCEPT ![bs] = q]
  BY DEF Protect
<1>3. pt[q] = Zeroed /\ q # None /\ bs \in AllSpaces
  BY NotNone DEF IInv, Fresh, TypeOK, AllSpaces
<1>4. dir'[bs] = q /\ \A as \in AllSpaces : as # bs => dir'[as] = dir[as]
  BY <1>2, <1>3 DEF IInv, TypeOK
<1>5. ASSUME NEW va \in Vas PROVE Trans(bs, va)' = None
  <2>1. Vpn1(va) \in Index
    BY PageSplit DEF Index
  <2>2. ~pt'[dir'[bs]][Vpn1(va)].v
    BY <1>1, <1>3, <1>4, <2>1 DEF Zeroed
  <2> QED BY <2>2 DEF Trans, MapQuery
<1>6. \A as \in AllSpaces, va \in Vas : Trans(as, va)' = Trans(as, va)
  <2>1. \A va \in Vas : Trans(bs, va)' = Trans(bs, va)
    BY <1>1, <1>5 DEF Trans
  <2>2. \A as \in AllSpaces, va \in Vas : as # bs => Trans(as, va)' = Trans(as, va)
    BY <1>1, <1>4 DEF Trans, MapQuery
  <2> QED BY <2>1, <2>2
<1>7. \A d \in Callers : WantOf(d)' = WantOf(d)
  <2>1. pc[c] \notin Mapping /\ pc'[c] \notin Mapping
    BY <1>1 DEF IInv, TypeOK, Mapping
  <2>2. \A d \in Callers : d # c => pc'[d] = pc[d] /\ req'[d] = req[d]
    BY <1>1 DEF Protect, IInv, TypeOK
  <2> QED BY <2>1, <2>2 DEF WantOf
<1> QED
  BY <1>1, <1>6, <1>7, Stutters

\* The copy of the kernel's directory makes a space with the kernel's pages.
LEMMA RefinesCopy ==
  ASSUME IInv, NEW c \in Callers, Copy(c)
  PROVE  \E as \in AllSpaces : A!Make(as)
<1>1. PICK bs : bs = req[c].as
  OBVIOUS
<1>2. /\ pt' = [pt EXCEPT ![dir[bs]] = pt[dir[Kas]]] /\ req' = [req EXCEPT ![c] = None]
      /\ pc[c] = "copy" /\ pc' = [pc EXCEPT ![c] = "idle"] /\ ready' = ready \cup {bs}
      /\ dir' = dir
  BY <1>1 DEF Copy, Copied, Goto
<1>3. /\ TypeOK /\ Owned /\ Calls /\ Exclusive /\ Boot /\ Fresh /\ Shared /\ Progress /\ KernelDone
  BY DEF IInv
<1>4. /\ bs \in AllSpaces /\ bs # Kas /\ bs \notin ready /\ dir[bs] # None /\ dir[bs] \in Pool
      /\ Kas \in AllSpaces /\ Kas \in ready /\ dir[Kas] # None /\ dir[Kas] # dir[bs]
  <2>1. bs \in AllSpaces /\ bs \notin ready /\ dir[bs] # None /\ Kas \in ready
    BY <1>1, <1>2, <1>3 DEF Calls, CallOK, Boot, AllSpaces
  <2> QED BY <1>3, <2>1, Distinct DEF Fresh, AllSpaces
<1>5. /\ pt'[dir[bs]] = pt[dir[Kas]] /\ \A p \in Pool : p # dir[bs] => pt'[p] = pt[p]
  BY <1>2, <1>3, <1>4 DEF TypeOK
<1>6. ASSUME NEW cs \in AllSpaces, dir[cs] # None, cs # bs, NEW va \in Vas
      PROVE  MapQuery(cs, va)' = MapQuery(cs, va)
  <2> DEFINE p == pt[dir[cs]][Vpn1(va)].ppn
  <2>1. pt'[dir[cs]] = pt[dir[cs]]
    BY <1>4, <1>5, <1>6, Distinct
  <2>2. ASSUME pt[dir[cs]][Vpn1(va)].v PROVE pt'[p] = pt[p]
    <3>1. p \in Pool /\ p # dir[bs]
      BY <1>4, <1>6, <2>2, Walks, Distinct
    <3> QED BY <1>5, <3>1
  <2> QED BY <1>2, <2>1, <2>2, SameWalk
<1>7. ASSUME NEW va \in Vas PROVE MapQuery(bs, va)' = MapQuery(Kas, va)'
  <2>1. pt'[dir'[bs]] = pt'[dir'[Kas]]
    BY <1>2, <1>4, <1>5, Distinct
  <2> QED BY <2>1 DEF MapQuery
<1>8. \A va \in Vas : Trans(bs, va)' = Trans(Kas, va)
  BY <1>2, <1>4, <1>6, <1>7 DEF Trans
<1>9. \A as \in AllSpaces, va \in Vas : as # bs => Trans(as, va)' = Trans(as, va)
  BY <1>2, <1>6 DEF Trans
<1>10. transBar' = [transBar EXCEPT ![bs] = transBar[Kas]]
  <2>1. transBar' = [as \in AllSpaces |-> IF as = bs THEN [va \in Vas |-> Trans(Kas, va)]
                                         ELSE [va \in Vas |-> Trans(as, va)]]
    BY <1>8, <1>9, Mapped
  <2>2. transBar = [as \in AllSpaces |-> [va \in Vas |-> Trans(as, va)]]
    BY Mapped
  <2> QED BY <1>4, <2>1, <2>2
<1>11. \A d \in Callers : WantOf(d)' = WantOf(d)
  <2>1. pc[c] \notin Mapping /\ pc'[c] \notin Mapping
    BY <1>2, <1>3 DEF TypeOK, Mapping
  <2>2. \A d \in Callers : d # c => pc'[d] = pc[d] /\ req'[d] = req[d]
    BY <1>2, <1>3 DEF TypeOK
  <2> QED BY <2>1, <2>2 DEF WantOf
<1>12. wantBar' = wantBar
  BY <1>11, Mapped
<1>13. A!Make(bs)
  BY <1>2, <1>4, <1>10, <1>12 DEF A!Make
<1> QED
  BY <1>4, <1>13

\* A call of map begins.
LEMMA RefinesBegin ==
  ASSUME IInv, NEW c \in Callers, pc[c] \in {"idle", "init"}, IInv',
         pc' = [pc EXCEPT ![c] = "walk"], \A d \in Callers : d # c => req'[d] = req[d],
         pt' = pt, dir' = dir, ready' = ready
  PROVE  A!Begin(c)
<1>1. WantOf(c) = None
  BY DEF WantOf, Mapping
<1>2. pc'[c] = "walk" /\ \A d \in Callers : d # c => pc'[d] = pc[d]
  BY DEF IInv, TypeOK
<1>3. /\ req'[c] \in Request /\ req'[c].as \in ready
  <2>1. CallOK(c)'
    BY DEF IInv, Calls
  <2> QED BY <1>2, <2>1 DEF CallOK, Mapping
<1>4. WantOf(c)' = [as |-> req'[c].as, va |-> req'[c].va, pa |-> req'[c].pa]
  BY <1>2 DEF WantOf, Mapping
<1>5. WantOf(c)' \in A!Requests /\ (WantOf(c)').as \in ready
  BY <1>3, <1>4 DEF A!Requests, Request
<1>6. \A d \in Callers : d # c => WantOf(d)' = WantOf(d)
  BY <1>2 DEF WantOf
<1>7. wantBar[c] = None /\ wantBar'[c] = WantOf(c)' /\ wantBar' = [wantBar EXCEPT ![c] = wantBar'[c]]
  BY <1>1, <1>6, Mapped
<1>8. transBar' = transBar
  <2>1. \A as \in AllSpaces, va \in Vas : Trans(as, va)' = Trans(as, va)
    BY DEF Trans, MapQuery
  <2> QED BY <2>1, Mapped
<1> QED
  BY <1>5, <1>7, <1>8 DEF A!Begin

\* A step of a call that writes no page's entry, and the end of vme_init.
LEMMA RefinesStutter ==
  ASSUME IInv, NEW c \in Callers,
         InitDone(c) \/ Walk(c) \/ Alloc(c) \/ WriteDir(c) \/ ValidDir(c)
  PROVE  UNCHANGED A!absVars
<1>1. ready' = ready /\ req' = req /\ dir' = dir
  BY DEF InitDone, Walk, Alloc, WriteDir, ValidDir
<1>2. \A d \in Callers : pc'[d] \in Mapping <=> pc[d] \in Mapping
  BY DEF InitDone, Walk, Alloc, WriteDir, ValidDir, Goto, IInv, TypeOK, Mapping
<1>3. \A d \in Callers : WantOf(d)' = WantOf(d)
  BY <1>1, <1>2 DEF WantOf
<1>4. \A as \in AllSpaces, va \in Vas : Trans(as, va)' = Trans(as, va)
  <2>1. CASE pt' = pt
    BY <1>1, <2>1 DEF Trans, MapQuery
  <2>2. CASE WriteDir(c)
    <3>1. PICK e : e = [ppn |-> table[c], v |-> FALSE]
      OBVIOUS
    <3>2. pc[c] = "dir" /\ pt' = [pt EXCEPT ![Dir(c)][Group(c)] = e]
      BY <2>2, <3>1 DEF WriteDir, Group
    <3> QED BY <1>1, <3>1, <3>2, DirWriteTrans
  <2>3. CASE ValidDir(c)
    <3>1. PICK e : e = [ppn |-> table[c], v |-> TRUE]
      OBVIOUS
    <3>2. pc[c] = "dirv" /\ pt' = [pt EXCEPT ![Dir(c)][Group(c)] = e]
      BY <2>3, <3>1, ValidDirWrites DEF ValidDir
    <3> QED BY <1>1, <3>1, <3>2, DirWriteTrans
  <2>4. pt' = pt \/ WriteDir(c) \/ ValidDir(c)
    BY DEF InitDone, Walk, Alloc
  <2> QED BY <2>1, <2>2, <2>3, <2>4
<1> QED
  BY <1>1, <1>3, <1>4, Stutters

\* A write to the page's entry is work on that page alone.
LEMMA RefinesWork ==
  ASSUME IInv, NEW c \in Callers, WriteLeaf(c) \/ ValidLeaf(c)
  PROVE  A!Work(c)
<1>1. /\ pc[c] \in {"leaf", "leafv"} /\ pc[c] \in Mapping
      /\ ready' = ready /\ req' = req /\ dir' = dir
  BY DEF WriteLeaf, ValidLeaf, Mapping
<1>2. PICK b \in BOOLEAN : pt' = [pt EXCEPT ![table[c]][Slot(c)] = [ppn |-> req[c].pa, v |-> b]]
  BY ValidLeafWrites DEF WriteLeaf, Slot
<1>3. PICK bs, va, pa : bs = req[c].as /\ va = req[c].va /\ pa = req[c].pa
  OBVIOUS
<1>4. bs \in AllSpaces /\ va \in Vas
  BY <1>1, <1>3, CallFacts
<1>5. /\ Trans(bs, va)' = IF b THEN pa ELSE None
      /\ \A as \in AllSpaces, u \in Vas : as # bs \/ u # va => Trans(as, u)' = Trans(as, u)
  <2>1. PICK e : e = [ppn |-> req[c].pa, v |-> b]
    OBVIOUS
  <2>2. pt' = [pt EXCEPT ![table[c]][Slot(c)] = e]
    BY <1>2, <2>1
  <2>3. (req[c].as)' = bs /\ (req[c].va)' = va
    BY <1>1, <1>3
  <2>4. /\ Trans(req[c].as, req[c].va)' = IF b THEN req[c].pa ELSE None
        /\ \A as \in AllSpaces, u \in Vas :
             as # req[c].as \/ u # req[c].va => Trans(as, u)' = Trans(as, u)
    BY <1>1, <2>1, <2>2, LeafWriteTrans
  <2> QED BY <1>3, <2>3, <2>4 DEF Trans
<1>6. wantBar[c] = [as |-> bs, va |-> va, pa |-> pa] /\ wantBar[c] # None
  <2>1. wantBar[c] = WantOf(c)
    BY Mapped
  <2> QED BY <1>1, <1>3, <2>1, WantSomething DEF WantOf
<1>7. wantBar' = wantBar
  <2>1. \A d \in Callers : pc'[d] \in Mapping <=> pc[d] \in Mapping
    BY DEF WriteLeaf, ValidLeaf, Goto, IInv, TypeOK, Mapping
  <2>2. \A d \in Callers : WantOf(d)' = WantOf(d)
    BY <1>1, <2>1 DEF WantOf
  <2> QED BY <2>2, Mapped
<1>8. /\ transBar'[bs][va] = IF b THEN pa ELSE None
      /\ transBar' = [transBar EXCEPT ![bs][va] = transBar'[bs][va]]
  <2>1. transBar' = [as \in AllSpaces |-> [u \in Vas |->
           IF as = bs /\ u = va THEN IF b THEN pa ELSE None ELSE Trans(as, u)]]
    BY <1>5, Mapped
  <2>2. transBar = [as \in AllSpaces |-> [u \in Vas |-> Trans(as, u)]]
    BY Mapped
  <2>3. transBar'[bs][va] = IF b THEN pa ELSE None
    BY <1>4, <2>1
  <2>4. PICK new : new = (IF b THEN pa ELSE None)
    OBVIOUS
  <2>5. [transBar EXCEPT ![bs][va] = new] =
          [as \in AllSpaces |-> [u \in Vas |-> IF as = bs /\ u = va THEN new ELSE Trans(as, u)]]
    BY <1>4, <2>2
  <2>6. transBar' = [transBar EXCEPT ![bs][va] = new] /\ transBar'[bs][va] = new
    BY <2>1, <2>3, <2>4, <2>5
  <2>7. transBar' = [transBar EXCEPT ![bs][va] = transBar'[bs][va]]
    BY <2>6, Zenon
  <2> QED BY <2>3, <2>7
<1> QED
  BY <1>1, <1>6, <1>7, <1>8 DEF A!Work

\* When map returns the page lies where it was asked to.
LEMMA RefinesEnd ==
  ASSUME IInv, NEW c \in Callers, Return(c)
  PROVE  A!End(c)
<1>1. /\ pc[c] = "ret" /\ pc[c] \in Mapping
      /\ pc' = [pc EXCEPT ![c] = IF req[c].as = Kas THEN "init" ELSE "idle"]
      /\ req' = [req EXCEPT ![c] = None]
      /\ ready' = ready /\ pt' = pt /\ dir' = dir
  BY DEF Return, Goto, Mapping
<1>2. /\ pc'[c] \notin Mapping
      /\ \A d \in Callers : d # c => pc'[d] = pc[d] /\ req'[d] = req[d]
  BY <1>1 DEF IInv, TypeOK, Mapping
<1>3. wantBar[c] = WantOf(c) /\ WantOf(c) # None
      /\ WantOf(c) = [as |-> req[c].as, va |-> req[c].va, pa |-> req[c].pa]
  BY <1>1, WantSomething, Mapped DEF WantOf
<1>4. wantBar' = [wantBar EXCEPT ![c] = None]
  <2>1. WantOf(c)' = None /\ \A d \in Callers : d # c => WantOf(d)' = WantOf(d)
    BY <1>2 DEF WantOf
  <2> QED BY <2>1, Mapped
<1>5. transBar' = transBar
  <2>1. \A as \in AllSpaces, va \in Vas : Trans(as, va)' = Trans(as, va)
    BY <1>1 DEF Trans, MapQuery
  <2> QED BY <2>1, Mapped
<1>6. transBar[req[c].as][req[c].va] = req[c].pa
  <2>1. /\ req[c].as \in AllSpaces /\ req[c].va \in Vas /\ Dir(c) # None
    BY <1>1, CallFacts
  <2>2. /\ Pde(c) = [ppn |-> table[c], v |-> TRUE]
        /\ Leaf(c) = [ppn |-> req[c].pa, v |-> TRUE]
    BY <1>1 DEF IInv, Progress
  <2>3. Trans(req[c].as, req[c].va) = req[c].pa
    BY <2>1, <2>2 DEF Trans, MapQuery, Pde, Dir, Leaf, Slot
  <2> QED BY <2>1, <2>3, Mapped
<1> QED
  BY <1>1, <1>3, <1>4, <1>5, <1>6 DEF A!End

\* vme.c implements AddressSpaces: whatever calls are interleaved, each space is a map
\* from pages to pages, a new one holds the kernel's pages, and a call of map changes
\* the page it was asked to and no other, in that space and in no other.
THEOREM Refinement == Spec => AddressSpacesSpec
<1>1. IInv /\ IInv' /\ [Next]_vars => [A!Next]_(A!absVars)
  <2> SUFFICES ASSUME IInv, IInv', [Next]_vars PROVE A!Next \/ UNCHANGED A!absVars
    OBVIOUS
  <2>1. CASE UNCHANGED vars
    <3>1. /\ pt' = pt /\ dir' = dir /\ ready' = ready /\ pc' = pc /\ req' = req
      BY <2>1 DEF vars
    <3> QED BY <3>1, Stutters DEF Trans, MapQuery, WantOf
  <2>2. CASE Next
    <3>1. PICK c \in Callers :
            \/ VmeInit(c) \/ InitMap(c) \/ InitDone(c)
            \/ \E as \in Spaces : Protect(c, as)
            \/ Copy(c)
            \/ \E as \in Spaces, va \in MapVas, pa \in DataPages, prot \in Prots :
                 Map(c, as, va, pa, prot)
            \/ MapStep(c)
      BY <2>2 DEF Next
    <3>2. CASE VmeInit(c)
      BY <3>2, RefinesVmeInit DEF A!Next, AllSpaces
    <3>3. CASE Copy(c)
      BY <3>3, RefinesCopy DEF A!Next
    <3>4. CASE \E as \in Spaces : Protect(c, as)
      BY <3>4, RefinesProtect
    <3>5. CASE InitMap(c) \/ \E as \in Spaces, va \in MapVas, pa \in DataPages, prot \in Prots :
                               Map(c, as, va, pa, prot)
      <4>1. /\ pc[c] \in {"idle", "init"} /\ pc' = [pc EXCEPT ![c] = "walk"]
            /\ pt' = pt /\ dir' = dir /\ ready' = ready
        BY <3>5 DEF InitMap, Map, Goto
      <4>2. \A d \in Callers : d # c => req'[d] = req[d]
        BY <3>5 DEF InitMap, Map, IInv, TypeOK
      <4> QED BY <4>1, <4>2, RefinesBegin DEF A!Next
    <3>6. CASE InitDone(c) \/ Walk(c) \/ Alloc(c) \/ WriteDir(c) \/ ValidDir(c)
      BY <3>6, RefinesStutter
    <3>7. CASE WriteLeaf(c) \/ ValidLeaf(c)
      BY <3>7, RefinesWork DEF A!Next
    <3>8. CASE Return(c)
      BY <3>8, RefinesEnd DEF A!Next
    <3> QED BY <3>1, <3>2, <3>3, <3>4, <3>5, <3>6, <3>7, <3>8 DEF MapStep
  <2> QED BY <2>1, <2>2
<1> QED
  BY RefinesInit, Invariant, <1>1, PTL DEF Spec, AddressSpacesSpec, A!Spec
=============================================================================

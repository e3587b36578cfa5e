----------------------------- MODULE UserMemory -----------------------------
(***************************************************************************)
(* The memory of user processes: segments and their pages (9vx/a/segment.c,*)
(* page.c, fault.c), and the few host address spaces into which user       *)
(* processes are mapped in turn (9vx/mmu.c).                               *)
(*                                                                         *)
(* User processes run on cpu0 and in the kernel give it up only where they *)
(* sleep: a step goes from one such place to the next, or, where s->lk is  *)
(* held all the while, to the next decision.  palloc.lk may be held by a   *)
(* kproc that dies on another thread; only duppage does not wait for that. *)
(*                                                                         *)
(* One segment of a process is followed, of demand-loaded data or of bss.  *)
(* There is one program file.  As in 9vx there is no swap (conf.nswap is 0)*)
(* and pages have one colour.                                              *)
(***************************************************************************)
EXTENDS Naturals, SequencesExt, FiniteSetsExt

CONSTANTS
    Proc,       \* user processes
    Seg,        \* bound: the segments there may be
    Page,       \* physical pages
    Space,      \* uspace[]: host address spaces
    NPages,     \* bound: the pages of a segment
    HighWater,  \* swapalloc.highwater: free pages that are not given out
    None        \* nobody, nothing

ASSUME UserMemoryAssumption ==
    /\ NPages \in Nat \ {0} /\ HighWater \in Nat
    /\ IsFiniteSet(Proc) /\ IsFiniteSet(Seg) /\ IsFiniteSet(Page)
    /\ IsFiniteSet(Space) /\ Space # {}
    /\ None \notin Proc \cup Seg \cup Page \cup Space \cup Nat
    /\ None \notin [off: Nat, write: BOOLEAN] \cup [page: Page, write: BOOLEAN]

VARIABLES
    seg,        \* up->seg: the segment of a process
    kind, size, \* its type, "data" or "bss", and its pages
    pte,        \* s->map: the page at an offset
    slk,        \* who has s->lk while it does more than one step
    ref,        \* the page's count of users; those with none are on the free list
    cached,     \* where in the file it belongs, when the image cache has it
    content,    \* what is in it: "file", "zero", or what was stored: "new"
    us,         \* pmmu.us: the space a process was given
    owner,      \* us->p: the process a space is mapped for
    ulist,      \* the spaces, the one used last first
    map,        \* what is mapped in a space: a page, and if it may be stored to
    newtlb,     \* p->newtlb
    flushm,     \* m->flushmmu of cpu0
    cur,        \* up on cpu0
    acc,        \* the access p faults on
    own,        \* pio's page new
    pc

segs == <<seg, kind, size>>
pages == <<ref, cached, content>>
spaces == <<us, owner, ulist>>
flushes == <<newtlb, flushm>>
vars == <<segs, pte, slk, pages, spaces, map, flushes, cur, acc, own, pc>>

Off == 1..NPages
TypeOK ==
    /\ seg \in [Proc -> Seg \cup {None}]
    /\ kind \in [Seg -> {"data", "bss"}] /\ size \in [Seg -> 0..NPages]
    /\ pte \in [Seg -> [Off -> Page \cup {None}]]
    /\ slk \in [Seg -> Proc \cup {None}]
    /\ ref \in [Page -> Nat] /\ cached \in [Page -> Off \cup {None}]
    /\ content \in [Page -> {"file", "zero", "new"}]
    /\ us \in [Proc -> Space \cup {None}] /\ owner \in [Space -> Proc \cup {None}]
    /\ ulist \in SetToSeqs(Space)
    /\ map \in [Space -> [Off -> [page: Page, write: BOOLEAN] \cup {None}]]
    /\ newtlb \in [Proc -> BOOLEAN] /\ flushm \in BOOLEAN
    /\ cur \in Proc \cup {None}
    /\ acc \in [Proc -> [off: Off, write: BOOLEAN] \cup {None}]
    /\ own \in [Proc -> Page \cup {None}]
    /\ pc \in [Proc -> {"none", "user", "bare", "fault", "alloc", "io", "common", "dup"}]

Empty == [o \in Off |-> None]

(* userinit: the first process.                                             *)
Init ==
    /\ \E p \in Proc, s \in Seg :
         /\ seg = [q \in Proc |-> IF q = p THEN s ELSE None]
         /\ pc = [q \in Proc |-> IF q = p THEN "user" ELSE "none"]
         /\ size = [t \in Seg |-> IF t = s THEN NPages ELSE 0]
    /\ kind = [s \in Seg |-> "bss"]
    /\ pte = [s \in Seg |-> Empty] /\ slk = [s \in Seg |-> None]
    /\ ref = [g \in Page |-> 0] /\ cached = [g \in Page |-> None]
    /\ content = [g \in Page |-> "zero"]
    /\ us = [p \in Proc |-> None] /\ owner = [u \in Space |-> None]
    /\ ulist \in SetToSeqs(Space)
    /\ map = [u \in Space |-> Empty]
    /\ newtlb = [p \in Proc |-> FALSE] /\ flushm = FALSE
    /\ cur = None
    /\ acc = [p \in Proc |-> None]
    /\ own = [p \in Proc |-> None]

Goto(p, from, to) == cur = p /\ pc[p] = from /\ pc' = [pc EXCEPT ![p] = to]

Users(s) == {p \in Proc : seg[p] = s}    \* s->ref counts these
Free == {g \in Page : ref[g] = 0}        \* palloc.head
PagesOf(s) == {pte[s][o] : o \in Off} \ {None}

(* freepte and putpage: one user less for each of G.  What is left in a     *)
(* page that nobody has and the cache has not is forgotten.                 *)
Putpages(G) ==
    /\ ref' = [g \in Page |-> IF g \in G THEN ref[g] - 1 ELSE ref[g]]
    /\ content' = [g \in Page |-> IF ref'[g] = 0 /\ cached[g] = None THEN "zero" ELSE content[g]]

----------------------------------------------------------------------------
(* Host address spaces: mmuswitch and what it calls.                        *)

Usespace(u) == ulist' = <<u>> \o RemoveFirst(ulist, u)

Mmapflush(u) == map' = [map EXCEPT ![u] = Empty] /\ flushm' = FALSE

Flushmmu(p) == Mmapflush(us[p])

(* Slip: the process that had the space is made to ask for another.         *)
GetspaceEvicts(p) ==
    LET u == Last(ulist) IN
    /\ Mmapflush(u)
    /\ owner' = [owner EXCEPT ![u] = p]
    /\ us' = [q \in Proc |-> IF q = p THEN u ELSE IF q = owner[u] THEN None ELSE us[q]]
    /\ Usespace(u)
    /\ UNCHANGED newtlb

Getspace(p) ==
    LET u == Last(ulist) IN
    /\ IF owner[u] = None THEN UNCHANGED <<map, flushm>> ELSE Mmapflush(u)
    /\ owner' = [owner EXCEPT ![u] = p] /\ us' = [us EXCEPT ![p] = u]
    /\ Usespace(u)
    /\ UNCHANGED newtlb

Takespace(p) ==
    /\ owner' = [owner EXCEPT ![us[p]] = p]
    /\ Mmapflush(us[p])
    /\ Usespace(us[p])
    /\ UNCHANGED <<us, newtlb>>

Keepspace(p) ==
    /\ IF newtlb[p] \/ flushm
       THEN Mmapflush(us[p]) /\ newtlb' = [newtlb EXCEPT ![p] = FALSE]
       ELSE UNCHANGED <<map, flushes>>
    /\ Usespace(us[p])
    /\ UNCHANGED <<us, owner>>

Mmuswitch(p) ==
    \/ us[p] # None /\ owner[us[p]] = p /\ Keepspace(p)
    \/ us[p] = None /\ Getspace(p)
    \/ us[p] # None /\ owner[us[p]] # p /\ Takespace(p)

(* putspace, from mmurelease; what us->p points to gives it up.             *)
Putspace(u) ==
    /\ us' = [us EXCEPT ![owner[u]] = None]
    /\ owner' = [owner EXCEPT ![u] = None]
    /\ Mmapflush(u)
    /\ ulist' = Append(RemoveFirst(ulist, u), u)

Enough == Cardinality(Free) > HighWater

(* On its way through a fault p waits for s->lk or for a page, or it reads. *)
Waits(p) ==
    /\ pc[p] # "common"
    /\ pc[p] = "fault" => slk[seg[p]] # None \/ ~Enough

(* sched: cur waits or was preempted in user mode, and p is chosen.         *)
Switch(p) ==
    /\ cur # p /\ pc[p] # "none"
    /\ cur # None => Waits(cur)
    /\ pc[p] \in {"fault", "io"} => slk[seg[p]] = None
    /\ cur' = p
    /\ Mmuswitch(p)
    /\ UNCHANGED <<segs, pte, slk, pages, acc, own, pc>>

(* Slip: only the caller is told.                                           *)
ProcflushsegSelf(s) == newtlb' = [newtlb EXCEPT ![cur] = TRUE]

(* procflushseg: whoever has the segment flushes when it runs again.        *)
Procflushseg(s) ==
    newtlb' = [p \in Proc |-> newtlb[p] \/ (seg[p] = s /\ Cardinality(Users(s)) > 1)]

----------------------------------------------------------------------------
(* Faults: trap, fault and fixfault.                                        *)

(* The page p sees at o, and if it may store to it.                         *)
Mapped(p, o, w) == map[us[p]][o] # None /\ (w => map[us[p]][o].write)

FaultCall(p) ==
    /\ Goto(p, "user", "fault")
    /\ \E o \in Off, w \in BOOLEAN : ~Mapped(p, o, w) /\ acc' = [acc EXCEPT ![p] = [off |-> o, write |-> w]]
    /\ UNCHANGED <<segs, pte, slk, pages, spaces, map, flushes, cur, own>>

At(p) == pte[seg[p]][acc[p].off]

(* seg finds no segment there: a note, which a process may survive.         *)
NoSegment(p) ==
    /\ Goto(p, "fault", "user")
    /\ acc[p].off > size[seg[p]] /\ acc' = [acc EXCEPT ![p] = None]
    /\ UNCHANGED <<segs, pte, slk, pages, spaces, map, flushes, cur, own>>

(* seg returns with s->lk                                                   *)
Lock(p, from, to) ==
    /\ Goto(p, from, to)
    /\ acc[p].off <= size[seg[p]] /\ slk[seg[p]] = None

HasPage(p) ==
    /\ Lock(p, "fault", "common") /\ At(p) # None
    /\ slk' = [slk EXCEPT ![seg[p]] = p]
    /\ UNCHANGED <<segs, pte, pages, spaces, map, flushes, cur, acc, own>>

Install(p, g) ==
    /\ pte' = [pte EXCEPT ![seg[p]][acc[p].off] = g]
    /\ slk' = [slk EXCEPT ![seg[p]] = p]

(* newpage gives out a free page, and takes it out of the image cache; when *)
(* it has to wait for one, s->lk is let go of and the fault starts again.   *)
ZeroFill(p) ==
    /\ Lock(p, "fault", "common") /\ At(p) = None /\ kind[seg[p]] = "bss"
    /\ Enough
    /\ \E g \in Free :
         /\ ref' = [ref EXCEPT ![g] = 1] /\ cached' = [cached EXCEPT ![g] = None]
         /\ content' = [content EXCEPT ![g] = "zero"]
         /\ Install(p, g)
    /\ UNCHANGED <<segs, spaces, map, flushes, cur, acc, own>>

Found(p) == {g \in Page : cached[g] = acc[p].off}

(* pio: the page is in the image cache.                                     *)
LookPage(p) ==
    /\ Lock(p, "fault", "common") /\ At(p) = None /\ kind[seg[p]] = "data"
    /\ \E g \in Found(p) : ref' = [ref EXCEPT ![g] = @ + 1] /\ Install(p, g)
    /\ UNCHANGED <<segs, cached, content, spaces, map, flushes, cur, acc, own>>

(* It is not: s->lk is let go of for a page, and for the read.              *)
LoadWaits(p) ==
    /\ Lock(p, "fault", "alloc") /\ At(p) = None /\ kind[seg[p]] = "data"
    /\ Found(p) = {} /\ ~Enough
    /\ UNCHANGED <<segs, pte, slk, pages, spaces, map, flushes, cur, acc, own>>

Load(p) ==
    /\ \/ Goto(p, "alloc", "io")
       \/ Lock(p, "fault", "io") /\ At(p) = None /\ kind[seg[p]] = "data" /\ Found(p) = {}
    /\ Enough
    /\ \E g \in Free :
         /\ ref' = [ref EXCEPT ![g] = 1] /\ cached' = [cached EXCEPT ![g] = None]
         /\ own' = [own EXCEPT ![p] = g]
         /\ content' = [content EXCEPT ![g] = "file"]
    /\ UNCHANGED <<segs, pte, slk, spaces, map, flushes, cur, acc>>

LoadFails(p) ==
    /\ Goto(p, "io", "user")
    /\ Putpages({own[p]})
    /\ own' = [own EXCEPT ![p] = None] /\ acc' = [acc EXCEPT ![p] = None]
    /\ UNCHANGED <<segs, pte, slk, cached, spaces, map, flushes, cur>>

(* Slip: who got there first is not looked at.                              *)
LoadedBlindly(p) ==
    /\ Lock(p, "io", "common")
    /\ Install(p, own[p])
    /\ cached' = [cached EXCEPT ![own[p]] = acc[p].off]
    /\ own' = [own EXCEPT ![p] = None]
    /\ UNCHANGED <<segs, ref, content, spaces, map, flushes, cur, acc>>

(* "race, another proc may have gotten here first while s->lk was unlocked" *)
Loaded(p) ==
    /\ Lock(p, "io", "common")
    /\ IF At(p) = None
       THEN /\ Install(p, own[p])
            /\ cached' = [cached EXCEPT ![own[p]] = acc[p].off]
            /\ UNCHANGED <<ref, content>>
       ELSE Install(p, At(p)) /\ Putpages({own[p]}) /\ UNCHANGED cached
    /\ own' = [own EXCEPT ![p] = None]
    /\ UNCHANGED <<segs, spaces, map, flushes, cur, acc>>

(* The end of a fault: s->lk is free and putmmu maps the page.              *)
Putmmu(p, from, g, w) ==
    /\ Goto(p, from, "user")
    /\ map' = [map EXCEPT ![us[p]][acc[p].off] = [page |-> g, write |-> w]]
    /\ slk' = [slk EXCEPT ![seg[p]] = None] /\ acc' = [acc EXCEPT ![p] = None]
    /\ UNCHANGED <<segs, spaces, flushes, cur, own>>

Common(p) == cur = p /\ pc[p] = "common"

(* Slip: a page may be shown to a reader whoever has the segment.           *)
MayShowAll(p) == ~acc[p].write

(* "It's only possible to copy on write if we're the only user of the       *)
(* segment."                                                                *)
MayShow(p) == ~acc[p].write /\ Users(seg[p]) = {p}

ReadOnly(p) ==
    /\ Common(p) /\ MayShow(p)
    /\ Putmmu(p, "common", At(p), FALSE)
    /\ UNCHANGED <<pte, pages>>

Copypage(g, h) == content' = [content EXCEPT ![h] = content[g]]

CopyOnWrite(p) ==
    /\ Common(p) /\ ~MayShow(p) /\ ref[At(p)] > 1 /\ Enough
    /\ \E g \in Free :
         /\ pte' = [pte EXCEPT ![seg[p]][acc[p].off] = g]
         /\ ref' = [ref EXCEPT ![At(p)] = @ - 1, ![g] = 1]
         /\ cached' = [cached EXCEPT ![g] = None]
         /\ Copypage(At(p), g)
         /\ Putmmu(p, "common", g, TRUE)

(* newpage finds too few free pages, here and for bss.                      *)
NoMemory(p) ==
    /\ Goto(p, "common", "fault")
    /\ ~MayShow(p) /\ ref[At(p)] > 1 /\ ~Enough
    /\ slk' = [slk EXCEPT ![seg[p]] = None]
    /\ UNCHANGED <<segs, pte, pages, spaces, map, flushes, cur, acc, own>>

(* Slip: the cache keeps the page itself.                                   *)
DuppageNot(g) == UNCHANGED pages

(* duppage, which had better have palloc.lk: the cache gets a copy, if      *)
(* there is a page for it, and the page is the segment's alone.             *)
Duppage(g) ==
    /\ UNCHANGED ref
    /\ IF cached[g] = None THEN UNCHANGED <<cached, content>>
       ELSE IF Free # {} /\ Cardinality(Free) >= HighWater
       THEN \E h \in Free :
                /\ Copypage(g, h)
                /\ cached' = [cached EXCEPT ![g] = None, ![h] = cached[g]]
       ELSE cached' = [cached EXCEPT ![g] = None] /\ UNCHANGED content

Alone(p) == Common(p) /\ ~MayShow(p) /\ ref[At(p)] <= 1

Own(p) ==
    /\ Alone(p)
    /\ Putmmu(p, "common", At(p), TRUE)
    /\ Duppage(At(p))
    /\ UNCHANGED pte

(* canlock(&palloc.lk) fails: the page's lock is let go of, not s->lk.      *)
OwnWaits(p) ==
    /\ Goto(p, "common", "dup")
    /\ Alone(p) /\ cached[At(p)] # None
    /\ UNCHANGED <<segs, pte, slk, pages, spaces, map, flushes, cur, acc, own>>

OwnAgain(p) ==
    /\ Putmmu(p, "dup", At(p), TRUE)
    /\ Duppage(At(p))
    /\ UNCHANGED pte

----------------------------------------------------------------------------
(* What programs do.                                                        *)

Store(p) ==
    /\ Goto(p, "user", "user")
    /\ \E o \in Off : Mapped(p, o, TRUE) /\ content' = [content EXCEPT ![map[us[p]][o].page] = "new"]
    /\ UNCHANGED <<segs, pte, slk, ref, cached, spaces, map, flushes, cur, acc, own>>

(* putseg: the last one frees the pages, with s->lk.                        *)
Putseg(p) ==
    LET s == seg[p] IN
    /\ seg' = [seg EXCEPT ![p] = None]
    /\ IF Users(s) = {p}
       THEN /\ slk[s] = None
            /\ Putpages(PagesOf(s)) /\ pte' = [pte EXCEPT ![s] = Empty]
            /\ kind' = [kind EXCEPT ![s] = "bss"] /\ size' = [size EXCEPT ![s] = 0]
       ELSE UNCHANGED <<ref, content, pte, kind, size>>

(* sysexec and pexit, to the point where the old segments are gone.         *)
Putsegs(p) ==
    /\ Goto(p, "user", "bare")
    /\ Putseg(p)
    /\ UNCHANGED <<slk, cached, spaces, map, flushes, cur, acc, own>>

(* The rest of sysexec: newseg and flushmmu.                                *)
Exec(p) ==
    /\ Goto(p, "bare", "user")
    /\ \E s \in Seg, k \in {"data", "bss"} :
         /\ Users(s) = {}
         /\ seg' = [seg EXCEPT ![p] = s]
         /\ kind' = [kind EXCEPT ![s] = k] /\ size' = [size EXCEPT ![s] = NPages]
    /\ Flushmmu(p)
    /\ UNCHANGED <<pte, slk, pages, spaces, newtlb, cur, acc, own>>

(* sysrfork with and without RFMEM.  The child has no space yet.            *)
Child(p, q) == pc' = [pc EXCEPT ![q] = "user"] /\ cur = p /\ pc[p] = "user" /\ pc[q] = "none"

Share(p, q) ==
    /\ Child(p, q)
    /\ slk[seg[p]] = None
    /\ seg' = [seg EXCEPT ![q] = seg[p]]
    /\ Flushmmu(p)
    /\ UNCHANGED <<kind, size, pte, slk, pages, spaces, newtlb, cur, acc, own>>

Copy(p, q) ==
    /\ Child(p, q)
    /\ slk[seg[p]] = None
    /\ \E s \in Seg :
         /\ Users(s) = {}
         /\ seg' = [seg EXCEPT ![q] = s]
         /\ kind' = [kind EXCEPT ![s] = kind[seg[p]]] /\ size' = [size EXCEPT ![s] = size[seg[p]]]
         /\ pte' = [pte EXCEPT ![s] = pte[seg[p]]]
    /\ ref' = [g \in Page |-> IF g \in PagesOf(seg[p]) THEN ref[g] + 1 ELSE ref[g]]
    /\ Procflushseg(seg[p])
    /\ Flushmmu(p)
    /\ UNCHANGED <<slk, cached, content, spaces, cur, acc, own>>

(* syssegbrk and sysbrk, of a bss segment only: ibrk and mfreeseg.          *)
Brk(p) ==
    LET s == seg[p] IN
    /\ Goto(p, "user", "user")
    /\ kind[s] = "bss" /\ slk[s] = None
    /\ \E n \in 0..NPages :
         LET out == {pte[s][o] : o \in (n + 1)..NPages} \ {None} IN
         /\ size' = [size EXCEPT ![s] = n]
         /\ Putpages(out)
         /\ pte' = [pte EXCEPT ![s] = [o \in Off |-> IF o > n THEN None ELSE @[o]]]
         /\ IF n < size[s] THEN Procflushseg(s) /\ Flushmmu(p) ELSE UNCHANGED <<newtlb, map, flushm>>
    /\ UNCHANGED <<seg, kind, slk, cached, spaces, cur, acc, own>>

(* The rest of pexit, and mmurelease in schedinit.  There is always         *)
(* somebody left, be it the boot process.                                   *)
Mmurelease(p) ==
    /\ Goto(p, "bare", "none")
    /\ \E q \in Proc \ {p} : pc[q] # "none"
    /\ cur' = None
    /\ Putspace(us[p])
    /\ UNCHANGED <<segs, pte, slk, pages, newtlb, acc, own>>

Fault(p) ==
    \/ FaultCall(p) \/ NoSegment(p) \/ HasPage(p) \/ ZeroFill(p)
    \/ LookPage(p) \/ Load(p) \/ LoadWaits(p) \/ LoadFails(p) \/ Loaded(p)
    \/ ReadOnly(p) \/ CopyOnWrite(p) \/ NoMemory(p)
    \/ Own(p) \/ OwnWaits(p) \/ OwnAgain(p)

Next == \E p \in Proc :
    \/ Switch(p) \/ Fault(p) \/ Store(p)
    \/ Putsegs(p) \/ Exec(p) \/ Mmurelease(p) \/ Brk(p)
    \/ \E q \in Proc : Share(p, q) \/ Copy(p, q)

Spec == Init /\ [][Next]_vars

----------------------------------------------------------------------------
(* Bound of a run: the race of duppage, which UserMemoryRace shows, is      *)
(* followed until somebody else has the page, and not beyond.               *)
NoRace == \A p \in Proc : pc[p] = "dup" => ref[At(p)] = 1

(* Where g is in segments, and whose new page it is.                        *)
SlotsOf(g) == {x \in Seg \X Off : pte[x[1]][x[2]] = g}
Owners(g) == {p \in Proc : own[p] = g}

(* No page is freed while it is in use, or lost: over all forks, copies,    *)
(* races to load it and exits, its count is what has it.  A page on the     *)
(* free list is in no segment and in nobody's hands.                        *)
PagesCounted == TypeOK /\ \A g \in Page :
    ref[g] = Cardinality(SlotsOf(g)) + Cardinality(Owners(g))

(* A program that runs sees its segment's pages and no page that was copied,*)
(* given up or freed since, though its space may have been another's, and   *)
(* its segment changed by another, while it did not run.  It may store only *)
(* to a page that it shares with nobody, not even with the image cache.     *)
Coherent == cur # None /\ pc[cur] = "user" =>
    \A o \in Off : LET e == map[us[cur]][o] IN e # None =>
        /\ pte[seg[cur]][o] = e.page
        /\ e.write => ref[e.page] = 1 /\ cached[e.page] = None

(* What the image cache gives out is what is in the file.                   *)
CacheClean == \A g \in Page : cached[g] # None => content[g] = "file"

(* The kernel keeps pointers into a process's space while it sleeps: the    *)
(* space stays the process's own until it dies, and is its own to run in.   *)
SpaceKept == [][\A p \in Proc :
    /\ us[p] # None /\ us'[p] # us[p] => pc'[p] = "none"
    /\ cur' = p => us'[p] # None /\ owner'[us'[p]] = p]_vars

(* Why they hold.                                                           *)
(*                                                                          *)
(* What a process has where it is.  A segment nobody has is empty, and      *)
(* while s->lk is held for a page, the page stays in its place.             *)
PlaceInv ==
    /\ \A p \in Proc :
         /\ seg[p] = None <=> pc[p] \in {"none", "bare"}
         /\ acc[p] = None <=> pc[p] \in {"none", "user", "bare"}
         /\ own[p] = None <=> pc[p] # "io"
         /\ pc[p] = "common" => cur = p
         /\ pc[p] \in {"alloc", "io"} => kind[seg[p]] = "data"
         /\ pc[p] \in {"common", "dup"} => slk[seg[p]] = p /\ At(p) # None
    /\ \A s \in Seg :
         /\ Users(s) = {} => pte[s] = Empty
         /\ slk[s] # None => seg[slk[s]] = s /\ pc[slk[s]] \in {"common", "dup"}
         /\ \A o \in Off : o > size[s] => pte[s][o] = None

(* The running process has a space, which is mapped for it; nothing is      *)
(* mapped in a space that nobody has.                                       *)
SpaceInv ==
    /\ cur # None => pc[cur] # "none" /\ us[cur] # None /\ owner[us[cur]] = cur
    /\ \A p \in Proc : pc[p] = "none" => us[p] = None
    /\ \A u \in Space :
         /\ owner[u] # None => us[owner[u]] = u
         /\ owner[u] = None => map[u] = Empty

(* A page is at one offset, in all segments and in the cache; a new page is *)
(* in neither, and nobody else's.                                           *)
OffsetInv ==
    /\ \A s, t \in Seg : \A o, n \in Off :
         pte[s][o] # None /\ pte[s][o] = pte[t][n] => o = n
    /\ \A s \in Seg : \A o \in Off :
         pte[s][o] # None /\ cached[pte[s][o]] # None => cached[pte[s][o]] = o
    /\ \A p \in Proc : own[p] # None =>
         /\ cached[own[p]] = None
         /\ \A s \in Seg, o \in Off : pte[s][o] # own[p]
         /\ \A q \in Proc : own[q] = own[p] => q = p

(* Coherent, of a process that does not run, unless it is to flush; a page  *)
(* that may only be read is shown to the only user of the segment.          *)
MapInv == \A p \in Proc :
    /\ us[p] # None /\ owner[us[p]] = p
    /\ seg[p] # None
    /\ p = cur \/ ~newtlb[p]
    => \A o \in Off : LET e == map[us[p]][o] IN e # None =>
        /\ pte[seg[p]][o] = e.page
        /\ e.write => ref[e.page] = 1 /\ cached[e.page] = None
        /\ ~e.write => Users(seg[p]) = {p}

CleanInv ==
    /\ CacheClean
    /\ \A p \in Proc : own[p] # None => content[own[p]] = "file"

IInv == PagesCounted /\ PlaceInv /\ SpaceInv /\ OffsetInv

Fresh(s) == IF kind[s] = "data" THEN "file" ELSE "zero"

(* What a program would find there.                                         *)
View(s, o) == IF pte[s][o] = None THEN Fresh(s) ELSE content[pte[s][o]]

Contents == [s \in Seg |-> [o \in Off |->
    IF Users(s) = {} \/ o > size[s] THEN "gone" ELSE View(s, o)]]

Memory == INSTANCE Memory WITH mem <- Contents

(* Faults, copies on write, loads and flushes are invisible: a store        *)
(* changes one segment, a copy is a copy, and memory starts as it should.   *)
ImplementsMemory == Memory!AbsSpec
==============================================================================
